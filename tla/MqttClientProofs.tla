-------------------------- MODULE MqttClientProofs --------------------------
(***************************************************************************)
(* Theorems about MqttClient, for any numbers of samples, commands and     *)
(* failures, and about the operators of MqttOutbox it is built from.       *)
(***************************************************************************)
EXTENDS MqttClient, FiniteSetTheorems, SequenceTheorems, TLAPS

\* For the induction over the natural numbers there.
Msg == INSTANCE MqttMsgProofs

\* A non-empty set of natural numbers has a least element.
LEMMA Least ==
    ASSUME NEW S \in SUBSET Nat, S # {}
    PROVE  \E m \in S : \A n \in S : m <= n
<1> SUFFICES ASSUME \A m \in S : \E n \in S : n < m PROVE FALSE
  OBVIOUS
<1> DEFINE T == {n \in Nat : \A k \in 0..n : k \notin S}
<1>1. 0 \in T
  OBVIOUS
<1>2. ASSUME NEW n \in Nat, n \in T PROVE n + 1 \in T
  <2>1. n + 1 \notin S
    <3> SUFFICES ASSUME n + 1 \in S PROVE FALSE
      OBVIOUS
    <3>1. PICK k \in S : k < n + 1
      OBVIOUS
    <3>2. k \in 0..n
      BY <3>1
    <3>3. QED
      BY <1>2, <3>2
  <2>2. \A k \in 0..(n + 1) : k \notin S
    BY <1>2, <2>1
  <2>3. QED
    BY <2>2
<1>3. Nat \subseteq T
  <2> HIDE DEF T
  <2>1. QED
    BY <1>1, <1>2, Msg!Induct
<1>4. ASSUME NEW n \in S PROVE FALSE
  <2>1. n \in Nat
    OBVIOUS
  <2>2. n \in T
    BY <1>3, <2>1
  <2>3. n \in 0..n
    BY <2>1
  <2>4. QED
    BY <2>2, <2>3
<1>5. QED
  BY <1>4

---------------------------------------------------------------------------
\* The operators of MqttOutbox.

IdsOf(box) == {box[i].id : i \in DOMAIN box}

\* An outbox as the client keeps it: no two messages share an id, and a
\* sample is in no other packet than a PUBLISH.
Sound(box) ==
    /\ box \in Seq(Items)
    /\ \A i, j \in DOMAIN box : box[i].id = box[j].id => i = j
    /\ \A i \in DOMAIN box : box[i].id \in Samples => box[i].type = "PUBLISH"

LEMMA SoundAppend ==
    ASSUME NEW box, Sound(box), NEW item \in Items, item.id \notin IdsOf(box),
           item.id \in Samples => item.type = "PUBLISH"
    PROVE  /\ Sound(Append(box, item))
           /\ IdsOf(Append(box, item)) = IdsOf(box) \cup {item.id}
<1> DEFINE new == Append(box, item)
           n == Len(box)
<1>1. box \in Seq(Items) /\ n \in Nat /\ DOMAIN box = 1..n
  BY LenProperties DEF Sound
<1>2. /\ new \in Seq(Items) /\ Len(new) = n + 1
      /\ \A i \in 1..n : new[i] = box[i]
      /\ new[n + 1] = item
  BY <1>1, AppendProperties
<1>3. DOMAIN new = 1..(n + 1)
  BY <1>2, LenProperties
<1> HIDE DEF new, n
<1>4. DOMAIN new = DOMAIN box \cup {n + 1} /\ n + 1 \notin DOMAIN box
  BY <1>1, <1>3
<1>5. \A i \in DOMAIN box : new[i] = box[i]
  BY <1>1, <1>2
<1>6. IdsOf(new) = IdsOf(box) \cup {item.id}
  BY <1>2, <1>4, <1>5 DEF IdsOf
<1>7. ASSUME NEW i \in DOMAIN new, NEW j \in DOMAIN new, new[i].id = new[j].id
      PROVE  i = j
  <2>1. \A k \in DOMAIN box : box[k].id # item.id
    BY DEF IdsOf
  <2>2. QED
    BY <1>2, <1>4, <1>5, <1>7, <2>1 DEF Sound
<1>8. \A i \in DOMAIN new : new[i].id \in Samples => new[i].type = "PUBLISH"
  BY <1>2, <1>4, <1>5 DEF Sound
<1>9. QED
  BY <1>2, <1>6, <1>7, <1>8 DEF Sound, new

LEMMA Enqueued ==
    ASSUME NEW box, Sound(box), NEW id \in Ids, id \notin IdsOf(box),
           NEW type \in MsgTypes, id \in Samples => type = "PUBLISH"
    PROVE  /\ Sound(outbox_enqueue(box, id, type))
           /\ IdsOf(outbox_enqueue(box, id, type)) = IdsOf(box) \cup {id}
<1> DEFINE item == [id |-> id, type |-> type, pending |-> "QUEUED", due |-> FALSE]
<1>1. item \in Items /\ item.id = id /\ item.type = type
  BY DEF Items, PendingStates
<1> HIDE DEF item
<1>2. Sound(Append(box, item)) /\ IdsOf(Append(box, item)) = IdsOf(box) \cup {id}
  BY <1>1, SoundAppend
<1>3. QED
  BY <1>2 DEF outbox_enqueue, item

\* What changes neither the ids nor the types leaves the outbox sound.
LEMMA SoundSame ==
    ASSUME NEW box, Sound(box), NEW new \in Seq(Items), DOMAIN new = DOMAIN box,
           \A i \in DOMAIN box : new[i].id = box[i].id /\ new[i].type = box[i].type
    PROVE  Sound(new) /\ IdsOf(new) = IdsOf(box)
<1>1. IdsOf(new) = IdsOf(box)
  BY DEF IdsOf
<1>2. QED
  BY <1>1 DEF Sound

\* The first position that passes, if there is one.
LEMMA Selected ==
    ASSUME NEW I, NEW n \in Nat, I \subseteq 1..n
    PROVE  LET i == IF I # {} THEN Min(I) ELSE 0
           IN /\ i = 0 <=> I = {}
              /\ i # 0 => i \in I
<1>1. CASE I # {}
  <2>1. \E m \in I : \A k \in I : m <= k
    <3>1. I \in SUBSET Nat
      OBVIOUS
    <3>2. QED
      BY <1>1, <3>1, Least
  <2>2. Min(I) \in I
    BY <2>1 DEF Min
  <2>3. 0 \notin I
    OBVIOUS
  <2>4. QED
    BY <1>1, <2>2, <2>3
<1>2. CASE I = {}
  BY <1>2
<1>3. QED
  BY <1>1, <1>2

LEMMA Got ==
    ASSUME NEW box, Sound(box), NEW id
    PROVE  outbox_get(box, id) = 0 \/ outbox_get(box, id) \in DOMAIN box
<1> DEFINE I == {i \in 1..Len(box) : box[i].id = id}
<1>1. DOMAIN box = 1..Len(box) /\ Len(box) \in Nat
  BY LenProperties DEF Sound
<1>2. outbox_get(box, id) = IF I # {} THEN Min(I) ELSE 0
  BY DEF outbox_get, SelectInSeq
<1>3. I \subseteq 1..Len(box)
  OBVIOUS
<1> HIDE DEF I
<1>4. QED
  BY <1>1, <1>2, <1>3, Selected

LEMMA Dequeued ==
    ASSUME NEW box, Sound(box), NEW pending
    PROVE  outbox_dequeue(box, pending) = 0 \/ outbox_dequeue(box, pending) \in DOMAIN box
<1> DEFINE I == {i \in 1..Len(box) : box[i].pending = pending}
<1>1. DOMAIN box = 1..Len(box) /\ Len(box) \in Nat
  BY LenProperties DEF Sound
<1>2. outbox_dequeue(box, pending) = IF I # {} THEN Min(I) ELSE 0
  BY DEF outbox_dequeue, SelectInSeq
<1>3. I \subseteq 1..Len(box)
  OBVIOUS
<1> HIDE DEF I
<1>4. QED
  BY <1>1, <1>2, <1>3, Selected

\* An assignment to a field other than the id and the type.
LEMMA Assigned ==
    ASSUME NEW box, Sound(box), NEW i \in DOMAIN box,
           NEW item \in Items, item.id = box[i].id, item.type = box[i].type
    PROVE  /\ Sound([box EXCEPT ![i] = item])
           /\ IdsOf([box EXCEPT ![i] = item]) = IdsOf(box)
<1> DEFINE new == [box EXCEPT ![i] = item]
<1>1. box \in Seq(Items) /\ DOMAIN box = 1..Len(box)
  BY LenProperties DEF Sound
<1>2. new \in Seq(Items) /\ Len(new) = Len(box)
  BY <1>1, ExceptSeq
<1>3. DOMAIN new = DOMAIN box
  OBVIOUS
<1>4. \A k \in DOMAIN box : new[k].id = box[k].id /\ new[k].type = box[k].type
  BY <1>1
<1> HIDE DEF new
<1>5. Sound(new) /\ IdsOf(new) = IdsOf(box)
  BY <1>2, <1>3, <1>4, SoundSame
<1>6. QED
  BY <1>5 DEF new

LEMMA PendingSet ==
    ASSUME NEW box, Sound(box), NEW id, NEW pending \in PendingStates
    PROVE  /\ Sound(outbox_set_pending(box, id, pending))
           /\ IdsOf(outbox_set_pending(box, id, pending)) = IdsOf(box)
<1> DEFINE i == outbox_get(box, id)
           item == [box[i] EXCEPT !.pending = pending]
<1>1. CASE i = 0
  BY <1>1 DEF outbox_set_pending
<1>2. CASE i # 0
  <2>1. i \in DOMAIN box
    BY <1>2, Got
  <2>2. box[i] \in Items
    BY <2>1 DEF Sound
  <2> HIDE DEF i
  <2>3. item \in Items /\ item.id = box[i].id /\ item.type = box[i].type
    BY <2>2 DEF Items
  <2>4. outbox_set_pending(box, id, pending) = [box EXCEPT ![i] = item]
    BY <1>2 DEF outbox_set_pending, i
  <2> HIDE DEF item
  <2>5. /\ Sound([box EXCEPT ![i] = item])
        /\ IdsOf([box EXCEPT ![i] = item]) = IdsOf(box)
    BY <2>1, <2>3, Assigned
  <2>6. QED
    BY <2>4, <2>5, Zenon
<1>3. QED
  BY <1>1, <1>2

LEMMA TickSet ==
    ASSUME NEW box, Sound(box), NEW id
    PROVE  Sound(outbox_set_tick(box, id)) /\ IdsOf(outbox_set_tick(box, id)) = IdsOf(box)
<1> DEFINE i == outbox_get(box, id)
           item == [box[i] EXCEPT !.due = FALSE]
<1>1. CASE i = 0
  BY <1>1 DEF outbox_set_tick
<1>2. CASE i # 0
  <2>1. i \in DOMAIN box
    BY <1>2, Got
  <2>2. box[i] \in Items
    BY <2>1 DEF Sound
  <2> HIDE DEF i
  <2>3. item \in Items /\ item.id = box[i].id /\ item.type = box[i].type
    BY <2>2 DEF Items
  <2>4. outbox_set_tick(box, id) = [box EXCEPT ![i] = item]
    BY <1>2 DEF outbox_set_tick, i
  <2> HIDE DEF item
  <2>5. /\ Sound([box EXCEPT ![i] = item])
        /\ IdsOf([box EXCEPT ![i] = item]) = IdsOf(box)
    BY <2>1, <2>3, Assigned
  <2>6. QED
    BY <2>4, <2>5, Zenon
<1>3. QED
  BY <1>1, <1>2

\* Time makes every message due.
LEMMA Aged ==
    ASSUME NEW box, Sound(box)
    PROVE  LET new == [i \in DOMAIN box |-> [box[i] EXCEPT !.due = TRUE]]
           IN Sound(new) /\ IdsOf(new) = IdsOf(box)
<1> DEFINE new == [i \in DOMAIN box |-> [box[i] EXCEPT !.due = TRUE]]
<1>1. box \in Seq(Items) /\ Len(box) \in Nat /\ DOMAIN box = 1..Len(box)
  BY LenProperties DEF Sound
<1>2. \A i \in DOMAIN box : box[i] \in Items
  BY <1>1
<1>3. \A i \in DOMAIN box : [box[i] EXCEPT !.due = TRUE] \in Items
  BY <1>2 DEF Items
<1>4. new \in [1..Len(box) -> Items]
  BY <1>1, <1>3
<1>5. new \in Seq(Items)
  BY <1>1, <1>4, SeqDef
<1>6. \A i \in DOMAIN box : new[i].id = box[i].id /\ new[i].type = box[i].type
  BY <1>2 DEF Items
<1>7. DOMAIN new = DOMAIN box
  OBVIOUS
<1> HIDE DEF new
<1>8. Sound(new) /\ IdsOf(new) = IdsOf(box)
  BY <1>5, <1>6, <1>7, SoundSame
<1>9. QED
  BY <1>8 DEF new

\* An item leaves a hole that the later ones close.
LEMMA Removed ==
    ASSUME NEW box, Sound(box), NEW i \in DOMAIN box
    PROVE  /\ Sound(RemoveAt(box, i))
           /\ IdsOf(RemoveAt(box, i)) = IdsOf(box) \ {box[i].id}
<1> DEFINE n == Len(box)
           before == SubSeq(box, 1, i - 1)
           after == SubSeq(box, i + 1, n)
           new == before \o after
           at_(k) == IF k < i THEN k ELSE k + 1
<1>1. box \in Seq(Items) /\ n \in Nat /\ DOMAIN box = 1..n /\ i \in 1..n
  BY LenProperties DEF Sound
<1>2. \A k \in 1..n : box[k] \in Items
  BY <1>1
<1>3. /\ before \in Seq(Items)
      /\ Len(before) = IF 1 <= i - 1 THEN i - 1 - 1 + 1 ELSE 0
      /\ \A k \in 1..(i - 1 - 1 + 1) : before[k] = box[1 + k - 1]
  <2>1. 1 \in Int /\ i - 1 \in Int /\ \A k \in 1..(i - 1) : box[k] \in Items
    BY <1>1, <1>2
  <2> HIDE DEF n
  <2>2. QED
    BY <2>1, SubSeqProperties
<1>4. /\ after \in Seq(Items)
      /\ Len(after) = IF i + 1 <= n THEN n - (i + 1) + 1 ELSE 0
      /\ \A k \in 1..(n - (i + 1) + 1) : after[k] = box[i + 1 + k - 1]
  <2>1. i + 1 \in Int /\ n \in Int /\ \A k \in (i + 1)..n : box[k] \in Items
    BY <1>1, <1>2
  <2> HIDE DEF n
  <2>2. QED
    BY <2>1, SubSeqProperties
<1> HIDE DEF n, before, after
<1>5. Len(before) = i - 1 /\ Len(after) = n - i
  BY <1>1, <1>3, <1>4
<1>6. /\ new \in Seq(Items)
      /\ Len(new) = Len(before) + Len(after)
      /\ \A k \in 1..(Len(before) + Len(after)) :
            new[k] = IF k <= Len(before) THEN before[k] ELSE after[k - Len(before)]
  BY <1>3, <1>4, ConcatProperties
<1>7. DOMAIN new = 1..(n - 1)
  <2>1. DOMAIN new = 1..Len(new)
    BY <1>6, LenProperties
  <2>2. Len(new) = n - 1
    BY <1>1, <1>5, <1>6
  <2>3. QED
    BY <2>1, <2>2
<1>8. ASSUME NEW k \in 1..(n - 1)
      PROVE  new[k] = box[at_(k)] /\ at_(k) \in (1..n) \ {i}
  <2>1. CASE k < i
    <3>1. new[k] = before[k]
      BY <1>1, <1>5, <1>6, <2>1
    <3>2. before[k] = box[1 + k - 1] /\ 1 + k - 1 = k
      BY <1>1, <1>3, <2>1
    <3>3. QED
      BY <1>1, <2>1, <3>1, <3>2
  <2>2. CASE ~(k < i)
    <3>1. new[k] = after[k - (i - 1)]
      BY <1>1, <1>5, <1>6, <2>2
    <3>2. /\ k - (i - 1) \in 1..(n - (i + 1) + 1)
          /\ i + 1 + (k - (i - 1)) - 1 = k + 1
      BY <1>1, <2>2
    <3>3. after[k - (i - 1)] = box[k + 1]
      BY <1>4, <3>2
    <3>4. QED
      BY <1>1, <2>2, <3>1, <3>3
  <2>3. QED
    BY <2>1, <2>2
<1> HIDE DEF new
<1>9. \A k, l \in 1..(n - 1) : at_(k) = at_(l) => k = l
  BY <1>1
<1>10. \A k \in (1..n) \ {i} : \E l \in 1..(n - 1) : at_(l) = k
  <2>1. ASSUME NEW k \in (1..n) \ {i} PROVE \E l \in 1..(n - 1) : at_(l) = k
    <3>1. CASE k < i
      <4>1. k \in 1..(n - 1) /\ at_(k) = k
        BY <1>1, <3>1
      <4>2. QED
        BY <4>1
    <3>2. CASE ~(k < i)
      <4>1. k - 1 \in 1..(n - 1) /\ at_(k - 1) = k
        BY <1>1, <3>2
      <4>2. QED
        BY <4>1
    <3>3. QED
      BY <3>1, <3>2
  <2>2. QED
    BY <2>1
<1> HIDE DEF at_
<1>11. /\ \A k, l \in 1..n : box[k].id = box[l].id => k = l
       /\ \A k \in 1..n : box[k].id \in Samples => box[k].type = "PUBLISH"
  BY <1>1 DEF Sound
<1>12. \A k, l \in DOMAIN new : new[k].id = new[l].id => k = l
  BY <1>7, <1>8, <1>9, <1>11
<1>13. \A k \in DOMAIN new : new[k].id \in Samples => new[k].type = "PUBLISH"
  BY <1>7, <1>8, <1>11
<1>14. Sound(new)
  BY <1>6, <1>12, <1>13 DEF Sound
<1>15. IdsOf(new) = IdsOf(box) \ {box[i].id}
  <2>1. ASSUME NEW k \in DOMAIN new
        PROVE  new[k].id \in IdsOf(box) \ {box[i].id}
    BY <1>1, <1>7, <1>8, <1>11 DEF IdsOf
  <2>2. ASSUME NEW k \in DOMAIN box, box[k].id # box[i].id
        PROVE  box[k].id \in IdsOf(new)
    <3>1. PICK l \in 1..(n - 1) : at_(l) = k
      BY <1>1, <1>10, <2>2
    <3>2. QED
      BY <1>7, <1>8, <3>1 DEF IdsOf
  <2>3. QED
    BY <2>1, <2>2 DEF IdsOf
<1>16. RemoveAt(box, i) = new
  BY DEF RemoveAt, new, before, after, n
<1>17. QED
  BY <1>14, <1>15, <1>16

\* At most the item of that id and type goes.
LEMMA Deleted ==
    ASSUME NEW box, Sound(box), NEW id, NEW type
    PROVE  /\ Sound(outbox_delete(box, id, type))
           /\ IdsOf(outbox_delete(box, id, type)) \subseteq IdsOf(box)
           /\ IdsOf(box) \ {id} \subseteq IdsOf(outbox_delete(box, id, type))
           /\ type # "PUBLISH" =>
                 IdsOf(box) \cap Samples \subseteq IdsOf(outbox_delete(box, id, type))
<1> DEFINE I == {i \in 1..Len(box) : box[i].id = id /\ box[i].type = type}
           i == IF I # {} THEN Min(I) ELSE 0
<1>1. DOMAIN box = 1..Len(box) /\ Len(box) \in Nat
  BY LenProperties DEF Sound
<1>2. outbox_delete(box, id, type) = IF i = 0 THEN box ELSE RemoveAt(box, i)
  BY DEF outbox_delete, SelectInSeq
<1>3. I \subseteq 1..Len(box)
  OBVIOUS
<1>4. i = 0 \/ i \in I
  <2> HIDE DEF I
  <2>1. QED
    BY <1>1, <1>3, Selected
<1> HIDE DEF i
<1>5. CASE i = 0
  BY <1>2, <1>5
<1>6. CASE i # 0
  <2>1. i \in DOMAIN box /\ box[i].id = id /\ box[i].type = type
    BY <1>1, <1>4, <1>6
  <2>2. Sound(RemoveAt(box, i)) /\ IdsOf(RemoveAt(box, i)) = IdsOf(box) \ {id}
    BY <2>1, Removed
  <2>3. type # "PUBLISH" => id \notin Samples
    BY <2>1 DEF Sound
  <2>4. QED
    BY <1>2, <1>6, <2>2, <2>3
<1>7. QED
  BY <1>5, <1>6

\* The loop of outbox_delete_expired keeps the items whose ids are not old.
LEMMA ExpiredDeleted ==
    ASSUME NEW box, Sound(box), NEW old
    PROVE  /\ Sound(outbox_delete_expired(box, old))
           /\ IdsOf(outbox_delete_expired(box, old)) = IdsOf(box) \ old
<1> DEFINE n == Len(box)
           Keeps(b, i) == IF box[i].id \in old THEN b ELSE Append(b, box[i])
           Body(g, m) == [i \in 0..m |-> IF i = 0 THEN <<>>
                                         ELSE IF box[i].id \in old THEN g[i - 1]
                                              ELSE Append(g[i - 1], box[i])]
           kept == CHOOSE g : g = Body(g, n)
           T == {m \in Nat : \E g : g = Body(g, m)}
<1>1. box \in Seq(Items) /\ n \in Nat /\ DOMAIN box = 1..n
  BY LenProperties DEF Sound
<1>2. 0 \in T
  <2> DEFINE h == [i \in 0..0 |-> <<>>]
  <2>1. h = Body(h, 0)
    OBVIOUS
  <2> HIDE DEF h, Body
  <2>2. QED
    BY <2>1
<1>3. ASSUME NEW m \in Nat, m \in T PROVE m + 1 \in T
  <2>1. PICK g : g = Body(g, m)
    BY <1>3
  <2> DEFINE h == [i \in 0..(m + 1) |-> IF i = m + 1 THEN Keeps(g[m], m + 1) ELSE g[i]]
  <2>2. \A i \in 0..m : h[i] = g[i]
    OBVIOUS
  <2>3. h[m + 1] = Keeps(h[m], m + 1)
    BY <2>2
  <2>4. g[0] = <<>> /\ \A i \in 1..m : g[i] = Keeps(g[i - 1], i)
    <3>1. \A i \in 0..m :
             g[i] = IF i = 0 THEN <<>>
                    ELSE IF box[i].id \in old THEN g[i - 1] ELSE Append(g[i - 1], box[i])
      BY <2>1
    <3>2. 0 \in 0..m /\ \A i \in 1..m : i \in 0..m /\ i # 0
      OBVIOUS
    <3>3. QED
      BY <3>1, <3>2
  <2>5. h[0] = <<>>
    BY <2>2, <2>4
  <2> HIDE DEF Keeps
  <2>6. \A i \in 1..(m + 1) : h[i] = Keeps(h[i - 1], i)
    <3>1. ASSUME NEW i \in 1..(m + 1) PROVE h[i] = Keeps(h[i - 1], i)
      <4>1. CASE i = m + 1
        BY <2>3, <4>1
      <4>2. CASE i # m + 1
        <5>1. i \in 1..m /\ i \in 0..m /\ i - 1 \in 0..m
          BY <4>2
        <5>2. h[i] = g[i] /\ h[i - 1] = g[i - 1]
          BY <2>2, <5>1
        <5>3. QED
          BY <2>4, <5>1, <5>2
      <4>3. QED
        BY <4>1, <4>2
    <3>2. QED
      BY <3>1
  <2>7. h = [i \in 0..(m + 1) |-> h[i]]
    OBVIOUS
  <2> HIDE DEF h
  <2>8. [i \in 0..(m + 1) |-> h[i]] = Body(h, m + 1)
    BY <2>5, <2>6 DEF Keeps
  <2>9. QED
    <3>1. h = Body(h, m + 1)
      BY <2>7, <2>8
    <3> HIDE DEF Body
    <3>2. QED
      BY <3>1
<1>4. kept = Body(kept, n)
  <2>1. n \in T
    <3> HIDE DEF T
    <3>1. QED
      BY <1>1, <1>2, <1>3, Msg!Induct
  <2> HIDE DEF Body
  <2>2. QED
    BY <2>1
<1>5. outbox_delete_expired(box, old) = kept[n]
  BY DEF outbox_delete_expired
<1> HIDE DEF kept
<1>6. kept[0] = <<>> /\ \A i \in 1..n : kept[i] = Keeps(kept[i - 1], i)
  <2>1. \A i \in 0..n :
           kept[i] = IF i = 0 THEN <<>>
                     ELSE IF box[i].id \in old THEN kept[i - 1]
                          ELSE Append(kept[i - 1], box[i])
    BY <1>4
  <2>2. 0 \in 0..n /\ \A i \in 1..n : i \in 0..n /\ i # 0
    BY <1>1
  <2> HIDE DEF n, Body, T
  <2>3. QED
    BY <2>1, <2>2
<1> HIDE DEF Body, T, Keeps
<1> DEFINE Ids_(m) == {box[i].id : i \in 1..m} \ old
           U == {m \in Nat : m <= n => Sound(kept[m]) /\ IdsOf(kept[m]) = Ids_(m)}
<1>7. 0 \in U
  <2>1. Sound(<<>>) /\ IdsOf(<<>>) = Ids_(0)
    BY DEF Sound, IdsOf
  <2> HIDE DEF Ids_
  <2>2. QED
    BY <1>6, <2>1
<1>8. ASSUME NEW m \in Nat, m \in U PROVE m + 1 \in U
  <2> SUFFICES ASSUME m + 1 <= n
               PROVE  Sound(kept[m + 1]) /\ IdsOf(kept[m + 1]) = Ids_(m + 1)
    OBVIOUS
  <2>1. Sound(kept[m]) /\ IdsOf(kept[m]) = Ids_(m)
    BY <1>1, <1>8
  <2>2. m + 1 \in 1..n /\ (m + 1) - 1 = m
    BY <1>1
  <2>3. kept[m + 1] = Keeps(kept[m], m + 1)
    BY <1>6, <2>2
  <2> DEFINE item == box[m + 1]
  <2>4. Ids_(m + 1) = IF item.id \in old THEN Ids_(m) ELSE Ids_(m) \cup {item.id}
    <3>1. 1..(m + 1) = 1..m \cup {m + 1}
      OBVIOUS
    <3>2. {box[i].id : i \in 1..(m + 1)} = {box[i].id : i \in 1..m} \cup {item.id}
      BY <3>1
    <3>3. QED
      BY <3>2
  <2>5. item \in Items /\ (item.id \in Samples => item.type = "PUBLISH")
    BY <1>1, <2>2 DEF Sound
  <2>6. item.id \notin Ids_(m)
    <3>1. \A i \in 1..m : box[i].id # item.id
      BY <1>1, <2>2 DEF Sound
    <3>2. QED
      BY <3>1
  <2> HIDE DEF item, Ids_
  <2>7. CASE item.id \in old
    BY <2>1, <2>3, <2>4, <2>7 DEF Keeps, item
  <2>8. CASE item.id \notin old
    <3>1. /\ Sound(Append(kept[m], item))
          /\ IdsOf(Append(kept[m], item)) = Ids_(m) \cup {item.id}
      BY <2>1, <2>5, <2>6, SoundAppend
    <3>2. QED
      BY <2>3, <2>4, <2>8, <3>1 DEF Keeps, item
  <2>9. QED
    BY <2>7, <2>8
<1>9. Sound(kept[n]) /\ IdsOf(kept[n]) = Ids_(n)
  <2>1. n \in U
    <3> HIDE DEF U
    <3>1. QED
      BY <1>1, <1>7, <1>8, Msg!Induct
  <2>2. QED
    BY <1>1, <2>1
<1>10. Ids_(n) = IdsOf(box) \ old
  BY <1>1 DEF IdsOf
<1>11. QED
  BY <1>5, <1>9, <1>10

---------------------------------------------------------------------------
\* Ids and packets.

LEMMA Kinds ==
    \A n : /\ Sample(n).kind = "sample" /\ Sample(n).n = n
           /\ Online(n).kind = "online" /\ Online(n).n = n
           /\ CmdTopic(n).kind = "subscribe" /\ CmdTopic(n).n = n
           /\ CaptureFailed(n).kind = "capture_failed" /\ CaptureFailed(n).n = n
           /\ Capture(n).kind = "capture" /\ Capture(n).n = n
BY DEF Sample, Online, CmdTopic, CaptureFailed, Capture

LEMMA SampleIds == Samples = {Sample(n) : n \in 1..MaxSamples}
<1>1. ASSUME NEW id \in Samples PROVE id.n \in 1..MaxSamples /\ id = Sample(id.n)
  BY DEF Samples, Sample
<1>2. ASSUME NEW n \in 1..MaxSamples PROVE Sample(n) \in Samples
  BY DEF Samples, Sample
<1>3. QED
  BY <1>1, <1>2

\* The samples handed to MQTT, and every id given out so far.
Handed == {Sample(n) : n \in 1..next}
Given ==
    Handed \cup {Online(n) : n \in 1..connections}
           \cup {CmdTopic(n) : n \in 1..connections}
           \cup {CaptureFailed(n) : n \in 1..captured}

\* The packets under way.
NoSample == (Ids \cup {NoId}) \ Samples
ToBroker == [type : MsgTypes \cup {"IMAGE", "PUBACK"}, id : Handed \cup NoSample]
ToClient ==
    [type : {"PUBACK"}, id : got \cup NoSample]
      \cup [type : {"SUBACK"}, id : Handed \cup NoSample]
      \cup {Packet("CAPTURE", Capture(n)) : n \in (captured + 1)..commands}

\* The commands come in the order they were sent in.
InOrder(packets) ==
    \A i, j \in DOMAIN packets :
        i < j /\ packets[i].type = "CAPTURE" /\ packets[j].type = "CAPTURE" =>
            packets[i].id.n < packets[j].id.n

---------------------------------------------------------------------------
\* The inductive invariant.

Control ==
    /\ state \in {"INIT", "CONNECTED", "WAIT_RECONNECT"}
    /\ at \in {"idle", "switch", "subscribe", "online", "capture", "puback",
               "resend"}
    /\ elapsed \in BOOLEAN
    /\ link \in {"none", "up", "dead"}
    /\ state = "CONNECTED" <=> link # "none"
    /\ at \notin {"idle", "switch"} => state = "CONNECTED"
    /\ session \in BOOLEAN
    /\ retained \in {"nothing", "online", "offline"}
    /\ subscribed => session

\* A connection is made at the start and after each failure.
Counters ==
    /\ next \in 0..MaxSamples
    /\ connections \in Nat
    /\ failures \in 0..MaxFailures
    /\ connections <= failures + 1
    /\ link # "up" => connections <= failures
    /\ commands \in 0..MaxCommands
    /\ captured \in 0..commands

\* What is about to be enqueued has an id no message in the outbox has.
Outbox ==
    /\ Sound(outbox)
    /\ IdsOf(outbox) \subseteq Given
    /\ at \in {"subscribe", "online"} => connections >= 1
    /\ at = "subscribe" => CmdTopic(connections) \notin IdsOf(outbox)
    /\ at \in {"subscribe", "online"} => Online(connections) \notin IdsOf(outbox)
    /\ at = "capture" => captured >= 1 /\ CaptureFailed(captured) \notin IdsOf(outbox)

\* What is under way, and that the connection went with it.
Wire ==
    /\ toBroker \in Seq(ToBroker)
    /\ toClient \in Seq(ToClient)
    /\ InOrder(toClient)
    /\ link = "none" => toClient = <<>>
\* What was handed over is with the broker, in the outbox, or expired and gone.
Delivery ==
    /\ got \subseteq Handed
    /\ expired \subseteq Handed
    /\ IdsOf(outbox) \cap expired = {}
    /\ Handed \subseteq got \cup expired \cup IdsOf(outbox)

MqttInv == Control /\ Counters /\ Outbox /\ Wire /\ Delivery

LEMMA InvImplies == ASSUME MqttInv PROVE MqttTypeOK /\ NothingDropped
<1>1. MqttTypeOK
  BY DEF MqttInv, Control, Outbox, Sound, MqttTypeOK
<1>2. ASSUME NEW n \in 1..next
      PROVE  \/ Sample(n) \in got \cup expired
             \/ \E i \in DOMAIN outbox : outbox[i].id = Sample(n)
  BY DEF MqttInv, Delivery, Handed, IdsOf
<1>3. QED
  BY <1>1, <1>2 DEF NothingDropped

LEMMA InvInit == ASSUME Init PROVE MqttInv
<1>1. Sound(<<>>) /\ IdsOf(<<>>) = {}
  BY DEF Sound, IdsOf
<1>2. Handed = {}
  BY DEF Init, Handed
<1>3. Control
  BY DEF Init, Control
<1>4. Counters
  BY MqttAssumption DEF Init, Counters
<1>5. Outbox
  BY <1>1 DEF Init, Outbox
<1>6. Wire
  BY DEF Init, Wire, InOrder
<1>7. Delivery
  BY <1>1, <1>2 DEF Init, Delivery
<1>8. QED
  BY <1>3, <1>4, <1>5, <1>6, <1>7 DEF MqttInv

---------------------------------------------------------------------------
\* What the actions are built from.

LEMMA Wider == ASSUME NEW S, NEW T, S \subseteq T PROVE Seq(S) \subseteq Seq(T)
<1>1. ASSUME NEW s \in Seq(S) PROVE s \in Seq(T)
  <2>1. Len(s) \in Nat /\ s \in [1..Len(s) -> S]
    BY LenProperties
  <2>2. s \in [1..Len(s) -> T]
    BY <2>1
  <2>3. QED
    BY <2>1, <2>2, SeqDef
<1>2. QED
  BY <1>1

LEMMA Written ==
    ASSUME NEW S, toBroker \in Seq(S), NEW packet \in S, Writes(packet)
    PROVE  toBroker' \in Seq(S) /\ UNCHANGED <<link, toClient>>
<1>1. Append(toBroker, packet) \in Seq(S)
  BY AppendProperties
<1>2. QED
  BY <1>1 DEF Writes

\* A publication is in the outbox before it is written, whatever becomes of
\* the write.
LEMMA Published ==
    ASSUME Sound(outbox), NEW id \in Ids, id \notin IdsOf(outbox), NEW then,
           Publish(id, then)
    PROVE  /\ Sound(outbox')
           /\ IdsOf(outbox') = IdsOf(outbox) \cup {id}
           /\ \/ Writes(Packet("PUBLISH", id)) /\ at' = then /\ UNCHANGED state
              \/ link = "dead" /\ AbortConnection /\ at' = "idle"
<1> DEFINE queued == outbox_enqueue(outbox, id, "PUBLISH")
           ticked == outbox_set_tick(queued, id)
           sent == outbox_set_pending(ticked, id, "TRANSMITTED")
<1>1. Sound(queued) /\ IdsOf(queued) = IdsOf(outbox) \cup {id}
  BY Enqueued DEF MsgTypes
<1> HIDE DEF queued
<1>2. Sound(ticked) /\ IdsOf(ticked) = IdsOf(queued)
  BY <1>1, TickSet
<1> HIDE DEF ticked
<1>3. Sound(sent) /\ IdsOf(sent) = IdsOf(ticked)
  BY <1>2, PendingSet DEF PendingStates
<1> HIDE DEF sent
<1>4. \/ /\ Writes(Packet("PUBLISH", id)) /\ at' = then /\ UNCHANGED state
         /\ outbox' = sent
      \/ /\ link = "dead" /\ AbortConnection /\ at' = "idle"
         /\ outbox' = queued
  BY DEF Publish, queued, ticked, sent
<1>5. QED
  BY <1>1, <1>2, <1>3, <1>4

---------------------------------------------------------------------------
\* Control and counters.

LEMMA ControlStep == ASSUME MqttInv, [Next]_vars PROVE Control'
<1> USE DEF Control, network, broker, counts, client, Goto, AbortConnection, Writes
<1>0. Control
  BY DEF MqttInv
<1>1. CASE UNCHANGED vars
  BY <1>0, <1>1 DEF vars
<1>2. CASE BeginRound
  BY <1>0, <1>2 DEF BeginRound
<1>3. CASE ConnectFails \/ Connects
  <2>1. CASE ConnectFails
    BY <1>0, <2>1 DEF ConnectFails
  <2>2. CASE Connects
    <3>1. /\ state' = "CONNECTED" /\ at' = "subscribe" /\ link' = "up"
          /\ session' = TRUE /\ subscribed' = FALSE /\ elapsed' = elapsed
          /\ retained' \in {retained, "offline"}
      BY <2>2 DEF Connects
    <3>2. QED
      BY <1>0, <3>1
  <2>3. QED
    BY <1>3, <2>1, <2>2
<1>4. CASE Subscribe
  BY <1>0, <1>4 DEF Subscribe
<1>5. ASSUME NEW id, NEW then \in {"idle", "puback"}, Publish(id, then),
             state = "CONNECTED", UNCHANGED <<elapsed, broker>>
      PROVE  Control'
  BY <1>0, <1>5 DEF Publish
<1>6. CASE PublishOnline
  BY <1>0, <1>5, <1>6 DEF PublishOnline
<1>7. CASE Reconnects \/ StillWaits \/ ReceivesNothing \/ ReceiveFails
  BY <1>0, <1>7 DEF Reconnects, StillWaits, ReceivesNothing, ReceiveFails
<1>8. CASE ReceivesPuback \/ ReceivesSuback \/ ReceivesCommand
  <2>1. toClient # <<>> => state = "CONNECTED"
    BY <1>0 DEF MqttInv, Wire
  <2>2. QED
    <3>1. /\ toClient # <<>> /\ at' \in {"resend", "capture"}
          /\ UNCHANGED <<state, elapsed, link, session, subscribed, retained>>
      BY <1>8 DEF ReceivesPuback, ReceivesSuback, ReceivesCommand, Receives
    <3>2. QED
      BY <1>0, <2>1, <3>1
<1>9. CASE Captures \/ SendsPuback
  BY <1>0, <1>9 DEF Captures, SendsPuback
<1>10. CASE CaptureFails
  BY <1>0, <1>5, <1>10 DEF CaptureFails
<1>11. CASE ResendQueued
  BY <1>0, <1>11 DEF ResendQueued, Resend
<1>12. CASE Retransmit
  BY <1>0, <1>12 DEF Retransmit, Resend
<1>13. CASE NothingToResend \/ NoticesDead
  BY <1>0, <1>13 DEF NothingToResend, NoticesDead
<1>14. CASE PublishSample
  <2>1. CASE state = "CONNECTED" /\ Publish(Sample(next + 1), "idle")
    BY <1>5, <1>14, <2>1 DEF PublishSample
  <2>2. CASE UNCHANGED <<state, at, network>>
    BY <1>0, <1>14, <2>2 DEF PublishSample
  <2>3. QED
    BY <1>14, <2>1, <2>2 DEF PublishSample
<1>15. CASE TimePasses \/ LinkFails
  <2>1. /\ UNCHANGED <<state, at, session, subscribed, retained>>
        /\ elapsed' \in {elapsed, TRUE}
        /\ link' = link \/ (link = "up" /\ link' = "dead")
    BY <1>15 DEF TimePasses, LinkFails
  <2>2. QED
    BY <1>0, <2>1
<1>16. CASE BrokerReceives
  BY <1>0, <1>16 DEF BrokerReceives
<1>17. CASE SendsCommand \/ BrokerNotices
  BY <1>0, <1>17 DEF SendsCommand, BrokerNotices
<1>18. QED
  BY <1>1, <1>2, <1>3, <1>4, <1>6, <1>7, <1>8, <1>9, <1>10, <1>11, <1>12, <1>13,
     <1>14, <1>15, <1>16, <1>17
     DEF Next, Task, Round

\* What the broker sent comes in one by one.
LEMMA Received ==
    ASSUME Wire, toClient # <<>>
    PROVE  /\ Head(toClient) \in ToClient
           /\ Tail(toClient) \in Seq(ToClient)
           /\ Head(toClient).type = "CAPTURE" =>
                 \E n \in (captured + 1)..commands :
                     Head(toClient) = Packet("CAPTURE", Capture(n))
<1>1. Head(toClient) \in ToClient /\ Tail(toClient) \in Seq(ToClient)
  BY HeadTailProperties DEF Wire
<1>2. QED
  BY <1>1 DEF ToClient, Packet

\* The steps that count nothing.
LEMMA Quiet ==
    ASSUME MqttInv,
           \/ UNCHANGED vars
           \/ BeginRound \/ Subscribe \/ PublishOnline \/ Reconnects \/ StillWaits
           \/ ReceivesNothing \/ ReceivesPuback \/ ReceivesSuback \/ ReceiveFails
           \/ Captures \/ CaptureFails \/ SendsPuback \/ ResendQueued \/ Retransmit
           \/ NothingToResend \/ NoticesDead \/ TimePasses \/ BrokerReceives
           \/ BrokerNotices
    PROVE  /\ UNCHANGED <<next, connections, failures, commands, captured>>
           /\ link' = link \/ (link = "dead" /\ link' = "none")
<1> USE DEF network, broker, counts, client, Goto, AbortConnection, Writes
<1>1. CASE UNCHANGED vars
  BY <1>1 DEF vars
<1>2. CASE BeginRound \/ Subscribe
  BY <1>2 DEF BeginRound, Subscribe
<1>3. CASE PublishOnline \/ CaptureFails
  BY <1>3 DEF PublishOnline, CaptureFails, Publish
<1>4. CASE Reconnects \/ StillWaits \/ ReceivesNothing \/ ReceiveFails
  BY <1>4 DEF Reconnects, StillWaits, ReceivesNothing, ReceiveFails
<1>5. CASE ReceivesPuback \/ ReceivesSuback
  BY <1>5 DEF ReceivesPuback, ReceivesSuback, Receives
<1>6. CASE Captures \/ SendsPuback
  BY <1>6 DEF Captures, SendsPuback
<1>7. CASE ResendQueued \/ Retransmit
  BY <1>7 DEF ResendQueued, Retransmit, Resend
<1>8. CASE NothingToResend \/ NoticesDead \/ TimePasses
  BY <1>8 DEF NothingToResend, NoticesDead, TimePasses
<1>9. CASE BrokerReceives \/ BrokerNotices
  BY <1>9 DEF BrokerReceives, BrokerNotices
<1>10. QED
  BY <1>1, <1>2, <1>3, <1>4, <1>5, <1>6, <1>7, <1>8, <1>9

LEMMA CountersStep == ASSUME MqttInv, [Next]_vars PROVE Counters'
<1>0. /\ Counters /\ MaxSamples \in Nat /\ MaxFailures \in Nat /\ MaxCommands \in Nat
      /\ state = "CONNECTED" <=> link # "none"
  BY MqttAssumption DEF MqttInv, Control
<1> USE DEF Counters
<1>1. CASE /\ UNCHANGED <<next, connections, failures, commands, captured>>
           /\ link' = link \/ (link = "dead" /\ link' = "none")
  BY <1>0, <1>1
<1>2. CASE ConnectFails
  <2>1. /\ UNCHANGED <<next, connections, commands, captured>>
        /\ failures < MaxFailures /\ failures' = failures + 1
    BY <1>2 DEF ConnectFails, broker
  <2>2. QED
    BY <1>0, <2>1
<1>3. CASE Connects
  <2>1. /\ UNCHANGED <<next, failures, commands, captured>>
        /\ link = "none" /\ link' = "up" /\ connections' = connections + 1
    BY <1>0, <1>3 DEF Connects
  <2>2. QED
    BY <1>0, <2>1
<1>4. CASE ReceivesCommand
  <2>1. /\ UNCHANGED <<next, connections, failures, commands, link>>
        /\ toClient # <<>> /\ Head(toClient).type = "CAPTURE"
        /\ captured' = Head(toClient).id.n
    BY <1>4 DEF ReceivesCommand, Receives, broker
  <2>2. PICK n \in (captured + 1)..commands : Head(toClient) = Packet("CAPTURE", Capture(n))
    BY <2>1, Received DEF MqttInv
  <2>3. captured' = n
    BY <2>1, <2>2, Kinds DEF Packet
  <2>4. QED
    BY <1>0, <2>1, <2>2, <2>3
<1>5. CASE PublishSample
  <2>1. /\ UNCHANGED <<connections, failures, commands, captured>>
        /\ next < MaxSamples /\ next' = next + 1
        /\ link' = link \/ (link = "dead" /\ link' = "none")
    BY <1>5 DEF PublishSample, Publish, Writes, AbortConnection, broker, network
  <2>2. QED
    BY <1>0, <2>1
<1>6. CASE LinkFails
  <2>1. /\ UNCHANGED <<next, connections, commands, captured>>
        /\ failures < MaxFailures /\ failures' = failures + 1
    BY <1>6 DEF LinkFails, broker
  <2>2. QED
    BY <1>0, <2>1
<1>7. CASE SendsCommand
  <2>1. /\ UNCHANGED <<next, connections, failures, captured, link>>
        /\ commands < MaxCommands /\ commands' = commands + 1
    BY <1>7 DEF SendsCommand, counts
  <2>2. QED
    BY <1>0, <2>1
<1>8. QED
  BY <1>1, <1>2, <1>3, <1>4, <1>5, <1>6, <1>7, Quiet DEF Next, Task, Round

---------------------------------------------------------------------------
\* The outbox.

\* Ids are given out in order.
LEMMA GivenGrows ==
    ASSUME Counters, Counters', next <= next', connections <= connections',
           captured <= captured'
    PROVE  Given \subseteq Given' /\ Handed \subseteq Handed'
<1>1. /\ 1..next \subseteq 1..next' /\ 1..connections \subseteq 1..connections'
      /\ 1..captured \subseteq 1..captured'
  BY DEF Counters
<1>2. QED
  BY <1>1 DEF Given, Handed

\* An id with a number above those given out is new.
LEMMA NewIds ==
    ASSUME Counters
    PROVE  /\ Sample(next + 1) \notin Given
           /\ Online(connections + 1) \notin Given
           /\ CmdTopic(connections + 1) \notin Given
           /\ \A n \in Nat : n > captured => CaptureFailed(n) \notin Given
<1>1. /\ next \in Nat /\ connections \in Nat /\ captured \in Nat
  BY MqttAssumption DEF Counters
<1>2. /\ next + 1 \notin 1..next /\ connections + 1 \notin 1..connections
      /\ \A n \in Nat : n > captured => n \notin 1..captured
  BY <1>1
<1>3. QED
  BY <1>2, Kinds DEF Given, Handed

LEMMA GivenIds ==
    ASSUME Counters
    PROVE  /\ Given \subseteq Ids
           /\ Handed \subseteq Samples
           /\ \A n : Online(n) \notin Samples
           /\ \A n : CmdTopic(n) \notin Samples
           /\ \A n : CaptureFailed(n) \notin Samples
           /\ NoId \notin Samples
<1>1. /\ 1..next \subseteq 1..MaxSamples
      /\ 1..connections \subseteq 1..(MaxFailures + 1)
      /\ 1..captured \subseteq 1..MaxCommands
  BY MqttAssumption DEF Counters
<1>2. Handed \subseteq Samples
  BY <1>1, SampleIds DEF Handed
<1>3. \A n \in 1..connections : Online(n) \in AllIds /\ CmdTopic(n) \in AllIds
  BY <1>1 DEF Online, CmdTopic, AllIds
<1>4. \A n \in 1..captured : CaptureFailed(n) \in AllIds
  BY <1>1 DEF CaptureFailed, AllIds
<1>5. Samples \subseteq AllIds
  BY DEF AllIds
<1>6. Given \subseteq Ids
  BY <1>2, <1>3, <1>4, <1>5, IdsAssumption DEF Given
<1>7. \A id \in Samples : id.kind = "sample"
  BY SampleIds, Kinds
<1>8. NoId.kind = "none"
  BY DEF NoId
<1>9. QED
  BY <1>2, <1>6, <1>7, <1>8, Kinds

\* The steps that add no message and remove none.
LEMMA OutboxKept ==
    ASSUME MqttInv,
           \/ UNCHANGED outbox
           \/ ResendQueued \/ Retransmit \/ TimePasses
    PROVE  Sound(outbox') /\ IdsOf(outbox') = IdsOf(outbox)
<1>0. Sound(outbox)
  BY DEF MqttInv, Outbox
<1>1. CASE UNCHANGED outbox
  BY <1>0, <1>1
<1>2. CASE ResendQueued
  <2>1. \/ UNCHANGED outbox
        \/ \E id : outbox' = outbox_set_pending(outbox, id, "TRANSMITTED")
    BY <1>2 DEF ResendQueued, Resend
  <2>2. QED
    BY <1>0, <1>1, <2>1, PendingSet DEF PendingStates
<1>3. CASE Retransmit
  <2>1. UNCHANGED outbox
    BY <1>3 DEF Retransmit, Resend
  <2>2. QED
    BY <1>1, <2>1
<1>4. CASE TimePasses
  <2>1. outbox' = [i \in DOMAIN outbox |-> [outbox[i] EXCEPT !.due = TRUE]]
    BY <1>4 DEF TimePasses
  <2>2. QED
    BY <1>0, <2>1, Aged
<1>5. QED
  BY <1>1, <1>2, <1>3, <1>4

LEMMA MostKeepTheOutbox ==
    ASSUME \/ UNCHANGED vars
           \/ ConnectFails \/ Connects \/ Reconnects \/ StillWaits \/ ReceivesNothing
           \/ ReceiveFails \/ ReceivesCommand \/ Captures \/ SendsPuback
           \/ NothingToResend \/ NoticesDead
           \/ LinkFails \/ BrokerReceives \/ SendsCommand \/ BrokerNotices
    PROVE  UNCHANGED outbox
BY DEF vars, client, ConnectFails, Connects, Reconnects, StillWaits, ReceivesNothing,
       ReceiveFails, ReceivesCommand, Captures, SendsPuback, NothingToResend,
       NoticesDead, LinkFails, BrokerReceives, SendsCommand, BrokerNotices

\* The steps that add a message.
LEMMA Adds ==
    ASSUME MqttInv
    PROVE  /\ Subscribe =>
                 /\ Sound(outbox')
                 /\ IdsOf(outbox') = IdsOf(outbox) \cup {CmdTopic(connections)}
           /\ PublishOnline =>
                 /\ Sound(outbox')
                 /\ IdsOf(outbox') = IdsOf(outbox) \cup {Online(connections)}
           /\ CaptureFails =>
                 /\ Sound(outbox')
                 /\ IdsOf(outbox') = IdsOf(outbox) \cup {CaptureFailed(captured)}
           /\ PublishSample =>
                 /\ Sound(outbox')
                 /\ IdsOf(outbox') = IdsOf(outbox) \cup {Sample(next + 1)}
<1>0. Sound(outbox) /\ Counters /\ Outbox
  BY DEF MqttInv, Outbox
<1>1. /\ at = "subscribe" => CmdTopic(connections) \in Ids
      /\ at = "online" => Online(connections) \in Ids
      /\ at = "capture" => CaptureFailed(captured) \in Ids
  <2>1. at \in {"subscribe", "online"} => connections \in 1..connections
    BY <1>0 DEF Counters, Outbox
  <2>2. at = "capture" => captured \in 1..captured
    BY <1>0, MqttAssumption DEF Counters, Outbox
  <2>3. QED
    BY <1>0, <2>1, <2>2, GivenIds DEF Given
<1>2. ASSUME Subscribe
      PROVE  Sound(outbox') /\ IdsOf(outbox') = IdsOf(outbox) \cup {CmdTopic(connections)}
  <2> DEFINE queued == outbox_enqueue(outbox, CmdTopic(connections), "SUBSCRIBE")
  <2>1. /\ at = "subscribe"
        /\ outbox' = outbox_set_pending(queued, CmdTopic(connections), "TRANSMITTED")
    BY <1>2 DEF Subscribe, Goto
  <2>2. CmdTopic(connections) \notin IdsOf(outbox) /\ CmdTopic(connections) \notin Samples
    BY <1>0, <2>1, GivenIds DEF Outbox
  <2>3. Sound(queued) /\ IdsOf(queued) = IdsOf(outbox) \cup {CmdTopic(connections)}
    BY <1>0, <1>1, <2>1, <2>2, Enqueued DEF MsgTypes
  <2> HIDE DEF queued
  <2>4. QED
    BY <2>1, <2>3, PendingSet DEF PendingStates
<1>3. ASSUME PublishOnline
      PROVE  Sound(outbox') /\ IdsOf(outbox') = IdsOf(outbox) \cup {Online(connections)}
  <2>1. at = "online" /\ Publish(Online(connections), "idle")
    BY <1>3 DEF PublishOnline
  <2>2. Online(connections) \notin IdsOf(outbox)
    BY <1>0, <2>1 DEF Outbox
  <2>3. QED
    BY <1>0, <1>1, <2>1, <2>2, Published
<1>4. ASSUME CaptureFails
      PROVE  Sound(outbox') /\ IdsOf(outbox') = IdsOf(outbox) \cup {CaptureFailed(captured)}
  <2>1. at = "capture" /\ Publish(CaptureFailed(captured), "puback")
    BY <1>4 DEF CaptureFails
  <2>2. CaptureFailed(captured) \notin IdsOf(outbox)
    BY <1>0, <2>1 DEF Outbox
  <2>3. QED
    BY <1>0, <1>1, <2>1, <2>2, Published
<1>5. ASSUME PublishSample
      PROVE  Sound(outbox') /\ IdsOf(outbox') = IdsOf(outbox) \cup {Sample(next + 1)}
  <2> DEFINE id == Sample(next + 1)
  <2>1. \/ Publish(id, "idle")
        \/ outbox' = outbox_enqueue(outbox, id, "PUBLISH")
    BY <1>5 DEF PublishSample
  <2>2. next < MaxSamples
    BY <1>5 DEF PublishSample
  <2>3. next + 1 \in 1..MaxSamples
    BY <1>0, <2>2, MqttAssumption DEF Counters
  <2>4. id \in Ids
    BY <2>3, SampleIds, IdsAssumption DEF AllIds
  <2>5. id \notin IdsOf(outbox)
    BY <1>0, NewIds DEF Outbox
  <2> HIDE DEF id
  <2>6. Sound(outbox') /\ IdsOf(outbox') = IdsOf(outbox) \cup {id}
    BY <1>0, <2>1, <2>4, <2>5, Published, Enqueued DEF MsgTypes
  <2>7. QED
    BY <2>6 DEF id
<1>6. QED
  BY <1>2, <1>3, <1>4, <1>5

\* The steps that remove messages.
LEMMA Removes ==
    ASSUME MqttInv
    PROVE  /\ BeginRound => \E old :
                 /\ Sound(outbox')
                 /\ old \subseteq IdsOf(outbox)
                 /\ IdsOf(outbox') = IdsOf(outbox) \ old
                 /\ expired' = expired \cup (old \cap Samples)
           /\ ReceivesPuback =>
                 /\ Sound(outbox')
                 /\ IdsOf(outbox') \subseteq IdsOf(outbox)
                 /\ IdsOf(outbox) \ {Head(toClient).id} \subseteq IdsOf(outbox')
           /\ ReceivesSuback =>
                 /\ Sound(outbox')
                 /\ IdsOf(outbox') \subseteq IdsOf(outbox)
                 /\ IdsOf(outbox) \cap Samples \subseteq IdsOf(outbox')
<1>0. Sound(outbox)
  BY DEF MqttInv, Outbox
<1>1. ASSUME BeginRound
      PROVE  \E old :
                 /\ Sound(outbox')
                 /\ old \subseteq IdsOf(outbox)
                 /\ IdsOf(outbox') = IdsOf(outbox) \ old
                 /\ expired' = expired \cup (old \cap Samples)
  <2>1. PICK old \in SUBSET {outbox[i].id : i \in {j \in DOMAIN outbox : outbox[j].due}} :
            /\ outbox' = outbox_delete_expired(outbox, old)
            /\ expired' = expired \cup (old \cap Samples)
    BY <1>1 DEF BeginRound
  <2>2. old \subseteq IdsOf(outbox)
    BY DEF IdsOf
  <2>3. Sound(outbox') /\ IdsOf(outbox') = IdsOf(outbox) \ old
    BY <1>0, <2>1, ExpiredDeleted
  <2>4. QED
    BY <2>1, <2>2, <2>3
<1>2. ReceivesPuback => outbox' = outbox_delete(outbox, Head(toClient).id, "PUBLISH")
  BY DEF ReceivesPuback
<1>3. ReceivesSuback => outbox' = outbox_delete(outbox, Head(toClient).id, "SUBSCRIBE")
  BY DEF ReceivesSuback
<1>4. QED
  BY <1>0, <1>1, <1>2, <1>3, Deleted

\* How the task comes to the places from which it enqueues.
LEMMA Entered ==
    ASSUME MqttInv, [Next]_vars, at' \in {"subscribe", "online", "capture"}
    PROVE  \/ Connects /\ at' = "subscribe"
           \/ Subscribe /\ at' = "online"
           \/ ReceivesCommand /\ at' = "capture"
           \/ /\ at' = at /\ UNCHANGED <<connections, captured>>
              /\ UNCHANGED outbox \/ TimePasses
<1> USE DEF network, broker, counts, client, Goto, AbortConnection, Writes
<1>1. CASE UNCHANGED vars
  BY <1>1 DEF vars
<1>2. CASE BeginRound \/ ConnectFails \/ Connects \/ Subscribe
  BY <1>2 DEF BeginRound, ConnectFails, Connects, Subscribe
<1>3. CASE PublishOnline \/ CaptureFails
  BY <1>3 DEF PublishOnline, CaptureFails, Publish
<1>4. CASE Reconnects \/ StillWaits \/ ReceivesNothing \/ ReceiveFails
  BY <1>4 DEF Reconnects, StillWaits, ReceivesNothing, ReceiveFails
<1>5. CASE ReceivesPuback \/ ReceivesSuback \/ ReceivesCommand
  BY <1>5 DEF ReceivesPuback, ReceivesSuback, ReceivesCommand, Receives
<1>6. CASE Captures \/ SendsPuback
  BY <1>6 DEF Captures, SendsPuback
<1>7. CASE ResendQueued \/ Retransmit
  BY <1>7 DEF ResendQueued, Retransmit, Resend
<1>8. CASE NothingToResend \/ NoticesDead \/ TimePasses
  BY <1>8 DEF NothingToResend, NoticesDead, TimePasses
<1>9. CASE PublishSample
  BY <1>9 DEF PublishSample, Publish
<1>10. CASE LinkFails \/ BrokerReceives \/ SendsCommand \/ BrokerNotices
  BY <1>10 DEF LinkFails, BrokerReceives, SendsCommand, BrokerNotices
<1>11. QED
  BY <1>1, <1>2, <1>3, <1>4, <1>5, <1>6, <1>7, <1>8, <1>9, <1>10 DEF Next, Task, Round

LEMMA Grow ==
    ASSUME MqttInv, [Next]_vars
    PROVE  Given \subseteq Given' /\ Handed \subseteq Handed' /\ commands <= commands'
<1>0. Counters /\ Counters'
  BY CountersStep DEF MqttInv
<1>1. next <= next' /\ connections <= connections' /\ commands <= commands'
  <2>1. CASE UNCHANGED <<next, connections, commands>>
    BY <1>0, <2>1 DEF Counters
  <2>2. CASE ConnectFails \/ LinkFails \/ ReceivesCommand
    BY <2>1, <2>2 DEF ConnectFails, LinkFails, ReceivesCommand, Receives, broker
  <2>3. CASE Connects
    BY <1>0, <2>3 DEF Counters, Connects
  <2>4. CASE PublishSample
    BY <1>0, <2>4 DEF Counters, PublishSample, broker
  <2>5. CASE SendsCommand
    BY <1>0, <2>5 DEF Counters, SendsCommand, counts
  <2>6. QED
    BY <2>1, <2>2, <2>3, <2>4, <2>5, Quiet DEF Next, Task, Round
<1>2. captured <= captured'
  <2>1. CASE UNCHANGED captured
    BY <1>0, <2>1 DEF Counters
  <2>2. CASE ReceivesCommand
    <3>1. toClient # <<>> /\ Head(toClient).type = "CAPTURE" /\ captured' = Head(toClient).id.n
      BY <2>2 DEF ReceivesCommand, Receives
    <3>2. PICK n \in (captured + 1)..commands : Head(toClient) = Packet("CAPTURE", Capture(n))
      BY <3>1, Received DEF MqttInv
    <3>3. captured' = n
      BY <3>1, <3>2, Kinds DEF Packet
    <3>4. QED
      BY <1>0, <3>3 DEF Counters
  <2>3. CASE ConnectFails \/ LinkFails \/ Connects \/ PublishSample \/ SendsCommand
    BY <2>1, <2>3
       DEF ConnectFails, LinkFails, Connects, PublishSample, SendsCommand, counts
  <2>4. QED
    BY <2>1, <2>2, <2>3, Quiet DEF Next, Task, Round
<1>3. QED
  BY <1>0, <1>1, <1>2, GivenGrows

\* The counters that the additions and the new ids go by.
LEMMA OutboxStep == ASSUME MqttInv, [Next]_vars PROVE Outbox'
<1>0. Control /\ Counters /\ Counters' /\ Outbox /\ Given \subseteq Given'
  BY CountersStep, Grow DEF MqttInv
<1>1. Sound(outbox') /\ IdsOf(outbox') \subseteq Given'
  <2>1. CASE UNCHANGED outbox \/ ResendQueued \/ Retransmit \/ TimePasses
    BY <1>0, <2>1, OutboxKept DEF Outbox
  <2>2. CASE Subscribe \/ PublishOnline
    <3>1. connections \in 1..connections
      BY <1>0, <2>2 DEF Outbox, Counters, Subscribe, PublishOnline, Goto
    <3>2. CmdTopic(connections) \in Given /\ Online(connections) \in Given
      BY <3>1 DEF Given
    <3>3. QED
      BY <1>0, <2>2, <3>2, Adds DEF Outbox
  <2>3. CASE CaptureFails
    <3>1. captured \in 1..captured
      BY <1>0, <2>3, MqttAssumption DEF Outbox, Counters, CaptureFails
    <3>2. CaptureFailed(captured) \in Given
      BY <3>1 DEF Given
    <3>3. QED
      BY <1>0, <2>3, <3>2, Adds DEF Outbox
  <2>4. CASE PublishSample
    <3>1. next' = next + 1
      BY <2>4 DEF PublishSample
    <3>2. next' \in 1..next'
      BY <1>0, <3>1 DEF Counters
    <3>3. Sample(next + 1) \in Given'
      BY <3>1, <3>2 DEF Given, Handed
    <3>4. QED
      BY <1>0, <2>4, <3>3, Adds DEF Outbox
  <2>5. CASE BeginRound \/ ReceivesPuback \/ ReceivesSuback
    BY <1>0, <2>5, Removes DEF Outbox
  <2>6. QED
    BY <2>1, <2>2, <2>3, <2>4, <2>5, MostKeepTheOutbox DEF Next, Task, Round
<1>2. CASE Connects /\ at' = "subscribe"
  <2>1. connections' = connections + 1 /\ UNCHANGED outbox
    BY <1>2 DEF Connects
  <2>2. connections' >= 1
    BY <1>0, <2>1 DEF Counters
  <2>3. /\ CmdTopic(connections') \notin IdsOf(outbox')
        /\ Online(connections') \notin IdsOf(outbox')
    BY <1>0, <2>1, NewIds DEF Outbox
  <2>4. QED
    BY <1>1, <1>2, <2>2, <2>3 DEF Outbox
<1>3. CASE Subscribe /\ at' = "online"
  <2>1. connections' = connections /\ at = "subscribe"
    BY <1>3 DEF Subscribe, Goto, counts
  <2>2. IdsOf(outbox') = IdsOf(outbox) \cup {CmdTopic(connections)}
    BY <1>3, Adds
  <2>3. Online(connections') \notin IdsOf(outbox') /\ connections' >= 1
    BY <1>0, <2>1, <2>2, Kinds DEF Outbox
  <2>4. QED
    BY <1>1, <1>3, <2>3 DEF Outbox
<1>4. CASE ReceivesCommand /\ at' = "capture"
  <2>1. /\ toClient # <<>> /\ Head(toClient).type = "CAPTURE"
        /\ captured' = Head(toClient).id.n /\ UNCHANGED outbox
    BY <1>4 DEF ReceivesCommand, Receives
  <2>2. PICK n \in (captured + 1)..commands : Head(toClient) = Packet("CAPTURE", Capture(n))
    BY <2>1, Received DEF MqttInv
  <2>3. captured' = n
    BY <2>1, <2>2, Kinds DEF Packet
  <2>4. captured' \in Nat /\ captured' > captured /\ captured' >= 1
    BY <1>0, <2>2, <2>3, MqttAssumption DEF Counters
  <2>5. CaptureFailed(captured') \notin IdsOf(outbox')
    BY <1>0, <2>1, <2>4, NewIds DEF Outbox
  <2>6. QED
    BY <1>1, <1>4, <2>4, <2>5 DEF Outbox
<1>5. CASE /\ at' = at /\ UNCHANGED <<connections, captured>>
           /\ UNCHANGED outbox \/ TimePasses
  <2>1. IdsOf(outbox') = IdsOf(outbox)
    BY <1>5, OutboxKept
  <2>2. QED
    BY <1>0, <1>1, <1>5, <2>1 DEF Outbox
<1>6. CASE at' \notin {"subscribe", "online", "capture"}
  BY <1>1, <1>6 DEF Outbox
<1>7. QED
  BY <1>2, <1>3, <1>4, <1>5, <1>6, Entered

---------------------------------------------------------------------------
\* What is under way.

\* The ids of the outbox may be sent.
LEMMA MaySend ==
    ASSUME Counters
    PROVE  /\ Given \subseteq Handed \cup NoSample
           /\ Given \cap Samples \subseteq Handed
           /\ NoId \in NoSample
BY GivenIds DEF Given, NoSample

LEMMA ToBrokerStep == ASSUME MqttInv, [Next]_vars PROVE toBroker' \in Seq(ToBroker')
<1>0. /\ Counters /\ Outbox /\ toBroker \in Seq(ToBroker)
      /\ Counters' /\ Handed \subseteq Handed'
  BY CountersStep, Grow DEF MqttInv, Wire
<1>1. ToBroker \subseteq ToBroker'
  BY <1>0 DEF ToBroker, NoSample
<1>2. toBroker \in Seq(ToBroker')
  BY <1>0, <1>1, Wider
<1>3. ASSUME NEW packet \in ToBroker', Writes(packet) PROVE toBroker' \in Seq(ToBroker')
  <2> HIDE DEF ToBroker
  <2>1. QED
    BY <1>2, <1>3, Written
<1>4. CASE toBroker' = toBroker \/ toBroker' = <<>>
  <2>1. <<>> \in Seq(ToBroker')
    BY EmptySeq
  <2>2. QED
    BY <1>2, <1>4, <2>1
<1>5. CASE UNCHANGED vars
  BY <1>4, <1>5 DEF vars, network
<1>6. CASE \/ BeginRound \/ ConnectFails \/ Connects \/ Reconnects \/ StillWaits
           \/ ReceivesNothing \/ ReceiveFails
           \/ ReceivesPuback \/ ReceivesSuback \/ ReceivesCommand
  <2>1. toBroker' = toBroker \/ toBroker' = <<>>
    BY <1>6
       DEF BeginRound, ConnectFails, Connects, Reconnects, StillWaits, ReceivesNothing,
           ReceiveFails, ReceivesPuback, ReceivesSuback, ReceivesCommand, Receives,
           AbortConnection, network
  <2>2. QED
    BY <1>4, <2>1
<1>7. CASE \/ NothingToResend \/ NoticesDead \/ TimePasses \/ SendsCommand \/ BrokerNotices
  <2>1. toBroker' = toBroker \/ toBroker' = <<>>
    BY <1>7
       DEF NothingToResend, NoticesDead, TimePasses, SendsCommand, BrokerNotices,
           AbortConnection, network
  <2>2. QED
    BY <1>4, <2>1
<1>8. CASE Subscribe
  <2>1. Packet("SUBSCRIBE", CmdTopic(connections)) \in ToBroker'
    <3>1. connections \in 1..connections
      BY <1>0, <1>8 DEF Outbox, Counters, Subscribe, Goto
    <3>2. CmdTopic(connections) \in NoSample
      BY <1>0, <3>1, GivenIds DEF Given, NoSample
    <3>3. QED
      BY <3>2 DEF ToBroker, Packet, MsgTypes, NoSample
  <2>2. \/ Writes(Packet("SUBSCRIBE", CmdTopic(connections)))
        \/ toBroker' = toBroker
    BY <1>8 DEF Subscribe, network
  <2>3. QED
    BY <1>3, <1>4, <2>1, <2>2
<1>9. ASSUME NEW id \in NoSample, NEW then, Publish(id, then)
      PROVE  toBroker' \in Seq(ToBroker')
  <2>1. Packet("PUBLISH", id) \in ToBroker'
    BY DEF ToBroker, Packet, MsgTypes, NoSample
  <2>2. Writes(Packet("PUBLISH", id)) \/ toBroker' = toBroker
    BY <1>9 DEF Publish, AbortConnection
  <2>3. QED
    BY <1>3, <1>4, <2>1, <2>2
<1>10. CASE PublishOnline
  <2>1. connections \in 1..connections
    BY <1>0, <1>10 DEF Outbox, Counters, PublishOnline
  <2>2. Online(connections) \in NoSample
    BY <1>0, <2>1, GivenIds DEF Given, NoSample
  <2>3. QED
    BY <1>9, <1>10, <2>2 DEF PublishOnline
<1>11. CASE CaptureFails
  <2>1. captured \in 1..captured
    BY <1>0, <1>11, MqttAssumption DEF Outbox, Counters, CaptureFails
  <2>2. CaptureFailed(captured) \in NoSample
    BY <1>0, <2>1, GivenIds DEF Given, NoSample
  <2>3. QED
    BY <1>9, <1>11, <2>2 DEF CaptureFails
<1>12. CASE Captures \/ SendsPuback
  <2>1. Packet("IMAGE", NoId) \in ToBroker' /\ Packet("PUBACK", NoId) \in ToBroker'
    BY <1>0, MaySend DEF ToBroker, Packet, NoSample
  <2>2. \/ Writes(Packet("IMAGE", NoId)) \/ Writes(Packet("PUBACK", NoId))
        \/ toBroker' = toBroker
    BY <1>12 DEF Captures, SendsPuback, AbortConnection
  <2>3. QED
    BY <1>3, <1>4, <2>1, <2>2
<1>13. CASE ResendQueued \/ Retransmit
  <2>1. \/ \E i \in DOMAIN outbox : Writes(Packet(outbox[i].type, outbox[i].id))
        \/ toBroker' = toBroker
    <3>1. Sound(outbox)
      BY <1>0 DEF Outbox
    <3>2. CASE ResendQueued
      BY <3>1, <3>2, Dequeued DEF ResendQueued, Resend, AbortConnection
    <3>3. CASE Retransmit
      BY <3>1, <3>3, Dequeued DEF Retransmit, Resend, AbortConnection, network
    <3>4. QED
      BY <1>13, <3>2, <3>3
  <2>2. ASSUME NEW i \in DOMAIN outbox
        PROVE  Packet(outbox[i].type, outbox[i].id) \in ToBroker'
    <3>1. outbox[i] \in Items /\ outbox[i].id \in Given
      BY <1>0 DEF Outbox, Sound, IdsOf
    <3>2. outbox[i].id \in Handed' \cup NoSample
      BY <1>0, <3>1, MaySend
    <3>3. outbox[i].type \in MsgTypes
      BY <3>1 DEF Items
    <3>4. QED
      BY <3>2, <3>3 DEF ToBroker, Packet, NoSample
  <2>3. QED
    BY <1>3, <1>4, <2>1, <2>2
<1>14. CASE PublishSample
  <2>1. next' = next + 1
    BY <1>14 DEF PublishSample
  <2>2. next' \in 1..next'
    BY <1>0, <2>1 DEF Counters
  <2>3. Packet("PUBLISH", Sample(next + 1)) \in ToBroker'
    BY <2>1, <2>2 DEF ToBroker, Packet, MsgTypes, Handed
  <2>4. Writes(Packet("PUBLISH", Sample(next + 1))) \/ toBroker' = toBroker
    BY <1>14 DEF PublishSample, Publish, AbortConnection, network
  <2>5. QED
    BY <1>3, <1>4, <2>3, <2>4
<1>15. CASE LinkFails
  <2>1. PICK n \in 0..Len(toBroker) : toBroker' = SubSeq(toBroker, 1, n)
    BY <1>15 DEF LinkFails
  <2>2. Len(toBroker) \in Nat /\ \A i \in 1..Len(toBroker) : toBroker[i] \in ToBroker'
    <3> HIDE DEF ToBroker
    <3>1. QED
      BY <1>2
  <2>3. 1 \in Int /\ n \in Int /\ \A i \in 1..n : toBroker[i] \in ToBroker'
    BY <2>2
  <2>4. SubSeq(toBroker, 1, n) \in Seq(ToBroker')
    BY <2>3, SubSeqProperties
  <2>5. QED
    BY <2>1, <2>4
<1>16. CASE BrokerReceives
  <2>1. toBroker # <<>> /\ toBroker' = Tail(toBroker)
    BY <1>16 DEF BrokerReceives
  <2>2. Tail(toBroker) \in Seq(ToBroker')
    BY <1>2, <2>1, HeadTailProperties
  <2>3. QED
    BY <2>1, <2>2
<1>17. QED
  BY <1>5, <1>6, <1>7, <1>8, <1>10, <1>11, <1>12, <1>13, <1>14, <1>15, <1>16
     DEF Next, Task, Round

LEMMA AppendInOrder ==
    ASSUME NEW S, NEW packets \in Seq(S), InOrder(packets), NEW packet \in S,
           packet.type = "CAPTURE" =>
               \A i \in DOMAIN packets :
                   packets[i].type = "CAPTURE" => packets[i].id.n < packet.id.n
    PROVE  Append(packets, packet) \in Seq(S) /\ InOrder(Append(packets, packet))
<1> DEFINE new == Append(packets, packet)
           n == Len(packets)
<1>1. /\ new \in Seq(S) /\ Len(new) = n + 1
      /\ \A i \in 1..n : new[i] = packets[i]
      /\ new[n + 1] = packet
  BY AppendProperties
<1>2. n \in Nat /\ DOMAIN packets = 1..n /\ DOMAIN new = 1..(n + 1)
  BY <1>1, LenProperties
<1> HIDE DEF new, n
<1>3. ASSUME NEW i \in DOMAIN new, NEW j \in DOMAIN new, i < j,
             new[i].type = "CAPTURE", new[j].type = "CAPTURE"
      PROVE  new[i].id.n < new[j].id.n
  <2>1. i \in 1..n /\ new[i] = packets[i]
    BY <1>1, <1>2, <1>3
  <2>2. CASE j = n + 1
    BY <1>1, <1>2, <1>3, <2>1, <2>2
  <2>3. CASE j # n + 1
    <3>1. j \in 1..n /\ new[j] = packets[j]
      BY <1>1, <1>2, <1>3, <2>3
    <3>2. QED
      BY <1>2, <1>3, <2>1, <3>1 DEF InOrder
  <2>4. QED
    BY <2>2, <2>3
<1>4. InOrder(new)
  BY <1>3 DEF InOrder
<1>5. QED
  BY <1>1, <1>4 DEF new

LEMMA PrefixInOrder ==
    ASSUME NEW S, NEW packets \in Seq(S), InOrder(packets), NEW n \in 0..Len(packets)
    PROVE  SubSeq(packets, 1, n) \in Seq(S) /\ InOrder(SubSeq(packets, 1, n))
<1> DEFINE new == SubSeq(packets, 1, n)
<1>1. Len(packets) \in Nat /\ \A i \in 1..Len(packets) : packets[i] \in S
  BY LenProperties
<1>2. 1 \in Int /\ n \in Int /\ \A i \in 1..n : packets[i] \in S
  BY <1>1
<1>3. /\ new \in Seq(S)
      /\ Len(new) = IF 1 <= n THEN n - 1 + 1 ELSE 0
      /\ \A i \in 1..(n - 1 + 1) : new[i] = packets[1 + i - 1]
  BY <1>2, SubSeqProperties
<1>4. DOMAIN new = 1..Len(new) /\ DOMAIN packets = 1..Len(packets)
  BY <1>3, LenProperties
<1> HIDE DEF new
<1>5. \A i \in DOMAIN new : i \in DOMAIN packets /\ new[i] = packets[i]
  <2>1. Len(new) = n
    BY <1>1, <1>3
  <2>2. \A i \in 1..n : i \in 1..(n - 1 + 1) /\ 1 + i - 1 = i /\ i \in 1..Len(packets)
    BY <1>1
  <2>3. QED
    BY <1>3, <1>4, <2>1, <2>2
<1>6. \A i \in DOMAIN new : i \in Int
  BY <1>3, <1>4
<1>7. InOrder(new)
  BY <1>5, <1>6 DEF InOrder
<1>8. QED
  BY <1>3, <1>7 DEF new

\* Of commands in order, those after the first are later ones.
LEMMA TailInOrder ==
    ASSUME NEW S, NEW packets \in Seq(S), InOrder(packets), packets # <<>>
    PROVE  /\ InOrder(Tail(packets))
           /\ Head(packets).type = "CAPTURE" =>
                 \A i \in DOMAIN Tail(packets) :
                     Tail(packets)[i].type = "CAPTURE" =>
                         Head(packets).id.n < Tail(packets)[i].id.n
<1> DEFINE new == Tail(packets)
<1>1. /\ new \in Seq(S) /\ Len(new) = Len(packets) - 1
      /\ \A i \in 1..Len(new) : new[i] = packets[i + 1]
  BY HeadTailProperties
<1>2. /\ DOMAIN new = 1..Len(new) /\ DOMAIN packets = 1..Len(packets)
      /\ Len(packets) \in Nat /\ Len(packets) >= 1
  BY <1>1, LenProperties, EmptySeq
<1>3. Head(packets) = packets[1]
  OBVIOUS
<1> HIDE DEF new
<1>4. ASSUME NEW i \in DOMAIN new
      PROVE  i \in Int /\ i + 1 \in DOMAIN packets /\ 1 \in DOMAIN packets /\ 1 < i + 1
  BY <1>1, <1>2
<1>5. InOrder(new)
  <2>1. ASSUME NEW i \in DOMAIN new, NEW j \in DOMAIN new, i < j,
               new[i].type = "CAPTURE", new[j].type = "CAPTURE"
        PROVE  new[i].id.n < new[j].id.n
    <3>1. i + 1 < j + 1
      BY <1>4, <2>1
    <3>2. QED
      BY <1>1, <1>2, <1>4, <2>1, <3>1 DEF InOrder
  <2>2. QED
    BY <2>1 DEF InOrder
<1>6. ASSUME Head(packets).type = "CAPTURE", NEW i \in DOMAIN new,
             new[i].type = "CAPTURE"
      PROVE  Head(packets).id.n < new[i].id.n
  BY <1>1, <1>2, <1>3, <1>4, <1>6 DEF InOrder
<1>7. QED
  BY <1>5, <1>6 DEF new

LEMMA ToClientStep ==
    ASSUME MqttInv, [Next]_vars
    PROVE  /\ toClient' \in Seq(ToClient') /\ InOrder(toClient')
           /\ link' = "none" => toClient' = <<>>
<1> DEFINE Goal == /\ toClient' \in Seq(ToClient') /\ InOrder(toClient')
                   /\ link' = "none" => toClient' = <<>>
<1>0. /\ Control /\ Counters /\ Counters' /\ Handed \subseteq Handed'
      /\ commands <= commands'
      /\ toClient \in Seq(ToClient) /\ InOrder(toClient)
      /\ link = "none" => toClient = <<>>
  BY CountersStep, Grow DEF MqttInv, Wire
<1>1. ASSUME captured' = captured, got \subseteq got' PROVE ToClient \subseteq ToClient'
  <2>1. (captured + 1)..commands \subseteq (captured' + 1)..commands'
    BY <1>0, <1>1, MqttAssumption DEF Counters
  <2>2. QED
    BY <1>0, <1>1, <2>1 DEF ToClient, NoSample
<1>2. ASSUME toClient' = <<>> PROVE Goal
  BY <1>2 DEF InOrder
<1>3. ASSUME captured' = captured, got' = got, toClient' = toClient,
             link' = "none" => toClient' = <<>>
      PROVE  Goal
  <2>1. toClient \in Seq(ToClient')
    BY <1>0, <1>1, <1>3, Wider
  <2>2. QED
    BY <1>0, <1>3, <2>1
<1>4. CASE \/ UNCHANGED vars
           \/ BeginRound \/ Subscribe \/ PublishOnline \/ Reconnects \/ StillWaits
           \/ ReceivesNothing \/ Captures \/ CaptureFails \/ SendsPuback \/ ResendQueued
           \/ Retransmit \/ NothingToResend \/ PublishSample \/ TimePasses
           \/ BrokerNotices
  <2>1. /\ captured' = captured /\ got' = got
        /\ toClient' = <<>> \/ (toClient' = toClient /\ link' = link)
    <3> USE DEF network, broker, counts, AbortConnection, Writes
    <3>1. CASE UNCHANGED vars \/ BeginRound \/ Subscribe
      BY <3>1 DEF vars, BeginRound, Subscribe
    <3>2. CASE PublishOnline \/ CaptureFails \/ PublishSample
      BY <3>2 DEF PublishOnline, CaptureFails, PublishSample, Publish
    <3>3. CASE Reconnects \/ StillWaits \/ ReceivesNothing \/ Captures \/ SendsPuback
      BY <3>3 DEF Reconnects, StillWaits, ReceivesNothing, Captures, SendsPuback
    <3>4. CASE ResendQueued \/ Retransmit
      BY <3>4 DEF ResendQueued, Retransmit, Resend
    <3>5. CASE NothingToResend \/ TimePasses \/ BrokerNotices
      BY <3>5 DEF NothingToResend, TimePasses, BrokerNotices
    <3>6. QED
      BY <1>4, <3>1, <3>2, <3>3, <3>4, <3>5
  <2>2. QED
    BY <1>0, <1>2, <1>3, <2>1
<1>5. CASE ConnectFails \/ Connects \/ ReceiveFails \/ NoticesDead
  <2>1. toClient' = <<>>
    BY <1>5 DEF ConnectFails, Connects, ReceiveFails, NoticesDead, AbortConnection
  <2>2. QED
    BY <1>2, <2>1
<1>6. CASE ReceivesPuback \/ ReceivesSuback
  <2>1. /\ captured' = captured /\ got' = got
        /\ toClient # <<>> /\ toClient' = Tail(toClient) /\ link' = link
    BY <1>6 DEF ReceivesPuback, ReceivesSuback, Receives, broker
  <2>2. toClient' \in Seq(ToClient) /\ InOrder(toClient')
    BY <1>0, <2>1, HeadTailProperties, TailInOrder
  <2>3. toClient' \in Seq(ToClient')
    BY <1>1, <2>1, <2>2, Wider
  <2>4. QED
    BY <1>0, <2>1, <2>2, <2>3
<1>7. CASE ReceivesCommand
  <2>1. /\ captured' = Head(toClient).id.n /\ got' = got /\ commands' = commands
        /\ toClient # <<>> /\ toClient' = Tail(toClient) /\ link' = link
        /\ Head(toClient).type = "CAPTURE"
    BY <1>7 DEF ReceivesCommand, Receives, broker
  <2>2. toClient' \in Seq(ToClient) /\ InOrder(toClient')
    BY <1>0, <2>1, HeadTailProperties, TailInOrder
  <2>3. \A i \in DOMAIN toClient' :
           toClient'[i].type = "CAPTURE" => captured' < toClient'[i].id.n
    BY <1>0, <2>1, TailInOrder
  <2>4. Len(toClient') \in Nat /\ DOMAIN toClient' = 1..Len(toClient')
    BY <2>2, LenProperties
  <2>5. \A i \in DOMAIN toClient' : toClient'[i] \in ToClient
    BY <2>2, <2>4
  <2>6. ASSUME NEW i \in DOMAIN toClient' PROVE toClient'[i] \in ToClient'
    <3>1. CASE toClient'[i] \in
                   [type : {"PUBACK"}, id : got \cup NoSample]
                     \cup [type : {"SUBACK"}, id : Handed \cup NoSample]
      BY <1>0, <2>1, <3>1 DEF ToClient, NoSample
    <3>2. CASE toClient'[i] \in
                   {Packet("CAPTURE", Capture(n)) : n \in (captured + 1)..commands}
      <4>1. PICK n \in (captured + 1)..commands :
                toClient'[i] = Packet("CAPTURE", Capture(n))
        BY <3>2
      <4>2. toClient'[i].type = "CAPTURE" /\ toClient'[i].id.n = n
        BY <4>1, Kinds DEF Packet
      <4>3. captured' < n
        BY <2>3, <4>2
      <4>4. n \in (captured' + 1)..commands'
        BY <1>0, <2>1, <4>3, MqttAssumption DEF Counters
      <4>5. QED
        BY <4>1, <4>4 DEF ToClient
    <3>3. QED
      BY <2>5, <3>1, <3>2 DEF ToClient
  <2>7. toClient' \in [1..Len(toClient') -> ToClient']
    <3>1. toClient' \in [1..Len(toClient') -> ToClient]
      BY <2>2, LenProperties
    <3>2. QED
      BY <2>4, <2>6, <3>1
  <2>8. toClient' \in Seq(ToClient')
    BY <2>4, <2>7, SeqDef
  <2>9. QED
    BY <1>0, <2>1, <2>2, <2>8
<1>8. CASE LinkFails
  <2>1. /\ captured' = captured /\ got' = got /\ link' = "dead"
        /\ \E n \in 0..Len(toClient) : toClient' = SubSeq(toClient, 1, n)
    BY <1>8 DEF LinkFails, broker
  <2>2. toClient' \in Seq(ToClient) /\ InOrder(toClient')
    BY <1>0, <2>1, PrefixInOrder
  <2>3. toClient' \in Seq(ToClient')
    BY <1>1, <2>1, <2>2, Wider
  <2>4. QED
    BY <2>1, <2>2, <2>3
<1>9. CASE BrokerReceives
  <2> DEFINE packet == Head(toBroker)
             puback == Packet("PUBACK", packet.id)
             suback == Packet("SUBACK", packet.id)
  <2>1. /\ toBroker # <<>> /\ captured' = captured /\ link' = link
        /\ got' = got \cup ({packet.id} \cap Samples)
        /\ \/ toClient' = toClient
           \/ toClient' = toClient \o <<>>
           \/ toClient' = toClient \o <<puback>> /\ link = "up"
           \/ toClient' = toClient \o <<suback>> /\ link = "up"
    BY <1>9 DEF BrokerReceives, client, counts
  <2>2. packet \in ToBroker
    BY <2>1, HeadTailProperties DEF MqttInv, Wire
  <2>3. packet.id \in Handed \cup NoSample
    BY <2>2 DEF ToBroker
  <2>4. toClient \in Seq(ToClient')
    BY <1>0, <1>1, <2>1, Wider
  <2>5. puback \in ToClient' /\ puback.type # "CAPTURE"
    <3>1. Handed \subseteq Samples
      BY <1>0, GivenIds
    <3>2. packet.id \in got' \cup NoSample
      BY <2>1, <2>3, <3>1
    <3>3. QED
      BY <3>2 DEF ToClient, Packet, NoSample
  <2>6. suback \in ToClient' /\ suback.type # "CAPTURE"
    BY <1>0, <2>3 DEF ToClient, Packet, NoSample
  <2> HIDE DEF puback, suback, packet
  <2>7. toClient \o <<>> = toClient
    BY <1>0, ConcatEmptySeq
  <2>8. CASE toClient' = toClient
    BY <1>0, <2>1, <2>4, <2>8
  <2>9. ASSUME NEW answer \in ToClient', answer.type # "CAPTURE", link = "up",
               toClient' = toClient \o <<answer>>
        PROVE  Goal
    <3>1. toClient' = Append(toClient, answer)
      BY <2>4, <2>9, AppendIsConcat
    <3>2. Append(toClient, answer) \in Seq(ToClient') /\ InOrder(Append(toClient, answer))
      BY <1>0, <2>4, <2>9, AppendInOrder
    <3>3. QED
      BY <2>1, <2>9, <3>1, <3>2
  <2>10. QED
    BY <2>1, <2>5, <2>6, <2>7, <2>8, <2>9
<1>10. CASE SendsCommand
  <2> DEFINE packet == Packet("CAPTURE", Capture(commands + 1))
  <2>1. /\ captured' = captured /\ got' = got /\ link = "up" /\ link' = link
        /\ commands' = commands + 1 /\ toClient' = Append(toClient, packet)
    BY <1>10 DEF SendsCommand, counts
  <2>2. toClient \in Seq(ToClient')
    BY <1>0, <1>1, <2>1, Wider
  <2>3. commands + 1 \in (captured' + 1)..commands'
    BY <1>0, <2>1, MqttAssumption DEF Counters
  <2>4. packet \in ToClient'
    BY <2>1, <2>3 DEF ToClient
  <2>5. packet.id.n = commands + 1
    BY Kinds DEF Packet
  <2>6. ASSUME NEW i \in DOMAIN toClient, toClient[i].type = "CAPTURE"
        PROVE  toClient[i].id.n < commands + 1
    <3>1. toClient[i] \in ToClient
      BY <1>0
    <3>2. PICK n \in (captured + 1)..commands :
              toClient[i] = Packet("CAPTURE", Capture(n))
      BY <2>6, <3>1 DEF ToClient
    <3>3. toClient[i].id.n = n
      BY <3>2, Kinds DEF Packet
    <3>4. QED
      BY <1>0, <3>3, MqttAssumption DEF Counters
  <2> HIDE DEF packet
  <2>7. Append(toClient, packet) \in Seq(ToClient') /\ InOrder(Append(toClient, packet))
    BY <1>0, <2>2, <2>4, <2>5, <2>6, AppendInOrder
  <2>8. QED
    BY <2>1, <2>7
<1>11. QED
  BY <1>4, <1>5, <1>6, <1>7, <1>8, <1>9, <1>10 DEF Next, Task, Round

---------------------------------------------------------------------------
\* Delivery, and the promise.

\* The steps that change what is handed, got or expired.
LEMMA WhatIsPromised ==
    ASSUME MqttInv, [Next]_vars
    PROVE  \/ UNCHANGED <<next, got, expired>>
           \/ PublishSample /\ next' = next + 1 /\ UNCHANGED <<got, expired>>
           \/ BrokerReceives /\ UNCHANGED <<next, expired>>
           \/ BeginRound /\ UNCHANGED <<next, got>>
<1> USE DEF broker, counts
<1>1. CASE UNCHANGED vars
  BY <1>1 DEF vars
<1>2. CASE BeginRound \/ PublishSample \/ BrokerReceives
  BY <1>2 DEF BeginRound, PublishSample, BrokerReceives
<1>3. CASE ConnectFails \/ Connects \/ Subscribe \/ PublishOnline \/ Reconnects
  BY <1>3 DEF ConnectFails, Connects, Subscribe, PublishOnline, Reconnects
<1>4. CASE \/ StillWaits \/ ReceivesNothing \/ ReceiveFails \/ ReceivesPuback
           \/ ReceivesSuback \/ ReceivesCommand
  BY <1>4 DEF StillWaits, ReceivesNothing, ReceiveFails, ReceivesPuback,
              ReceivesSuback, ReceivesCommand, Receives
<1>5. CASE Captures \/ CaptureFails \/ SendsPuback \/ ResendQueued \/ Retransmit
  BY <1>5 DEF Captures, CaptureFails, SendsPuback, ResendQueued, Retransmit
<1>6. CASE \/ NothingToResend \/ NoticesDead \/ TimePasses \/ LinkFails
           \/ SendsCommand \/ BrokerNotices
  BY <1>6 DEF NothingToResend, NoticesDead, TimePasses, LinkFails, SendsCommand,
              BrokerNotices
<1>7. QED
  BY <1>1, <1>2, <1>3, <1>4, <1>5, <1>6 DEF Next, Task, Round

\* No step but BeginRound and the receipt of a PUBACK takes a sample out of
\* the outbox, and none but PublishSample puts one in.
LEMMA SamplesStay ==
    ASSUME MqttInv, [Next]_vars, ~BeginRound, ~ReceivesPuback, ~PublishSample
    PROVE  IdsOf(outbox') \cap Samples = IdsOf(outbox) \cap Samples
<1>0. Counters
  BY DEF MqttInv
<1>1. CASE Subscribe \/ PublishOnline \/ CaptureFails
  BY <1>0, <1>1, Adds, GivenIds
<1>2. CASE ReceivesSuback
  BY <1>2, Removes
<1>3. CASE UNCHANGED outbox \/ ResendQueued \/ Retransmit \/ TimePasses
  BY <1>3, OutboxKept
<1>4. QED
  BY <1>1, <1>2, <1>3, MostKeepTheOutbox DEF Next, Task, Round

LEMMA DeliveryStep == ASSUME MqttInv, [Next]_vars PROVE Delivery'
<1>0. /\ Counters /\ Counters' /\ Outbox /\ Delivery /\ Wire
      /\ Handed \subseteq Samples /\ Handed' \subseteq Samples
      /\ Given \cap Samples \subseteq Handed
  <2>1. Counters /\ Counters' /\ Handed' = {Sample(n) : n \in 1..next'}
    BY CountersStep DEF MqttInv, Handed
  <2>2. 1..next' \subseteq 1..MaxSamples
    BY <2>1, MqttAssumption DEF Counters
  <2>3. Handed' \subseteq Samples
    BY <2>1, <2>2, SampleIds
  <2>4. QED
    BY <2>1, <2>3, GivenIds, MaySend DEF MqttInv
<1>1. IdsOf(outbox) \cap Samples \subseteq Handed
  BY <1>0 DEF Outbox
<1>2. CASE BeginRound
  <2>1. PICK old :
            /\ old \subseteq IdsOf(outbox)
            /\ IdsOf(outbox') = IdsOf(outbox) \ old
            /\ expired' = expired \cup (old \cap Samples)
    BY <1>2, Removes
  <2>2. got' = got /\ Handed' = Handed
    BY <1>2 DEF BeginRound, broker, Handed
  <2>3. QED
    BY <1>0, <1>1, <2>1, <2>2 DEF Delivery
<1>3. CASE ReceivesPuback
  <2>1. /\ toClient # <<>> /\ Head(toClient).type = "PUBACK"
        /\ got' = got /\ expired' = expired /\ Handed' = Handed
    BY <1>3 DEF ReceivesPuback, Receives, broker, Handed
  <2>2. Head(toClient) \in ToClient
    BY <1>0, <2>1, Received
  <2>3. Head(toClient).id \in got \cup NoSample
    BY <2>1, <2>2 DEF ToClient, Packet
  <2>4. /\ IdsOf(outbox') \subseteq IdsOf(outbox)
        /\ IdsOf(outbox) \ {Head(toClient).id} \subseteq IdsOf(outbox')
    BY <1>3, Removes
  <2>5. Head(toClient).id \in Handed => Head(toClient).id \in got
    BY <1>0, <2>3 DEF NoSample
  <2>6. QED
    BY <1>0, <2>1, <2>4, <2>5 DEF Delivery
<1>4. CASE PublishSample
  <2>1. next' = next + 1 /\ got' = got /\ expired' = expired
    BY <1>4 DEF PublishSample, broker
  <2>2. 1..next' = 1..next \cup {next + 1}
    BY <1>0, <2>1 DEF Counters
  <2>3. Handed' = Handed \cup {Sample(next + 1)}
    BY <2>2 DEF Handed
  <2>4. IdsOf(outbox') = IdsOf(outbox) \cup {Sample(next + 1)}
    BY <1>4, Adds
  <2>5. Sample(next + 1) \notin Handed
    BY <1>0, NewIds DEF Given
  <2>6. QED
    BY <1>0, <2>1, <2>3, <2>4, <2>5 DEF Delivery
<1>5. CASE ~BeginRound /\ ~ReceivesPuback /\ ~PublishSample
  <2>1. IdsOf(outbox') \cap Samples = IdsOf(outbox) \cap Samples
    BY <1>5, SamplesStay
  <2>2. CASE UNCHANGED <<next, got, expired>>
    <3>1. Handed' = Handed
      BY <2>2 DEF Handed
    <3>2. QED
      BY <1>0, <2>1, <2>2, <3>1 DEF Delivery
  <2>3. CASE BrokerReceives /\ UNCHANGED <<next, expired>>
    <3>1. /\ toBroker # <<>>
          /\ got' = got \cup ({Head(toBroker).id} \cap Samples)
      BY <2>3 DEF BrokerReceives
    <3>2. Head(toBroker) \in ToBroker
      BY <1>0, <3>1, HeadTailProperties DEF Wire
    <3>3. {Head(toBroker).id} \cap Samples \subseteq Handed
      BY <3>2 DEF ToBroker, NoSample
    <3>4. Handed' = Handed
      BY <2>3 DEF Handed
    <3>5. QED
      BY <1>0, <2>1, <2>3, <3>1, <3>3, <3>4 DEF Delivery
  <2>4. QED
    BY <1>5, <2>2, <2>3, WhatIsPromised
<1>6. QED
  BY <1>2, <1>3, <1>4, <1>5

LEMMA MqttInvInductive == Spec => []MqttInv
<1>1. Init => MqttInv
  BY InvInit
<1>2. MqttInv /\ [Next]_vars => MqttInv'
  BY ControlStep, CountersStep, OutboxStep, ToBrokerStep, ToClientStep, DeliveryStep
     DEF MqttInv, Wire
<1>3. QED
  BY <1>1, <1>2, PTL DEF Spec

LEMMA PromiseStep ==
    ASSUME MqttInv, MqttInv', [Next]_vars
    PROVE  [Promise!Next]_<<{Sample(n) : n \in 1..next}, got, expired>>
<1>0. /\ Counters /\ Delivery /\ Delivery' /\ Wire
      /\ Handed = {Sample(n) : n \in 1..next} /\ Handed \subseteq Samples
  BY GivenIds DEF MqttInv, Handed
<1>1. CASE UNCHANGED <<next, got, expired>>
  BY <1>1
<1>2. CASE PublishSample /\ next' = next + 1 /\ UNCHANGED <<got, expired>>
  <2>1. 1..next' = 1..next \cup {next + 1} /\ next + 1 \in 1..MaxSamples
    BY <1>0, <1>2, MqttAssumption DEF Counters, PublishSample
  <2>2. {Sample(n) : n \in 1..next'} = {Sample(n) : n \in 1..next} \cup {Sample(next + 1)}
    BY <2>1
  <2>3. Sample(next + 1) \notin {Sample(n) : n \in 1..next} /\ Sample(next + 1) \in Samples
    BY <1>0, <2>1, NewIds, SampleIds DEF Given
  <2>4. Promise!Hand(Sample(next + 1))
    BY <1>2, <2>2, <2>3 DEF Promise!Hand
  <2>5. QED
    BY <2>3, <2>4 DEF Promise!Next
<1>3. CASE BrokerReceives /\ UNCHANGED <<next, expired>>
  <2> DEFINE id == Head(toBroker).id
  <2>1. toBroker # <<>> /\ got' = got \cup ({id} \cap Samples)
    BY <1>3 DEF BrokerReceives
  <2>2. Head(toBroker) \in ToBroker
    BY <1>0, <2>1, HeadTailProperties DEF Wire
  <2>3. id \in Handed \cup NoSample
    BY <2>2 DEF ToBroker
  <2> HIDE DEF id
  <2>4. CASE id \in Samples \ got
    <3>1. id \in Handed
      BY <2>3, <2>4 DEF NoSample
    <3>2. Promise!Deliver(id)
      BY <1>0, <1>3, <2>1, <2>4, <3>1 DEF Promise!Deliver
    <3>3. QED
      BY <2>4, <3>2 DEF Promise!Next
  <2>5. CASE id \notin Samples \ got
    <3>1. got' = got
      BY <2>1, <2>5
    <3>2. QED
      BY <1>1, <1>3, <3>1
  <2>6. QED
    BY <2>4, <2>5
<1>4. CASE BeginRound /\ UNCHANGED <<next, got>>
  <2>1. PICK old :
            /\ old \subseteq IdsOf(outbox)
            /\ expired' = expired \cup (old \cap Samples)
    BY <1>4, Removes
  <2>2. old \cap Samples \subseteq Handed \ expired
    BY <1>0, <2>1, MaySend DEF MqttInv, Outbox, Delivery
  <2>3. CASE old \cap Samples = {}
    BY <1>1, <1>4, <2>1, <2>3
  <2>4. CASE old \cap Samples # {}
    <3>1. Promise!Expire(old \cap Samples)
      BY <1>0, <1>4, <2>1, <2>2, <2>4 DEF Promise!Expire
    <3>2. old \cap Samples \in SUBSET Samples
      OBVIOUS
    <3>3. QED
      BY <3>1, <3>2 DEF Promise!Next
  <2>5. QED
    BY <2>3, <2>4
<1>5. QED
  BY <1>1, <1>2, <1>3, <1>4, WhatIsPromised

---------------------------------------------------------------------------
\* The theorems.

\* The client, its outbox and its connection keep their types, and no two
\* messages in the outbox share an id, through any number of failures,
\* reconnections and retransmissions (mqtt_client.c:1917-2135).
THEOREM MqttTypes == Spec => []MqttTypeOK
<1>1. MqttInv => MqttTypeOK
  BY InvImplies
<1>2. QED
  BY <1>1, MqttInvInductive, PTL

\* No sample is dropped in silence: it is out of the outbox only when the
\* broker has it or it is too old (mqtt_client.c:1700, 1883, 2024-2047).
THEOREM NothingIsDropped == Spec => []NothingDropped
<1>1. MqttInv => NothingDropped
  BY InvImplies
<1>2. QED
  BY <1>1, MqttInvInductive, PTL

\* Each step of the client, the network and the broker is one that MqttPromise
\* allows, or none: no sample is invented, delivered before it was handed over
\* or taken back (mqtt_cam.c:103-117, mqtt_client.c:1574-1885, 1917-2135,
\* 2510-2635).
THEOREM PromiseIsSafe == Spec => Promise!PromiseSafety
<1>1. Init => Promise!Init
  BY DEF Init, Promise!Init
<1>2. MqttInv /\ MqttInv' /\ [Next]_vars =>
          [Promise!Next]_<<{Sample(n) : n \in 1..next}, got, expired>>
  BY PromiseStep
<1>3. QED
  BY <1>1, <1>2, MqttInvInductive, PTL DEF Spec, Promise!PromiseSafety

=============================================================================
