--------------------------- MODULE MqttMsgProofs ---------------------------
(***************************************************************************)
(* The framing of MqttMsg for every message that MQTT can carry: what      *)
(* fini_message writes, mqtt_get_total_length reads.  The functions of     *)
(* mqtt_msg.c on the messages that it built, also on a part of one, as the *)
(* receiver has it.  Induction, for the recursive functions of the         *)
(* community modules.  Sequences and their parts, sequences that grow and  *)
(* shrink.                                                                 *)
(***************************************************************************)
EXTENDS MqttMsg, SequenceTheorems, FiniteSetTheorems, TLAPS

LEMMA Weights ==
    Weight[1] = 1 /\ Weight[2] = 128 /\ Weight[3] = 16384 /\ Weight[4] = 2097152
BY SMT DEF Weight

LEMMA LenBytesType ==
    ASSUME NEW n \in Nat
    PROVE  LenBytes(n) \in 1..4
BY SMT, Weights DEF LenBytes

LEMMA LenDigitType ==
    ASSUME NEW n \in Nat, NEW k \in 1..4
    PROVE  LenDigit(n, k) \in 0..127
<1>1. Weight[k] \in Nat \ {0}
  BY SMT DEF Weight
<1>2. n \div Weight[k] \in Nat
  BY <1>1, SMT
<1> QED
  BY <1>2, SMT DEF LenDigit

LEMMA EncodedLensType ==
    ASSUME NEW n \in Nat
    PROVE  /\ EncodedLens(n) \in Seq(Byte)
           /\ Len(EncodedLens(n)) = LenBytes(n)
<1>1. LenBytes(n) \in 1..4
  BY LenBytesType
<1>2. \A k \in 1..LenBytes(n) : LenDigit(n, k) + (IF k < LenBytes(n) THEN 128 ELSE 0) \in Byte
  <2> TAKE k \in 1..LenBytes(n)
  <2>1. LenDigit(n, k) \in 0..127
    BY <1>1, LenDigitType
  <2> QED
    BY <2>1, SMT DEF Byte
<1>3. EncodedLens(n) \in [1..LenBytes(n) -> Byte]
  BY <1>2 DEF EncodedLens
<1> QED
  BY <1>1, <1>3

\* The digits add up to the number they are taken from.
LEMMA DigitsAddUp ==
    ASSUME NEW n \in Nat, n <= MaxRemaining
    PROVE  n = LenDigit(n, 1) + 128 * LenDigit(n, 2) + 16384 * LenDigit(n, 3)
                 + 2097152 * LenDigit(n, 4)
<1>1. /\ LenDigit(n, 1) = n % 128
      /\ LenDigit(n, 2) = (n \div 128) % 128
      /\ LenDigit(n, 3) = (n \div 16384) % 128
      /\ LenDigit(n, 4) = (n \div 2097152) % 128
  <2>1. n \div 1 = n
    BY SMT
  <2> QED
    BY <2>1, Weights, SMT DEF LenDigit
<1>2. n = (n % 128) + 128 * ((n \div 128) % 128) + 16384 * ((n \div 16384) % 128)
            + 2097152 * ((n \div 2097152) % 128)
  BY SMT DEF MaxRemaining
<1>3. \A k \in 1..4 : LenDigit(n, k) \in Int
  BY LenDigitType
<1> QED
  BY <1>1, <1>2, <1>3, SMT

\* The digits that are not written are zero.
LEMMA NoMoreDigits ==
    ASSUME NEW n \in Nat, NEW k \in 1..4, k > LenBytes(n)
    PROVE  LenDigit(n, k) = 0
<1>1. CASE k = 1
  BY <1>1, LenBytesType, SMT
<1>2. CASE k = 2
  <2>1. n < 128
    BY <1>2, Weights, SMT DEF LenBytes
  <2> QED
    BY <1>2, <2>1, Weights, SMT DEF LenDigit
<1>3. CASE k = 3
  <2>1. n < 16384
    BY <1>3, Weights, SMT DEF LenBytes
  <2> QED
    BY <1>3, <2>1, Weights, SMT DEF LenDigit
<1>4. CASE k = 4
  <2>1. n < 2097152
    BY <1>4, Weights, SMT DEF LenBytes
  <2> QED
    BY <1>4, <2>1, Weights, SMT DEF LenDigit
<1> QED
  BY <1>1, <1>2, <1>3, <1>4, SMT

\* The smallest element of a set of numbers.
LEMMA MinIs ==
    ASSUME NEW S \in SUBSET Nat, NEW x \in S, \A y \in S : x <= y
    PROVE  Min(S) = x
<1>1. \A z \in S : (\A y \in S : z <= y) => z = x
  BY SMT
<1>2. Min(S) \in S /\ \A y \in S : Min(S) <= y
  BY Zenon DEF Min
<1> QED
  BY <1>1, <1>2

LEMMA DigitBytes ==
    ASSUME NEW d \in 0..127
    PROVE  d + 0 = d /\ d < 128 /\ d % 128 = d /\ ~(d + 128 < 128) /\ (d + 128) % 128 = d
BY SMT

\* A buffer that starts with a header holds the length the header was written
\* for, however much of the message follows.
LEMMA HeaderDecides ==
    ASSUME NEW n \in Nat, n <= MaxRemaining,
           NEW buffer, Len(buffer) \in Nat, Len(buffer) > LenBytes(n),
           \A k \in 1..LenBytes(n) : buffer[k + 1] = EncodedLens(n)[k]
    PROVE  /\ FixedHeaderLen(buffer) = LenBytes(n) + 1
           /\ RemainingLength(buffer) = n
<1> DEFINE L == LenBytes(n)
<1>1. L \in 1..4 /\ Len(buffer) \in Nat /\ Len(buffer) > L
  BY LenBytesType
<1>2. \A k \in 1..L : LenDigit(n, k) \in 0..127
  <2> TAKE k \in 1..L
  <2>1. k \in 1..4
    BY <1>1
  <2> QED
    BY <2>1, LenDigitType
<1>3. \A k \in 1..L : buffer[k + 1] = IF k < L THEN LenDigit(n, k) + 128 ELSE LenDigit(n, k)
  <2> TAKE k \in 1..L
  <2>1. buffer[k + 1] = LenDigit(n, k) + (IF k < L THEN 128 ELSE 0)
    BY DEF EncodedLens
  <2>2. LenDigit(n, k) + 0 = LenDigit(n, k)
    BY <1>2, DigitBytes
  <2> QED
    BY <2>1, <2>2
<1>4. \A k \in 1..4 : k > L => LenDigit(n, k) = 0
  BY NoMoreDigits
<1> HIDE DEF L
<1>5. \A k \in 1..L : k < L => ~(buffer[k + 1] < 128)
  <2> TAKE k \in 1..L
  <2> HAVE k < L
  <2>1. buffer[k + 1] = LenDigit(n, k) + 128
    BY <1>3
  <2>2. LenDigit(n, k) \in 0..127
    BY <1>2
  <2>3. ~(LenDigit(n, k) + 128 < 128)
    BY <2>2, DigitBytes
  <2> QED
    BY <2>1, <2>3, Zenon
<1>6. buffer[L + 1] < 128
  <2>1. L \in 1..L /\ ~(L < L)
    BY <1>1, SMT
  <2>2. buffer[L + 1] = LenDigit(n, L)
    BY <1>3, <2>1
  <2>3. LenDigit(n, L) \in 0..127
    BY <1>2, <2>1
  <2>4. LenDigit(n, L) < 128
    BY <2>3, DigitBytes
  <2> QED
    BY <2>2, <2>4, Zenon
<1>7. FixedHeaderLen(buffer) = L + 1
  <2> DEFINE last == {i \in 1..4 : i < Len(buffer) /\ buffer[i + 1] < 128}
  <2>1. last \in SUBSET Nat
    OBVIOUS
  <2>2. L \in last
    BY <1>1, <1>6
  <2>3. \A i \in last : L <= i
    <3> TAKE i \in last
    <3>1. i \in 1..4 /\ buffer[i + 1] < 128
      OBVIOUS
    <3>2. i < L => i \in 1..L
      BY <1>1, <3>1, SMT
    <3> QED
      BY <1>1, <1>5, <3>1, <3>2, SMT
  <2> HIDE DEF last
  <2>4. Min(last) = L
    BY <2>1, <2>2, <2>3, MinIs
  <2> QED
    BY <2>2, <2>4, SMT DEF FixedHeaderLen, HeaderLen, last
<1>8. \A k \in 1..4 : (IF k < L + 1 THEN buffer[k + 1] % 128 ELSE 0) = LenDigit(n, k)
  <2> TAKE k \in 1..4
  <2>1. CASE k < L + 1
    <3>1. k \in 1..L
      BY <1>1, <2>1, SMT
    <3>2. LenDigit(n, k) \in 0..127
      BY <1>2, <3>1
    <3>3. \/ buffer[k + 1] = LenDigit(n, k)
          \/ buffer[k + 1] = LenDigit(n, k) + 128
      BY <1>3, <3>1
    <3>4. buffer[k + 1] % 128 = LenDigit(n, k)
      BY <3>2, <3>3, DigitBytes
    <3> QED
      BY <2>1, <3>4
  <2>2. CASE ~(k < L + 1)
    <3>1. k > L
      BY <1>1, <2>2, SMT
    <3> QED
      BY <1>4, <2>2, <3>1
  <2> QED
    BY <2>1, <2>2
<1>9. RemainingLength(buffer)
        = LenDigit(n, 1) + 128 * LenDigit(n, 2) + 16384 * LenDigit(n, 3)
            + 2097152 * LenDigit(n, 4)
  BY <1>7, <1>8, Weights, SMT DEF RemainingLength
<1> QED
  BY <1>7, <1>9, DigitsAddUp DEF L

\* The length mqtt_message_receive computes is that of the message, for every
\* message fini_message can build, as soon as the fixed header has been read,
\* whatever part of the rest is in the buffer (mqtt_msg.c:75, 121).
THEOREM LengthRoundTrip ==
    ASSUME NEW type \in 0..15, NEW qos \in 0..3,
           NEW rest \in Seq(Byte), Len(rest) <= MaxRemaining,
           NEW read \in Nat, read > LenBytes(Len(rest)),
           read <= Len(fini_message(type, qos, rest))
    PROVE  LET message == fini_message(type, qos, rest)
               buffer == SubSeq(message, 1, read)
           IN /\ mqtt_get_total_length(buffer) = Len(message)
              /\ FixedHeaderLen(buffer) = LenBytes(Len(rest)) + 1
<1> DEFINE message == fini_message(type, qos, rest)
           buffer == SubSeq(message, 1, read)
           n == Len(rest)
           E == EncodedLens(n)
<1>1. n \in Nat /\ n <= MaxRemaining
  OBVIOUS
<1>2. E \in Seq(Byte) /\ Len(E) = LenBytes(n) /\ LenBytes(n) \in 1..4
  BY <1>1, EncodedLensType, LenBytesType
<1>3. message = <<16 * type + 2 * qos>> \o E \o rest
  BY DEF fini_message
<1>4. 16 * type + 2 * qos \in Byte
  BY SMT DEF Byte
<1>5. message \in Seq(Byte) /\ Len(message) = 1 + LenBytes(n) + n
  BY <1>2, <1>3, <1>4
<1>6. \A k \in 1..LenBytes(n) : message[k + 1] = E[k]
  BY <1>2, <1>3, <1>4
<1>7. buffer \in Seq(Byte) /\ Len(buffer) = read
  BY <1>5
<1>8. \A k \in 1..LenBytes(n) : buffer[k + 1] = E[k]
  BY <1>2, <1>5, <1>6
<1>9. FixedHeaderLen(buffer) = LenBytes(n) + 1 /\ RemainingLength(buffer) = n
  <2>1. Len(buffer) \in Nat /\ Len(buffer) > LenBytes(n)
    BY <1>2, <1>7
  <2> QED
    BY <1>1, <1>8, <2>1, HeaderDecides
<1> QED
  BY <1>2, <1>5, <1>9, SMT DEF mqtt_get_total_length

---------------------------------------------------------------------------
\* What is in a message that mqtt_msg.c built.

\* A message as mqtt_message_receive finds its end: h bytes of fixed header,
\* of which only the last ends the remaining length, and from there on every
\* part of the message tells how long it is.
Framed(g, h) ==
    /\ g \in Seq(Byte) /\ h \in 2..5 /\ h <= Len(g)
    /\ \A k \in 2..(h - 1) : g[k] >= 128
    /\ g[h] < 128
    /\ \A read \in h..Len(g) :
          LET buffer == SubSeq(g, 1, read)
          IN FixedHeaderLen(buffer) = h /\ mqtt_get_total_length(buffer) = Len(g)

\* Of the bytes of a length only the last is below 128.
LEMMA DigitsType ==
    ASSUME NEW n \in Nat
    PROVE  \A k \in 1..LenBytes(n) :
              /\ EncodedLens(n)[k] \in Byte
              /\ k < LenBytes(n) => EncodedLens(n)[k] >= 128
              /\ k = LenBytes(n) => EncodedLens(n)[k] < 128
<1> TAKE k \in 1..LenBytes(n)
<1>1. LenBytes(n) \in 1..4
  BY LenBytesType
<1>2. LenDigit(n, k) \in 0..127
  BY <1>1, LenDigitType
<1>3. EncodedLens(n)[k] = LenDigit(n, k) + IF k < LenBytes(n) THEN 128 ELSE 0
  BY DEF EncodedLens
<1> QED
  BY <1>1, <1>2, <1>3 DEF Byte

\* u is s and then t, byte by byte.
Joins(u, s, t) ==
    /\ u \in Seq(Byte) /\ Len(u) = Len(s) + Len(t)
    /\ \A i \in 1..Len(s) : u[i] = s[i]
    /\ \A i \in 1..Len(t) : u[Len(s) + i] = t[i]

\* So it is with \o.
LEMMA Joined ==
    ASSUME NEW s \in Seq(Byte), NEW t \in Seq(Byte)
    PROVE  Joins(s \o t, s, t)
BY DEF Joins

\* g is a first byte, L bytes of length, and the rest.
Written(g, L, type, qos, rest) ==
    /\ g \in Seq(Byte)
    /\ L \in 1..4
    /\ Len(g) = 1 + L + Len(rest)
    /\ g[1] = 16 * type + 2 * qos
    /\ \A k \in 1..L : g[1 + k] = EncodedLens(Len(rest))[k]
    /\ \A j \in 1..Len(rest) : g[1 + L + j] = rest[j]

\* What fini_message writes, byte by byte.
LEMMA FiniWrites ==
    ASSUME NEW type \in 0..15, NEW qos \in 0..3, NEW rest \in Seq(Byte)
    PROVE  Written(fini_message(type, qos, rest), LenBytes(Len(rest)), type, qos, rest)
<1> DEFINE E == EncodedLens(Len(rest))
           L == LenBytes(Len(rest))
           b == 16 * type + 2 * qos
           g == fini_message(type, qos, rest)
<1>1. E \in Seq(Byte) /\ Len(E) = L /\ L \in 1..4
  BY EncodedLensType, LenBytesType
<1>2. b \in Byte
  BY DEF Byte
<1>3. g = (<<b>> \o E) \o rest
  BY DEF fini_message
<1> HIDE DEF E, L, b, g
<1> DEFINE s == <<b>> \o E
<1>4. /\ s \in Seq(Byte) /\ Len(s) = 1 + L
      /\ s[1] = b /\ \A k \in 1..L : s[1 + k] = E[k]
  BY <1>1, <1>2
<1>5. g = s \o rest
  BY <1>3
<1> HIDE DEF s
<1>6. /\ g \in Seq(Byte) /\ Len(g) = 1 + L + Len(rest)
      /\ \A k \in 1..(1 + L) : g[k] = s[k]
      /\ \A j \in 1..Len(rest) : g[1 + L + j] = rest[j]
  BY <1>1, <1>4, <1>5
<1>7. g[1] = b /\ \A k \in 1..L : g[1 + k] = E[k]
  <2>1. \A k \in 1..L : 1 + k \in 1..(1 + L)
    BY <1>1
  <2>2. 1 \in 1..(1 + L)
    BY <1>1
  <2> QED
    BY <1>4, <1>6, <2>1, <2>2
<1> QED
  BY <1>1, <1>6, <1>7 DEF E, L, b, g, Written

\* A part of what fini_message writes that holds the fixed header tells how long
\* the message is.
LEMMA FiniFramed ==
    ASSUME NEW type \in 0..15, NEW qos \in 0..3,
           NEW rest \in Seq(Byte), Len(rest) <= MaxRemaining
    PROVE  Framed(fini_message(type, qos, rest), LenBytes(Len(rest)) + 1)
<1> DEFINE g == fini_message(type, qos, rest)
           L == LenBytes(Len(rest))
<1>1. /\ g \in Seq(Byte)
      /\ L \in 1..4
      /\ Len(g) = 1 + L + Len(rest)
      /\ \A k \in 1..L : g[1 + k] = EncodedLens(Len(rest))[k]
  BY FiniWrites DEF Written
<1>2. \A read \in (L + 1)..Len(g) :
         LET buffer == SubSeq(g, 1, read)
         IN FixedHeaderLen(buffer) = L + 1 /\ mqtt_get_total_length(buffer) = Len(g)
  <2> TAKE read \in (L + 1)..Len(g)
  <2>1. read \in Nat /\ read > L /\ read <= Len(g)
    BY <1>1
  <2> QED
    BY <2>1, LengthRoundTrip
<1>3. \A k \in 1..L : /\ k < L => EncodedLens(Len(rest))[k] >= 128
                      /\ k = L => EncodedLens(Len(rest))[k] < 128
  BY DigitsType
<1> HIDE DEF g, L
<1>4. \A k \in 2..((L + 1) - 1) : g[k] >= 128
  <2> TAKE k \in 2..((L + 1) - 1)
  <2>1. k - 1 \in 1..L /\ k - 1 < L /\ 1 + (k - 1) = k
    BY <1>1
  <2> QED
    BY <1>1, <1>3, <2>1
<1>5. g[L + 1] < 128
  <2>1. L \in 1..L /\ 1 + L = L + 1
    BY <1>1
  <2> QED
    BY <1>1, <1>3, <2>1
<1>6. L + 1 \in 2..5 /\ L + 1 <= Len(g)
  <2>1. Len(rest) \in Nat
    OBVIOUS
  <2> QED
    BY <1>1, <2>1
<1> QED
  BY <1>1, <1>2, <1>4, <1>5, <1>6 DEF Framed, g, L

\* Where a part of a message agrees with the message.
LEMMA PartAgrees ==
    ASSUME NEW g \in Seq(Byte), NEW read \in 0..Len(g)
    PROVE  /\ SubSeq(g, 1, read) \in Seq(Byte)
           /\ Len(SubSeq(g, 1, read)) = read
           /\ \A i \in 1..read : SubSeq(g, 1, read)[i] = g[i]
OBVIOUS

\* The functions that look for the end of the header in the whole buffer find
\* the same end.
LEMMA SameHeader ==
    ASSUME NEW g, NEW h, Framed(g, h), NEW read \in h..Len(g)
    PROVE  HeaderOf(SubSeq(g, 1, read)) = h
<1> DEFINE buffer == SubSeq(g, 1, read)
           last == {i \in 1..(read - 1) : i < read /\ buffer[i + 1] < 128}
<1>1. g \in Seq(Byte) /\ h \in 2..5 /\ Len(g) \in Nat /\ read \in 0..Len(g) /\ read >= h
  BY DEF Framed
<1>2. Len(buffer) = read /\ \A i \in 1..read : buffer[i] = g[i]
  BY <1>1, PartAgrees
<1>3. last \in SUBSET Nat
  OBVIOUS
<1>4. h - 1 \in last
  <2>1. buffer[h] < 128
    BY <1>1, <1>2 DEF Framed
  <2>2. h - 1 \in 1..(read - 1) /\ h - 1 < read /\ (h - 1) + 1 = h
    BY <1>1
  <2> QED
    BY <2>1, <2>2
<1>5. \A i \in last : h - 1 <= i
  <2> SUFFICES ASSUME NEW i \in last, i < h - 1 PROVE FALSE
    BY <1>1
  <2>1. i + 1 \in 2..(h - 1) /\ i + 1 \in 1..read /\ i + 1 \in 1..Len(g)
    BY <1>1
  <2>2. g[i + 1] >= 128 /\ buffer[i + 1] = g[i + 1]
    BY <1>2, <2>1 DEF Framed
  <2>3. g[i + 1] \in 0..255
    BY <1>1, <2>1, ElementOfSeq DEF Byte
  <2>4. g[i + 1] < 128
    BY <2>2, Zenon
  <2>5. \A v \in 0..255 : ~(v >= 128 /\ v < 128)
    OBVIOUS
  <2> QED
    BY <2>2, <2>3, <2>4, <2>5, Zenon
<1> HIDE DEF last
<1>6. Min(last) = h - 1
  BY <1>3, <1>4, <1>5, MinIs
<1>7. HeaderOf(buffer) = Min(last) + 1
  BY <1>2, <1>4 DEF HeaderOf, HeaderLen, last
<1> QED
  BY <1>1, <1>6, <1>7

\* Type and QoS of the first byte.
LEMMA FirstByte ==
    ASSUME NEW type \in 0..15, NEW qos \in 0..3,
           NEW buffer, buffer[1] = 16 * type + 2 * qos
    PROVE  mqtt_get_type(buffer) = type /\ mqtt_get_qos(buffer) = qos
<1>1. (16 * type + 2 * qos) \div 16 = type
  OBVIOUS
<1>2. (16 * type + 2 * qos) \div 2 = 8 * type + qos
  OBVIOUS
<1>3. (8 * type + qos) % 4 = qos
  OBVIOUS
<1> QED
  BY <1>1, <1>2, <1>3 DEF mqtt_get_type, mqtt_get_qos

MaxWord == 65535

\* A number of two bytes.
LEMMA WordIs ==
    ASSUME NEW n \in Nat, n <= MaxWord
    PROVE  /\ Word(n) \in Seq(Byte) /\ Len(Word(n)) = 2
           /\ 256 * Word(n)[1] + Word(n)[2] = n
<1>1. n \div 256 \in Byte /\ n % 256 \in Byte /\ 256 * (n \div 256) + (n % 256) = n
  BY SMT DEF Byte, MaxWord
<1> QED
  BY <1>1, SMT DEF Word

\* A message as a whole is a part of itself.
LEMMA WholeHeader ==
    ASSUME NEW g, NEW h, Framed(g, h)
    PROVE  FixedHeaderLen(g) = h /\ mqtt_get_total_length(g) = Len(g)
<1>1. g \in Seq(Byte) /\ Len(g) \in h..Len(g)
  BY DEF Framed
<1>2. SubSeq(g, 1, Len(g)) = g
  BY <1>1, SubSeqFull
<1> QED
  BY <1>1, <1>2 DEF Framed

\* How many bytes the identifier takes.
IdLen(qos) == IF qos > 0 THEN 2 ELSE 0

\* What mqtt_msg_publish hands to fini_message.
PublishBody(topic, data, qos, id) ==
    LET header == append_string(<<>>, topic)
    IN (IF qos > 0 THEN append_message_id(header, id) ELSE header) \o data

\* From its byte h + 1 on, g is the topic with its length, the identifier
\* and the data of a PUBLISH.
HasBody(g, h, topic, data, qos, id) ==
    LET T == Len(topic)
    IN /\ g \in Seq(Byte)
       /\ Len(g) = h + 2 + T + IdLen(qos) + Len(data)
       /\ TopicLen(g, h) = T
       /\ \A i \in 1..T : g[h + 2 + i] = topic[i]
       /\ qos > 0 => TopicLen(g, h + 2 + T) = id
       /\ \A i \in 1..Len(data) : g[h + 2 + T + IdLen(qos) + i] = data[i]

\* It consists of its parts.
LEMMA BodyParts ==
    ASSUME NEW topic \in Seq(Byte), Len(topic) <= MaxWord, NEW data \in Seq(Byte),
           NEW qos \in 0..3, NEW id \in Nat, id <= MaxWord
    PROVE  HasBody(PublishBody(topic, data, qos, id), 0, topic, data, qos, id)
<1> DEFINE T == Len(topic)
           W == Word(T)
           I == IF qos > 0 THEN Word(id) ELSE <<>>
           a == W \o topic
           c == a \o I
           b == c \o data
<1>1. T \in Nat /\ T <= MaxWord /\ Len(data) \in Nat
  OBVIOUS
<1>2. Len(topic) = T
  OBVIOUS
<1> HIDE DEF T
<1>3. W \in Seq(Byte) /\ Len(W) = 2 /\ 256 * W[1] + W[2] = T
  BY <1>1, WordIs, Zenon
<1>4. qos > 0 => I = Word(id) /\ IdLen(qos) = 2
  BY DEF IdLen
<1>5. ~(qos > 0) => I = <<>> /\ IdLen(qos) = 0
  BY DEF IdLen
<1> HIDE DEF W, I
<1>6. /\ I \in Seq(Byte) /\ Len(I) = IdLen(qos) /\ IdLen(qos) \in {0, 2}
      /\ qos > 0 => 256 * I[1] + I[2] = id
  <2>1. ASSUME qos > 0
        PROVE  /\ I \in Seq(Byte) /\ Len(I) = IdLen(qos) /\ IdLen(qos) \in {0, 2}
               /\ 256 * I[1] + I[2] = id
    BY <1>4, <2>1, WordIs, Zenon
  <2>2. ASSUME ~(qos > 0)
        PROVE  I \in Seq(Byte) /\ Len(I) = IdLen(qos) /\ IdLen(qos) \in {0, 2}
    BY <1>5, <2>2, EmptySeq, Zenon
  <2> QED
    BY <2>1, <2>2, Zenon
<1>7. b = PublishBody(topic, data, qos, id)
  <2>1. a \in Seq(Byte)
    BY <1>3
  <2>2. <<>> \o W = W /\ a \o <<>> = a
    BY <1>3, <2>1, ConcatEmptySeq, Zenon
  <2>3. append_string(<<>>, topic) = a
    BY <1>2, <2>2, Zenon DEF append_string, W
  <2>4. CASE qos > 0
    BY <1>4, <2>3, <2>4, Zenon DEF PublishBody, append_message_id
  <2>5. CASE ~(qos > 0)
    BY <1>5, <2>2, <2>3, <2>5, Zenon DEF PublishBody
  <2> QED
    BY <2>4, <2>5, Zenon
<1>8. Joins(a, W, topic)
  BY <1>3, Joined, Zenon
<1> HIDE DEF a
<1>9. Joins(c, a, I)
  BY <1>6, <1>8, Joined, Zenon DEF Joins
<1> HIDE DEF c
<1>10. Joins(b, c, data)
  BY <1>9, Joined, Zenon DEF Joins
<1> HIDE DEF b
<1>11. Len(a) = 2 + T /\ Len(c) = 2 + T + IdLen(qos) /\ b \in Seq(Byte)
       /\ Len(b) = 2 + T + IdLen(qos) + Len(data)
  BY <1>2, <1>3, <1>6, <1>8, <1>9, <1>10, Zenon DEF Joins
<1>12. \A i \in 1..(2 + T) : b[i] = a[i]
  <2>1. \A i \in 1..(2 + T) : i \in 1..(2 + T + IdLen(qos))
    BY <1>1, <1>6
  <2> QED
    BY <1>9, <1>10, <1>11, <2>1, Zenon DEF Joins
<1>13. b[1] = W[1] /\ b[2] = W[2] /\ \A i \in 1..T : b[2 + i] = topic[i]
  <2>1. /\ 1 \in 1..(2 + T) /\ 2 \in 1..(2 + T) /\ \A i \in 1..T : 2 + i \in 1..(2 + T)
        /\ 1 \in 1..2 /\ 2 \in 1..2
    BY <1>1
  <2>2. a[1] = W[1] /\ a[2] = W[2] /\ \A i \in 1..T : a[2 + i] = topic[i]
    BY <1>2, <1>3, <1>8, <2>1 DEF Joins
  <2> QED
    BY <1>12, <2>1, <2>2
<1>14. qos > 0 => 256 * b[2 + T + 1] + b[2 + T + 2] = id
  <2> SUFFICES ASSUME qos > 0 PROVE 256 * b[2 + T + 1] + b[2 + T + 2] = id
    OBVIOUS
  <2>1. 1 \in 1..Len(I) /\ 2 \in 1..Len(I)
    BY <1>4, <1>6
  <2>2. 2 + T + 1 \in 1..(2 + T + IdLen(qos)) /\ 2 + T + 2 \in 1..(2 + T + IdLen(qos))
    BY <1>1, <1>4
  <2>3. c[2 + T + 1] = I[1] /\ c[2 + T + 2] = I[2]
    BY <1>9, <1>11, <2>1, Zenon DEF Joins
  <2>4. b[2 + T + 1] = c[2 + T + 1] /\ b[2 + T + 2] = c[2 + T + 2]
    BY <1>10, <1>11, <2>2, Zenon DEF Joins
  <2> QED
    BY <1>6, <2>3, <2>4, Zenon
<1>15. 256 * b[1] + b[2] = T
  BY <1>3, <1>13, Zenon
<1>16. \A i \in 1..Len(data) : b[2 + T + IdLen(qos) + i] = data[i]
  BY <1>10, <1>11, Zenon DEF Joins
<1>17. HasBody(b, 0, topic, data, qos, id)
  <2>1. 0 + 1 = 1 /\ 0 + 2 = 2
    OBVIOUS
  <2> QED
    BY <1>2, <1>11, <1>13, <1>14, <1>15, <1>16, <2>1, Zenon DEF HasBody, TopicLen
<1> QED
  BY <1>7, <1>17, Zenon

\* A message with its header begins where that ends.
LEMMA BodyMoves ==
    ASSUME NEW topic \in Seq(Byte), NEW data \in Seq(Byte), NEW qos \in 0..3, NEW id,
           NEW b, HasBody(b, 0, topic, data, qos, id),
           NEW h \in Nat, NEW g \in Seq(Byte), Len(g) = h + Len(b),
           \A j \in 1..Len(b) : g[h + j] = b[j]
    PROVE  HasBody(g, h, topic, data, qos, id)
<1> DEFINE T == Len(topic)
           D == Len(data)
           q == IdLen(qos)
           B == Len(b)
<1>1. T \in Nat /\ D \in Nat /\ q \in {0, 2} /\ (qos > 0 => q = 2)
  BY DEF IdLen
<1>2. /\ B = 0 + 2 + T + q + D
      /\ TopicLen(b, 0) = T
      /\ \A i \in 1..T : b[0 + 2 + i] = topic[i]
      /\ qos > 0 => TopicLen(b, 0 + 2 + T) = id
      /\ \A i \in 1..D : b[0 + 2 + T + q + i] = data[i]
  BY DEF HasBody
<1> HIDE DEF T, D, q, B
<1>3. B = 2 + T + q + D /\ Len(g) = h + 2 + T + q + D
  BY <1>1, <1>2 DEF B
<1>4. \A j \in Nat : j > 0 /\ j <= B => g[h + j] = b[j]
  BY <1>1, <1>3 DEF B
<1>5. TopicLen(g, h) = T
  <2>1. 1 \in Nat /\ 2 \in Nat /\ 1 <= B /\ 2 <= B /\ 1 > 0 /\ 2 > 0 /\ 0 + 1 = 1 /\ 0 + 2 = 2
    BY <1>1, <1>3
  <2>2. g[h + 1] = b[1] /\ g[h + 2] = b[2]
    BY <1>4, <2>1, Zenon
  <2> QED
    BY <1>2, <2>1, <2>2, Zenon DEF TopicLen
<1>6. \A i \in 1..T : g[h + 2 + i] = topic[i]
  <2> TAKE i \in 1..T
  <2>1. 2 + i \in Nat /\ 2 + i > 0 /\ 2 + i <= B /\ h + (2 + i) = h + 2 + i /\ 0 + 2 + i = 2 + i
    BY <1>1, <1>3
  <2>2. g[h + (2 + i)] = b[2 + i]
    BY <1>4, <2>1, Zenon
  <2> QED
    BY <1>2, <2>1, <2>2, Zenon
<1>7. qos > 0 => TopicLen(g, h + 2 + T) = id
  <2> SUFFICES ASSUME qos > 0 PROVE TopicLen(g, h + 2 + T) = id
    OBVIOUS
  <2>1. /\ 2 + T + 1 \in Nat /\ 2 + T + 1 > 0 /\ 2 + T + 1 <= B
        /\ h + (2 + T + 1) = h + 2 + T + 1 /\ 0 + 2 + T + 1 = 2 + T + 1
    BY <1>1, <1>3
  <2>2. /\ 2 + T + 2 \in Nat /\ 2 + T + 2 > 0 /\ 2 + T + 2 <= B
        /\ h + (2 + T + 2) = h + 2 + T + 2 /\ 0 + 2 + T + 2 = 2 + T + 2
    BY <1>1, <1>3
  <2>3. g[h + (2 + T + 1)] = b[2 + T + 1] /\ g[h + (2 + T + 2)] = b[2 + T + 2]
    BY <1>4, <2>1, <2>2, Zenon
  <2>4. TopicLen(b, 0 + 2 + T) = 256 * b[2 + T + 1] + b[2 + T + 2]
    BY <2>1, <2>2, Zenon DEF TopicLen
  <2>5. TopicLen(g, h + 2 + T) = 256 * b[2 + T + 1] + b[2 + T + 2]
    BY <2>1, <2>2, <2>3, Zenon DEF TopicLen
  <2> QED
    BY <1>2, <2>4, <2>5, Zenon
<1>8. \A i \in 1..D : g[h + 2 + T + q + i] = data[i]
  <2> TAKE i \in 1..D
  <2>1. /\ 2 + T + q + i \in Nat /\ 2 + T + q + i > 0 /\ 2 + T + q + i <= B
        /\ h + (2 + T + q + i) = h + 2 + T + q + i
        /\ 0 + 2 + T + q + i = 2 + T + q + i
    BY <1>1, <1>3
  <2>2. g[h + (2 + T + q + i)] = b[2 + T + q + i]
    BY <1>4, <2>1, Zenon
  <2> QED
    BY <1>2, <2>1, <2>2, Zenon
<1> QED
  BY <1>3, <1>5, <1>6, <1>7, <1>8, Zenon DEF HasBody, T, D, q

\* A PUBLISH consists of a fixed header and these parts.
LEMMA PublishParts ==
    ASSUME NEW topic \in Seq(Byte), Len(topic) <= MaxWord, NEW data \in Seq(Byte),
           NEW qos \in 0..3, NEW id \in Nat, id <= MaxWord,
           2 + Len(topic) + IdLen(qos) + Len(data) <= MaxRemaining
    PROVE  LET g == mqtt_msg_publish(topic, data, qos, id)
               h == FixedHeaderLen(g)
           IN /\ Framed(g, h)
              /\ g[1] = 16 * PUBLISH + 2 * qos
              /\ HasBody(g, h, topic, data, qos, id)
<1> DEFINE b == PublishBody(topic, data, qos, id)
           g == mqtt_msg_publish(topic, data, qos, id)
           L == LenBytes(Len(b))
<1>1. HasBody(b, 0, topic, data, qos, id)
  BY BodyParts, Zenon
<1>2. g = fini_message(PUBLISH, qos, b)
  BY Zenon DEF mqtt_msg_publish, PublishBody
<1>3. PUBLISH \in 0..15
  BY DEF PUBLISH
<1>4. b \in Seq(Byte) /\ Len(b) <= MaxRemaining
  <2>1. b \in Seq(Byte) /\ Len(b) = 0 + 2 + Len(topic) + IdLen(qos) + Len(data)
    BY <1>1, Zenon DEF HasBody
  <2> HIDE DEF b
  <2>2. 0 + 2 = 2
    OBVIOUS
  <2> QED
    BY <2>1, <2>2, Zenon
<1> HIDE DEF b, g
<1>5. Framed(g, L + 1)
  BY <1>2, <1>3, <1>4, FiniFramed
<1>6. Written(g, L, PUBLISH, qos, b)
  BY <1>2, <1>3, <1>4, FiniWrites
<1> HIDE DEF L
<1>7. FixedHeaderLen(g) = L + 1
  BY <1>5, WholeHeader
<1>8. HasBody(g, L + 1, topic, data, qos, id)
  <2>1. L \in 1..4 /\ g \in Seq(Byte) /\ Len(g) = 1 + L + Len(b) /\ Len(b) \in Nat
        /\ \A j \in 1..Len(b) : g[1 + L + j] = b[j]
    BY <1>4, <1>6 DEF Written
  <2>2. L + 1 \in Nat /\ 1 + L = L + 1
    BY <2>1
  <2> QED
    BY <1>1, <2>1, <2>2, BodyMoves, Zenon
<1> QED
  BY <1>5, <1>6, <1>7, <1>8, Zenon DEF g, Written

\* Where a part in the middle agrees with the sequence.
LEMMA PartOf ==
    ASSUME NEW s \in Seq(Byte), NEW a \in Nat, NEW n \in Nat, a + n <= Len(s)
    PROVE  /\ SubSeq(s, a + 1, a + n) \in Seq(Byte)
           /\ Len(SubSeq(s, a + 1, a + n)) = n
           /\ \A i \in 1..n : SubSeq(s, a + 1, a + n)[i] = s[a + i]
<1>1. a + 1 \in Nat /\ a + 1 > 0 /\ a + n \in Nat
  OBVIOUS
<1>2. /\ SubSeq(s, a + 1, a + n) \in Seq(Byte)
      /\ Len(SubSeq(s, a + 1, a + n)) = IF a + 1 <= a + n THEN (a + n) - (a + 1) + 1 ELSE 0
  OBVIOUS
<1>3. \A i \in 1..n : SubSeq(s, a + 1, a + n)[i] = s[(a + 1) + i - 1]
  OBVIOUS
<1>4. (a + n) - (a + 1) + 1 = n /\ (a + 1 <= a + n <=> n # 0)
  OBVIOUS
<1>5. \A i \in 1..n : (a + 1) + i - 1 = a + i
  OBVIOUS
<1> QED
  BY <1>2, <1>3, <1>4, <1>5, Zenon

\* What mqtt_msg.c gets from the first read bytes of a PUBLISH, at least its
\* fixed header: the identifier and the beginning of the data as soon as they
\* are there.
ReadsPublish(g, h, read, topic, data, qos, id) ==
    LET buffer == SubSeq(g, 1, read)
        afterTopic == h + 2 + Len(topic)
        start == afterTopic + IdLen(qos)
    IN /\ mqtt_get_type(buffer) = PUBLISH
       /\ mqtt_get_qos(buffer) = qos
       /\ read >= h + 2 => TopicLen(buffer, h) = Len(topic)
       /\ HasTopic(buffer) <=> read > h + 2 /\ read >= afterTopic
       /\ HasTopic(buffer) => mqtt_get_publish_topic(buffer) = topic
       /\ HasTopic(buffer) /\ read >= start =>
             /\ mqtt_get_id(buffer, Len(g)) = (IF qos > 0 THEN id ELSE 0)
             /\ mqtt_get_publish_data(buffer) = SubSeq(data, 1, read - start)

\* The functions of mqtt_msg.c read what mqtt_msg_publish wrote, also from a buffer
\* that holds only the beginning of it.
LEMMA PublishReads ==
    ASSUME NEW topic \in Seq(Byte), NEW data \in Seq(Byte),
           NEW qos \in 0..3, NEW id, NEW g, NEW h, Framed(g, h),
           g[1] = 16 * PUBLISH + 2 * qos, HasBody(g, h, topic, data, qos, id),
           NEW read \in h..Len(g)
    PROVE  ReadsPublish(g, h, read, topic, data, qos, id)
<1> DEFINE buffer == SubSeq(g, 1, read)
           T == Len(topic)
           D == Len(data)
           q == IdLen(qos)
           afterTopic == h + 2 + T
           start == afterTopic + q
<1>1. /\ g \in Seq(Byte) /\ h \in 2..5 /\ Len(g) \in Nat
      /\ read \in 0..Len(g) /\ read \in Nat /\ h <= read /\ read <= Len(g)
  BY DEF Framed
<1>2. T \in Nat /\ D \in Nat /\ q \in {0, 2} /\ (qos > 0 => q = 2) /\ (~(qos > 0) => q = 0)
  BY DEF IdLen
<1>3. buffer \in Seq(Byte) /\ Len(buffer) = read /\ \A i \in 1..read : buffer[i] = g[i]
  BY <1>1, PartAgrees, Zenon
<1>4. FixedHeaderLen(buffer) = h /\ mqtt_get_total_length(buffer) = Len(g)
  BY DEF Framed
<1>5. HeaderOf(buffer) = h
  BY SameHeader, Zenon
<1>6. mqtt_get_type(buffer) = PUBLISH /\ mqtt_get_qos(buffer) = qos
  <2>1. 1 \in 1..read
    BY <1>1
  <2>2. buffer[1] = 16 * PUBLISH + 2 * qos
    BY <1>3, <2>1, Zenon
  <2>3. PUBLISH \in 0..15
    BY DEF PUBLISH
  <2> QED
    BY <2>2, <2>3, FirstByte, Zenon
<1>7. /\ Len(g) = h + 2 + T + q + D
      /\ TopicLen(g, h) = T
      /\ \A i \in 1..T : g[h + 2 + i] = topic[i]
      /\ qos > 0 => TopicLen(g, afterTopic) = id
      /\ \A i \in 1..D : g[start + i] = data[i]
  BY Zenon DEF HasBody
<1> HIDE DEF buffer, T, D, q
<1>8. read >= h + 2 => TopicLen(buffer, h) = T
  <2> HAVE read >= h + 2
  <2>1. h + 1 \in 1..read /\ h + 2 \in 1..read
    BY <1>1
  <2> QED
    BY <1>3, <1>7, <2>1, Zenon DEF TopicLen
<1>9. HasTopic(buffer) <=> read > h + 2 /\ read >= afterTopic
  <2>1. HasTopic(buffer) <=> h + 2 < read /\ h + 2 + TopicLen(buffer, h) <= read
    BY <1>3, <1>5, Zenon DEF HasTopic
  <2>2. CASE h + 2 < read
    <3>1. TopicLen(buffer, h) = T
      BY <1>1, <1>8, <2>2
    <3> QED
      BY <1>1, <1>2, <2>1, <2>2, <3>1
  <2>3. CASE ~(h + 2 < read)
    BY <1>1, <2>1, <2>3
  <2> QED
    BY <2>2, <2>3
<1>10. HasTopic(buffer) => mqtt_get_publish_topic(buffer) = topic
  <2> SUFFICES ASSUME HasTopic(buffer) PROVE mqtt_get_publish_topic(buffer) = topic
    OBVIOUS
  <2>1. read > h + 2 /\ afterTopic <= read /\ TopicLen(buffer, h) = T
    BY <1>1, <1>2, <1>8, <1>9
  <2> DEFINE a == h + 2
             part == SubSeq(buffer, a + 1, a + T)
  <2>2. mqtt_get_publish_topic(buffer) = part
    <3>1. h + 3 = a + 1
      BY <1>1
    <3> QED
      BY <1>5, <2>1, <3>1, Zenon DEF mqtt_get_publish_topic
  <2>3. a \in Nat /\ a + T <= read
    BY <1>1, <2>1
  <2>4. part \in Seq(Byte) /\ Len(part) = T /\ \A i \in 1..T : part[i] = buffer[a + i]
    <3> HIDE DEF a
    <3> QED
      BY <1>2, <1>3, <2>3, PartOf, Zenon
  <2>5. \A i \in 1..T : buffer[a + i] = topic[i]
    <3> TAKE i \in 1..T
    <3>1. a + i \in 1..read
      BY <1>1, <1>2, <2>3
    <3> QED
      BY <1>3, <1>7, <3>1, Zenon
  <2> HIDE DEF part, a
  <2>6. \A i \in 1..Len(part) : part[i] = topic[i]
    BY <2>4, <2>5, Zenon
  <2>7. Len(part) = Len(topic)
    BY <2>4, Zenon DEF T
  <2>8. part = topic
    BY <2>4, <2>6, <2>7, SeqEqual, Zenon
  <2> QED
    BY <2>2, <2>8
<1>11. HasTopic(buffer) /\ read >= start =>
          mqtt_get_id(buffer, Len(g)) = (IF qos > 0 THEN id ELSE 0)
  <2> SUFFICES ASSUME HasTopic(buffer), read >= start
               PROVE  mqtt_get_id(buffer, Len(g)) = (IF qos > 0 THEN id ELSE 0)
    OBVIOUS
  <2>1. read > h + 2 /\ afterTopic <= read /\ TopicLen(buffer, h) = T
    BY <1>1, <1>2, <1>8, <1>9
  <2>2. mqtt_get_id(buffer, Len(g))
          = IF qos > 0 /\ h + 2 < Len(g) /\ afterTopic + 2 <= Len(g)
            THEN TopicLen(buffer, afterTopic) ELSE 0
    BY <1>5, <1>6, <2>1 DEF mqtt_get_id, PUBLISH
  <2>3. CASE qos > 0
    <3>1. /\ h + 2 < Len(g) /\ afterTopic + 2 <= Len(g)
          /\ afterTopic + 1 \in 1..read /\ afterTopic + 2 \in 1..read
      BY <1>1, <1>2, <2>1, <2>3
    <3>2. TopicLen(buffer, afterTopic) = TopicLen(g, afterTopic)
      BY <1>3, <3>1, Zenon DEF TopicLen
    <3> QED
      BY <1>7, <2>2, <2>3, <3>1, <3>2, Zenon
  <2>4. CASE ~(qos > 0)
    BY <2>2, <2>4, Zenon
  <2> QED
    BY <2>3, <2>4
<1>12. HasTopic(buffer) /\ read >= start =>
          mqtt_get_publish_data(buffer) = SubSeq(data, 1, read - start)
  <2> SUFFICES ASSUME HasTopic(buffer), read >= start
               PROVE  mqtt_get_publish_data(buffer) = SubSeq(data, 1, read - start)
    OBVIOUS
  <2>1. /\ read > h + 2 /\ afterTopic <= read /\ TopicLen(buffer, h) = T
        /\ ~(h + 2 >= read)
    BY <1>1, <1>2, <1>8, <1>9
  <2> DEFINE n == read - start
             part == SubSeq(data, 0 + 1, 0 + n)
             null == \/ h + 2 >= read
                     \/ afterTopic >= read
                     \/ start > afterTopic /\ start >= read
                     \/ Len(g) < start
  <2>2. n \in Nat /\ 0 + n <= D /\ 0 + 1 = 1 /\ 0 + n = n /\ start + n = read /\ start \in Nat
    BY <1>1, <1>2, <1>7, <2>1
  <2>3. part \in Seq(Byte) /\ Len(part) = n /\ \A i \in 1..n : part[i] = data[0 + i]
    <3> HIDE DEF n
    <3>1. 0 \in Nat
      OBVIOUS
    <3> QED
      BY <2>2, <3>1, PartOf, Zenon DEF D
  <2>4. mqtt_get_publish_data(buffer)
          = IF null THEN <<>> ELSE SubSeq(buffer, start + 1, Min({Len(g), read}))
    BY <1>3, <1>4, <1>6, <2>1, Zenon DEF mqtt_get_publish_data, q, IdLen
  <2>5. CASE null
    <3>1. n = 0
      BY <1>1, <1>2, <1>7, <2>1, <2>2, <2>5
    <3>2. part = <<>>
      <4> HIDE DEF part, n
      <4> QED
        BY <2>3, <3>1, EmptySeq
    <3> HIDE DEF part, null
    <3> QED
      BY <2>2, <2>4, <2>5, <3>2, Zenon DEF part
  <2>6. CASE ~null
    <3>1. Min({Len(g), read}) = read
      <4>1. {Len(g), read} \in SUBSET Nat /\ read \in {Len(g), read}
            /\ \A y \in {Len(g), read} : read <= y
        BY <1>1
      <4> QED
        BY <4>1, MinIs, Zenon
    <3> DEFINE p == SubSeq(buffer, start + 1, start + n)
    <3>2. mqtt_get_publish_data(buffer) = p
      <4> HIDE DEF null, start, n
      <4> QED
        BY <2>2, <2>4, <2>6, <3>1, Zenon
    <3>3. p \in Seq(Byte) /\ Len(p) = n /\ \A i \in 1..n : p[i] = buffer[start + i]
      <4>1. start + n <= Len(buffer)
        BY <1>1, <1>3, <2>2
      <4> HIDE DEF start, n
      <4> QED
        BY <1>3, <2>2, <4>1, PartOf, Zenon
    <3>4. \A i \in 1..n : start + i \in 1..read /\ i \in 1..D /\ 0 + i = i
      <4> HIDE DEF start, n
      <4> QED
        BY <1>1, <1>2, <2>2
    <3> HIDE DEF p, start, n, part
    <3>5. \A i \in 1..Len(p) : p[i] = part[i]
      <4> TAKE i \in 1..Len(p)
      <4>1. i \in 1..n
        BY <3>3, Zenon
      <4>2. p[i] = g[start + i]
        BY <1>3, <3>3, <3>4, <4>1, Zenon
      <4>3. g[start + i] = data[i]
        BY <1>7, <3>4, <4>1, Zenon DEF start
      <4>4. part[i] = data[i]
        BY <2>3, <3>4, <4>1, Zenon
      <4> QED
        BY <4>2, <4>3, <4>4, Zenon
    <3>6. p = part
      BY <2>3, <3>3, <3>5, SeqEqual, Zenon
    <3> QED
      BY <2>2, <3>2, <3>6, Zenon DEF part, n
  <2> QED
    BY <2>5, <2>6, Zenon
<1> QED
  BY <1>6, <1>8, <1>9, <1>10, <1>11, <1>12, Zenon DEF ReadsPublish, T, q, buffer

\* A length below 128 takes one byte.
LEMMA OneByteLength ==
    ASSUME NEW n \in Nat, n < 128
    PROVE  LenBytes(n) = 1 /\ EncodedLens(n)[1] = n
<1>1. LenBytes(n) = 1
  BY SMT, Weights DEF LenBytes
<1>2. LenDigit(n, 1) = n
  <2>1. n \div 1 = n /\ n % 128 = n
    OBVIOUS
  <2> QED
    BY <2>1, Weights DEF LenDigit
<1>3. 1 \in 1..1 /\ ~(1 < 1) /\ n + 0 = n
  OBVIOUS
<1> QED
  BY <1>1, <1>2, <1>3 DEF EncodedLens

\* What the client makes of a message with an identifier and perhaps codes
\* after it: a header of two bytes comes first.
ReadsAck(g, type, data, id) ==
    /\ Framed(g, 2)
    /\ Len(g) = 4 + Len(data)
    /\ mqtt_get_id(g, Len(g)) = id
    /\ SubSeq(g, 5, Len(g)) = data

\* The identifier and the codes of an acknowledgment.
LEMMA AckReads ==
    ASSUME NEW type \in 4..11, NEW qos \in 0..3, NEW id \in Nat, id <= MaxWord,
           NEW data \in Seq(Byte), Len(data) <= 125,
           NEW g, g = fini_message(type, qos, append_message_id(<<>>, id) \o data)
    PROVE  ReadsAck(g, type, data, id)
<1> DEFINE W == Word(id)
           b == W \o data
           D == Len(data)
           L == LenBytes(Len(b))
<1>1. W \in Seq(Byte) /\ Len(W) = 2 /\ 256 * W[1] + W[2] = id
  BY WordIs, Zenon
<1>2. g = fini_message(type, qos, b)
  <2>1. <<>> \o W = W
    BY <1>1, ConcatEmptySeq, Zenon
  <2> QED
    BY <2>1, Zenon DEF append_message_id
<1> HIDE DEF W
<1>3. Joins(b, W, data)
  BY <1>1, Joined, Zenon
<1> HIDE DEF b
<1>4. b \in Seq(Byte) /\ Len(b) = 2 + D /\ D \in Nat /\ D <= 125
  <2>1. b \in Seq(Byte) /\ Len(b) = 2 + D
    BY <1>1, <1>3, Zenon DEF Joins
  <2> QED
    BY <2>1
<1>5. Len(b) \in Nat /\ Len(b) < 128
  BY <1>4
<1>6. L = 1 /\ EncodedLens(Len(b))[1] = Len(b)
  BY <1>5, OneByteLength, Zenon
<1>7. type \in 0..15 /\ Len(b) <= MaxRemaining
  BY <1>5 DEF MaxRemaining
<1>8. Written(g, L, type, qos, b)
  BY <1>2, <1>4, <1>7, FiniWrites, Zenon
<1>9. Framed(g, L + 1)
  BY <1>2, <1>4, <1>7, FiniFramed, Zenon
<1> HIDE DEF L, D
<1>10. /\ g \in Seq(Byte) /\ Len(g) = 4 + D
       /\ g[1] = 16 * type + 2 * qos
       /\ g[2] = Len(b)
       /\ \A j \in 1..Len(b) : g[2 + j] = b[j]
  <2>1. /\ g \in Seq(Byte) /\ Len(g) = 1 + L + Len(b)
        /\ g[1] = 16 * type + 2 * qos
        /\ \A k \in 1..L : g[1 + k] = EncodedLens(Len(b))[k]
        /\ \A j \in 1..Len(b) : g[1 + L + j] = b[j]
    BY <1>8, Zenon DEF Written
  <2>2. 1 + 1 = 2 /\ 1 \in 1..1
    OBVIOUS
  <2>3. Len(g) = 4 + D
    BY <1>4, <1>6, <2>1
  <2> QED
    BY <1>6, <2>1, <2>2, <2>3, Zenon
<1>11. g[3] = W[1] /\ g[4] = W[2] /\ \A j \in 1..D : g[4 + j] = data[j]
  <2>1. /\ 1 \in 1..2 /\ 2 \in 1..2 /\ 1 \in 1..Len(b) /\ 2 \in 1..Len(b)
        /\ 2 + 1 = 3 /\ 2 + 2 = 4
    BY <1>4
  <2>2. \A j \in 1..D : 2 + j \in 1..Len(b) /\ 2 + (2 + j) = 4 + j
    BY <1>4
  <2>3. b[1] = W[1] /\ b[2] = W[2] /\ \A j \in 1..D : b[2 + j] = data[j]
    BY <1>1, <1>3, <2>1, Zenon DEF Joins, D
  <2> QED
    BY <1>10, <2>1, <2>2, <2>3, Zenon
<1>12. mqtt_get_type(g) = type
  BY <1>7, <1>10, FirstByte
<1>13. mqtt_get_id(g, Len(g)) = id
  <2>1. type # PUBLISH /\ type \in {4, 5, 6, 7, 8, 9, 10, 11}
    BY DEF PUBLISH
  <2>2. Len(g) >= 4 /\ g[2] < 128
    BY <1>4, <1>5, <1>10
  <2>3. mqtt_get_id(g, Len(g)) = 256 * g[3] + g[4]
    BY <1>12, <2>1, <2>2, Zenon DEF mqtt_get_id
  <2> QED
    BY <1>1, <1>11, <2>3, Zenon
<1>14. SubSeq(g, 5, Len(g)) = data
  <2> DEFINE p == SubSeq(g, 4 + 1, 4 + D)
  <2>1. p \in Seq(Byte) /\ Len(p) = D /\ \A i \in 1..D : p[i] = g[4 + i]
    <3>1. 4 \in Nat /\ 4 + D <= Len(g)
      BY <1>4, <1>10
    <3> QED
      BY <1>4, <1>10, <3>1, PartOf, Zenon
  <2>2. p = SubSeq(g, 5, Len(g))
    <3>1. 4 + 1 = 5
      OBVIOUS
    <3> QED
      BY <1>10, <3>1, Zenon
  <2> HIDE DEF p
  <2>3. Len(p) = Len(data) /\ \A i \in 1..Len(p) : p[i] = data[i]
    BY <1>11, <2>1, Zenon DEF D
  <2>4. p = data
    BY <2>1, <2>3, SeqEqual, Zenon
  <2> QED
    BY <2>2, <2>4
<1>15. L + 1 = 2
  BY <1>6
<1> QED
  BY <1>9, <1>10, <1>13, <1>14, <1>15, Zenon DEF ReadsAck, D

\* The first byte of a part says what the message is.
SaysType(g, type) == \A read \in 1..Len(g) : mqtt_get_type(SubSeq(g, 1, read)) = type

LEMMA TypeOfPart ==
    ASSUME NEW type \in 0..15, NEW qos \in 0..3, NEW rest \in Seq(Byte)
    PROVE  SaysType(fini_message(type, qos, rest), type)
<1> DEFINE g == fini_message(type, qos, rest)
<1>1. Written(g, LenBytes(Len(rest)), type, qos, rest)
  BY FiniWrites, Zenon
<1>2. g \in Seq(Byte) /\ g[1] = 16 * type + 2 * qos
  BY <1>1, Zenon DEF Written
<1> HIDE DEF g
<1>3. ASSUME NEW read \in 1..Len(g) PROVE mqtt_get_type(SubSeq(g, 1, read)) = type
  <2>1. read \in 0..Len(g) /\ 1 \in 1..read
    BY <1>2
  <2>2. SubSeq(g, 1, read)[1] = g[1]
    BY <1>2, <2>1, PartAgrees, Zenon
  <2> QED
    BY <1>2, <2>2, FirstByte, Zenon
<1> QED
  BY <1>3 DEF SaysType, g

\* What mqtt_msg_publish writes, the mqtt_get_* functions read: type, QoS and
\* length, and the topic, the identifier and the data with nothing of one in
\* another, for every topic of a byte or more and every message that MQTT can carry
\* (mqtt_msg.c:435, 176, 203, 269).
THEOREM PublishRoundTrip ==
    ASSUME NEW topic \in Seq(Byte), topic # <<>>, Len(topic) <= MaxWord,
           NEW data \in Seq(Byte), NEW qos \in 0..3, NEW id \in Nat, id <= MaxWord,
           2 + Len(topic) + IdLen(qos) + Len(data) <= MaxRemaining
    PROVE  LET g == mqtt_msg_publish(topic, data, qos, id)
           IN /\ mqtt_get_type(g) = PUBLISH
              /\ mqtt_get_qos(g) = qos
              /\ mqtt_get_total_length(g) = Len(g)
              /\ HasTopic(g)
              /\ mqtt_get_publish_topic(g) = topic
              /\ mqtt_get_id(g, Len(g)) = (IF qos > 0 THEN id ELSE 0)
              /\ mqtt_get_publish_data(g) = data
<1> DEFINE g == mqtt_msg_publish(topic, data, qos, id)
           h == FixedHeaderLen(g)
           T == Len(topic)
           D == Len(data)
           i == IdLen(qos)
<1>1. Framed(g, h) /\ g[1] = 16 * PUBLISH + 2 * qos /\ HasBody(g, h, topic, data, qos, id)
  BY PublishParts
<1> HIDE DEF g, h
<1>2. g \in Seq(Byte) /\ h \in 2..5 /\ h <= Len(g) /\ Len(g) = h + 2 + T + i + D
  BY <1>1 DEF Framed, HasBody
<1>3. T \in Nat /\ T > 0 /\ D \in Nat /\ i \in {0, 2}
  BY DEF IdLen
<1> HIDE DEF T, D, i
<1>4. /\ Len(g) \in h..Len(g) /\ Len(g) > h + 2 /\ Len(g) >= h + 2 + T
      /\ Len(g) >= h + 2 + T + i /\ Len(g) - (h + 2 + T + i) = D
  BY <1>2, <1>3
<1>5. SubSeq(g, 1, Len(g)) = g /\ SubSeq(data, 1, D) = data
  BY <1>2 DEF D
<1>6. ReadsPublish(g, h, Len(g), topic, data, qos, id)
  BY <1>1, <1>4, PublishReads, Zenon
<1>7. /\ mqtt_get_type(g) = PUBLISH
      /\ mqtt_get_qos(g) = qos
      /\ HasTopic(g) <=> Len(g) > h + 2 /\ Len(g) >= h + 2 + T
      /\ HasTopic(g) => mqtt_get_publish_topic(g) = topic
      /\ HasTopic(g) /\ Len(g) >= h + 2 + T + i =>
            /\ mqtt_get_id(g, Len(g)) = (IF qos > 0 THEN id ELSE 0)
            /\ mqtt_get_publish_data(g) = SubSeq(data, 1, Len(g) - (h + 2 + T + i))
  BY <1>5, <1>6, Zenon DEF ReadsPublish, T, i
<1>8. mqtt_get_total_length(g) = Len(g)
  BY <1>1, WholeHeader, Zenon
<1>9. HasTopic(g)
  BY <1>4, <1>7, Zenon
<1>10. /\ mqtt_get_publish_topic(g) = topic
       /\ mqtt_get_id(g, Len(g)) = (IF qos > 0 THEN id ELSE 0)
       /\ mqtt_get_publish_data(g) = data
  <2>1. mqtt_get_publish_data(g) = SubSeq(data, 1, D)
    BY <1>4, <1>7, <1>9, Zenon
  <2> QED
    BY <1>4, <1>5, <1>7, <1>9, <2>1, Zenon
<1> QED
  BY <1>7, <1>8, <1>9, <1>10, Zenon DEF g

---------------------------------------------------------------------------
\* Induction over the natural numbers.

\* A set of natural numbers with 0 and all successors is all of them: the map
\* to the successor would squeeze a beginning of it without some n into less.
LEMMA Induct ==
    ASSUME NEW T, 0 \in T, \A n \in Nat : n \in T => n + 1 \in T
    PROVE  Nat \subseteq T
<1> SUFFICES ASSUME NEW n \in Nat, n \notin T PROVE FALSE
  OBVIOUS
<1> DEFINE A == T \cap (0..n)
           f == [x \in A |-> x + 1]
<1>1. IsFiniteSet(A)
  <2>1. IsFiniteSet(0..n)
    BY FS_Interval
  <2>2. QED
    BY <2>1, FS_Subset
<1>2. IsFiniteSet(A \ {0}) /\ Cardinality(A \ {0}) = Cardinality(A) - 1
  <2>1. 0 \in A
    OBVIOUS
  <2> HIDE DEF A
  <2>2. QED
    BY <1>1, <2>1, FS_RemoveElement
<1>3. f \in [A -> A \ {0}]
  <2>1. ASSUME NEW x \in A PROVE x + 1 \in A \ {0}
    <3>1. x \in Nat /\ x \in T /\ x <= n /\ x + 1 \in T
      OBVIOUS
    <3>2. x # n
      BY <3>1
    <3>3. QED
      BY <3>1, <3>2
  <2>2. QED
    BY <2>1
<1>4. Cardinality(A \ {0}) < Cardinality(A)
  <2>1. Cardinality(A) \in Nat
    BY <1>1, FS_CardinalityType
  <2>2. QED
    BY <1>2, <2>1
<1>5. \A x, y \in A : f[x] = f[y] => x = y
  OBVIOUS
<1> HIDE DEF A, f
<1>6. \E x, y \in A : x # y /\ f[x] = f[y]
  BY <1>1, <1>2, <1>3, <1>4, FS_PigeonHole
<1>7. QED
  BY <1>5, <1>6

---------------------------------------------------------------------------
\* FlattenSeq, one sequence at a time.

\* The recursive function of FlattenSeq.
Flat(f, s, n) == f = [i \in 1..n |-> IF i = 1 THEN s[i] ELSE f[i - 1] \o s[i]]

\* There is such a function.
LEMMA FlatExists ==
    ASSUME NEW s, NEW n \in Nat
    PROVE  \E f : Flat(f, s, n)
<1> DEFINE T == {k \in Nat : \E f : Flat(f, s, k)}
<1>1. 0 \in T
  <2> DEFINE e == [i \in 1..0 |-> 0]
  <2>1. Flat(e, s, 0)
    BY DEF Flat
  <2> HIDE DEF e
  <2> QED
    BY <2>1
<1>2. ASSUME NEW k \in Nat, k \in T
      PROVE  k + 1 \in T
  <2>1. PICK f : Flat(f, s, k)
    BY <1>2
  <2> DEFINE e == [i \in 1..(k + 1) |->
                     IF i \in 1..k THEN f[i]
                     ELSE IF i = 1 THEN s[i] ELSE f[i - 1] \o s[i]]
  <2>2. f = [i \in 1..k |-> IF i = 1 THEN s[i] ELSE f[i - 1] \o s[i]]
    BY <2>1, Zenon DEF Flat
  <2>3. \A i \in 1..k : f[i] = IF i = 1 THEN s[i] ELSE f[i - 1] \o s[i]
    BY <2>2, Zenon
  <2>4. \A i \in 1..(k + 1) : i # 1 => e[i - 1] = f[i - 1]
    <3> TAKE i \in 1..(k + 1)
    <3> HAVE i # 1
    <3>1. i - 1 \in 1..k /\ i - 1 \in 1..(k + 1)
      OBVIOUS
    <3> QED
      BY <3>1, Zenon
  <2>5. \A i \in 1..(k + 1) : e[i] = IF i = 1 THEN s[i] ELSE f[i - 1] \o s[i]
    BY <2>3, Zenon
  <2>6. \A i \in 1..(k + 1) : e[i] = IF i = 1 THEN s[i] ELSE e[i - 1] \o s[i]
    <3> HIDE DEF e
    <3> QED
      BY <2>4, <2>5, Zenon
  <2>7. e = [i \in 1..(k + 1) |-> e[i]]
    OBVIOUS
  <2> HIDE DEF e
  <2>8. e = [i \in 1..(k + 1) |-> IF i = 1 THEN s[i] ELSE e[i - 1] \o s[i]]
    BY <2>6, <2>7, Zenon
  <2>9. Flat(e, s, k + 1)
    BY <2>8, Zenon DEF Flat
  <2> QED
    BY <2>9
<1> HIDE DEF T
<1>3. Nat \subseteq T
  BY <1>1, <1>2, Induct
<1> QED
  BY <1>3 DEF T

\* The same, value by value.
FlatSays(f, s, n) == \A i \in 1..n : f[i] = IF i = 1 THEN s[i] ELSE f[i - 1] \o s[i]

\* It is what it says.
LEMMA FlatStep ==
    ASSUME NEW f, NEW s, NEW n, Flat(f, s, n)
    PROVE  FlatSays(f, s, n)
<1>1. f = [i \in 1..n |-> IF i = 1 THEN s[i] ELSE f[i - 1] \o s[i]]
  BY Zenon DEF Flat
<1> QED
  BY <1>1, Zenon DEF FlatSays

\* f and g agree up to n.
Agree(f, g, n) == \A i \in 1..n : f[i] = g[i]

\* What it makes of a sequence starts with what it makes of a beginning.
LEMMA FlatAgrees ==
    ASSUME NEW f, NEW g, NEW s, NEW t, NEW n \in Nat,
           Flat(f, s, n), Flat(g, t, n + 1), Agree(s, t, n)
    PROVE  Agree(f, g, n)
<1> DEFINE T == {k \in Nat : k \in 1..n => f[k] = g[k]}
<1>1. 0 \in T
  OBVIOUS
<1>2. ASSUME NEW k \in Nat, k \in T
      PROVE  k + 1 \in T
  <2> SUFFICES ASSUME k + 1 \in 1..n PROVE f[k + 1] = g[k + 1]
    OBVIOUS
  <2>1. k + 1 \in 1..(n + 1) /\ (k + 1) - 1 = k /\ k \in Nat
    OBVIOUS
  <2>2. f[k + 1] = IF k + 1 = 1 THEN s[k + 1] ELSE f[(k + 1) - 1] \o s[k + 1]
    <3>1. FlatSays(f, s, n)
      BY FlatStep, Zenon
    <3> QED
      BY <3>1, Zenon DEF FlatSays
  <2>3. g[k + 1] = IF k + 1 = 1 THEN t[k + 1] ELSE g[(k + 1) - 1] \o t[k + 1]
    <3>1. FlatSays(g, t, n + 1)
      BY FlatStep, Zenon
    <3> QED
      BY <2>1, <3>1, Zenon DEF FlatSays
  <2>4. CASE k + 1 = 1
    BY <2>2, <2>3, <2>4, Zenon DEF Agree
  <2>5. CASE k + 1 # 1
    <3>1. k \in 1..n
      BY <2>5
    <3>2. f[k] = g[k]
      BY <1>2, <3>1
    <3> QED
      BY <2>1, <2>2, <2>3, <2>5, <3>2, Zenon DEF Agree
  <2> QED
    BY <2>4, <2>5
<1> HIDE DEF T
<1>3. Nat \subseteq T
  BY <1>1, <1>2, Induct
<1>4. ASSUME NEW i \in 1..n PROVE f[i] = g[i]
  BY <1>3 DEF T
<1> QED
  BY <1>4 DEF Agree

\* FlattenSeq is its last value.
LEMMA FlattenIs ==
    ASSUME NEW s, NEW n \in Nat, Len(s) = n, n # 0
    PROVE  \E f : Flat(f, s, n) /\ FlattenSeq(s) = f[n]
<1> DEFINE f == CHOOSE f : f = [i \in 1..Len(s) |-> IF i = 1 THEN s[i] ELSE f[i - 1] \o s[i]]
<1>1. FlattenSeq(s) = f[n]
  BY Zenon DEF FlattenSeq
<1>2. \E e : e = [i \in 1..Len(s) |-> IF i = 1 THEN s[i] ELSE e[i - 1] \o s[i]]
  BY FlatExists, Zenon DEF Flat
<1>3. f = [i \in 1..Len(s) |-> IF i = 1 THEN s[i] ELSE f[i - 1] \o s[i]]
  BY <1>2, Zenon
<1> HIDE DEF f
<1>4. Flat(f, s, n)
  BY <1>3, Zenon DEF Flat
<1> QED
  BY <1>1, <1>4

\* What a further sequence changes in the concatenation.
Flattens(s, t, n) ==
    /\ n = 0 => FlattenSeq(s) = s /\ FlattenSeq(t) = t[n + 1]
    /\ n # 0 => FlattenSeq(t) = FlattenSeq(s) \o t[n + 1]

\* One sequence more at the end.
LEMMA FlattenOneMore ==
    ASSUME NEW s, NEW t, NEW n \in Nat, Len(s) = n, Len(t) = n + 1,
           Agree(s, t, n)
    PROVE  Flattens(s, t, n)
<1>1. n + 1 \in Nat /\ n + 1 # 0 /\ n + 1 \in 1..(n + 1) /\ (n + 1) - 1 = n /\ (n + 1 = 1 <=> n = 0)
  OBVIOUS
<1>2. PICK g : Flat(g, t, n + 1) /\ FlattenSeq(t) = g[n + 1]
  BY <1>1, FlattenIs, Zenon
<1>3. g[n + 1] = IF n + 1 = 1 THEN t[n + 1] ELSE g[(n + 1) - 1] \o t[n + 1]
  <2>1. FlatSays(g, t, n + 1)
    BY <1>2, FlatStep, Zenon
  <2> QED
    BY <1>1, <2>1, Zenon DEF FlatSays
<1>4. CASE n = 0
  <2>1. FlattenSeq(s) = s
    BY <1>4, Zenon DEF FlattenSeq
  <2> QED
    BY <1>1, <1>2, <1>3, <1>4, <2>1, Zenon DEF Flattens
<1>5. CASE n # 0
  <2>1. PICK f : Flat(f, s, n) /\ FlattenSeq(s) = f[n]
    BY <1>5, FlattenIs, Zenon
  <2>2. n \in 1..n
    BY <1>5
  <2>3. f[n] = g[n]
    <3>1. Agree(f, g, n)
      BY <1>2, <2>1, FlatAgrees, Zenon
    <3> QED
      BY <2>2, <3>1, Zenon DEF Agree
  <2> QED
    BY <1>1, <1>2, <1>3, <1>5, <2>1, <2>3, Zenon DEF Flattens
<1> QED
  BY <1>4, <1>5 DEF Flattens

---------------------------------------------------------------------------
\* Sequences of numbers, and messages made of them, for MQTT 5 as well.

\* A sequence of bytes is one of numbers.
LEMMA Wide == Seq(Byte) \subseteq Seq(Nat)
<1> SUFFICES ASSUME NEW s \in Seq(Byte) PROVE s \in Seq(Nat)
  OBVIOUS
<1>1. Len(s) \in Nat /\ s \in [1..Len(s) -> Byte]
  BY LenProperties
<1> DEFINE n == Len(s)
<1>2. s \in [1..n -> Nat]
  <2>1. s = [i \in 1..n |-> s[i]] /\ \A i \in 1..n : s[i] \in Byte
    BY <1>1
  <2>2. Byte \subseteq Nat
    BY DEF Byte
  <2> HIDE DEF n
  <2> QED
    BY <2>1, <2>2
<1> QED
  BY <1>1, <1>2, SeqDef

\* Two bytes hold a number, the larger part first.
LEMMA Word5 ==
    ASSUME NEW n \in Nat
    PROVE  /\ Word(n) \in Seq(Nat) /\ Len(Word(n)) = 2
           /\ 256 * Word(n)[1] + Word(n)[2] = n
<1>1. n \div 256 \in Nat /\ n % 256 \in Nat /\ 256 * (n \div 256) + (n % 256) = n
  BY SMT
<1> QED
  BY <1>1 DEF Word

\* The empty sequence is one of numbers.
LEMMA Empty5 == <<>> \in Seq(Nat) /\ Len(<<>>) = 0
OBVIOUS

\* A length is a number.
LEMMA Len5 ==
    ASSUME NEW s \in Seq(Nat)
    PROVE  Len(s) \in Nat
OBVIOUS

\* A part of a sequence of numbers.
LEMMA Part5 ==
    ASSUME NEW g \in Seq(Nat), NEW a \in Nat, NEW b \in Nat, a > 0, b <= Len(g)
    PROVE  SubSeq(g, a, b) \in Seq(Nat)
OBVIOUS

\* An element of a sequence of numbers.
LEMMA At5 ==
    ASSUME NEW g \in Seq(Nat), NEW i \in 1..Len(g)
    PROVE  g[i] \in Nat
OBVIOUS

\* The concatenation of two sequences of numbers.
LEMMA Concat5 ==
    ASSUME NEW s \in Seq(Nat), NEW t \in Seq(Nat)
    PROVE  s \o t \in Seq(Nat) /\ Len(s \o t) = Len(s) + Len(t)
OBVIOUS

\* Concatenation is associative.
LEMMA Assoc5 ==
    ASSUME NEW s \in Seq(Nat), NEW t \in Seq(Nat), NEW u \in Seq(Nat)
    PROVE  (s \o t) \o u = s \o (t \o u)
BY ConcatAssociative

\* The concatenation of seven.
LEMMA Seven5 ==
    ASSUME NEW a \in Seq(Nat), NEW b \in Seq(Nat), NEW c \in Seq(Nat), NEW d \in Seq(Nat),
           NEW e \in Seq(Nat), NEW f \in Seq(Nat), NEW g \in Seq(Nat)
    PROVE  a \o b \o c \o d \o e \o f \o g \in Seq(Nat)
<1>1. a \o b \in Seq(Nat)
  BY Concat5
<1>2. a \o b \o c \in Seq(Nat)
  BY <1>1, Concat5
<1>3. a \o b \o c \o d \in Seq(Nat)
  BY <1>2, Concat5
<1>4. a \o b \o c \o d \o e \in Seq(Nat)
  BY <1>3, Concat5
<1>5. a \o b \o c \o d \o e \o f \in Seq(Nat)
  BY <1>4, Concat5
<1> QED
  BY <1>5, Concat5

\* What is joined of sequences of numbers is one.
LEMMA Flatten5 ==
    ASSUME NEW s \in Seq(Seq(Nat))
    PROVE  FlattenSeq(s) \in Seq(Nat)
<1> DEFINE n == Len(s)
<1>1. CASE n = 0
  <2>1. s = <<>>
    BY <1>1
  <2>2. FlattenSeq(s) = s
    BY <1>1, Zenon DEF FlattenSeq
  <2>3. <<>> \in Seq(Nat)
    OBVIOUS
  <2> QED
    BY <2>1, <2>2, <2>3, Zenon
<1>2. CASE n # 0
  <2>0. n \in Nat
    OBVIOUS
  <2>1. PICK f : Flat(f, s, n) /\ FlattenSeq(s) = f[n]
    BY <1>2, <2>0, FlattenIs, Zenon
  <2>2. FlatSays(f, s, n)
    BY <2>1, FlatStep, Zenon
  <2> DEFINE T == {k \in Nat : k \in 1..n => f[k] \in Seq(Nat)}
  <2>3. 0 \in T
    OBVIOUS
  <2>4. ASSUME NEW k \in Nat, k \in T PROVE k + 1 \in T
    <3> SUFFICES ASSUME k + 1 \in 1..n PROVE f[k + 1] \in Seq(Nat)
      OBVIOUS
    <3>1. f[k + 1] = IF k + 1 = 1 THEN s[k + 1] ELSE f[(k + 1) - 1] \o s[k + 1]
      BY <2>2, Zenon DEF FlatSays
    <3>2. s[k + 1] \in Seq(Nat)
      OBVIOUS
    <3>3. CASE k + 1 = 1
      BY <3>1, <3>2, <3>3
    <3>4. CASE k + 1 # 1
      <4>1. k \in 1..n /\ (k + 1) - 1 = k
        BY <3>4
      <4>2. f[k] \in Seq(Nat)
        BY <2>4, <4>1
      <4> QED
        BY <3>1, <3>2, <3>4, <4>1, <4>2
    <3> QED
      BY <3>3, <3>4
  <2> HIDE DEF T
  <2>5. Nat \subseteq T
    BY <2>3, <2>4, Induct
  <2>6. n \in T /\ n \in 1..n
    BY <1>2, <2>0, <2>5
  <2> QED
    BY <2>1, <2>6 DEF T
<1> QED
  BY <1>1, <1>2

\* What is joined of one sequence.
LEMMA Single ==
    ASSUME NEW x \in Seq(Nat)
    PROVE  FlattenSeq(<<x>>) \in Seq(Nat)
<1>1. <<x>> \in Seq(Seq(Nat))
  OBVIOUS
<1> QED
  BY <1>1, Flatten5

\* A sequence with one more element at the front.
LEMMA InFront ==
    ASSUME NEW G, NEW x \in G, NEW s \in Seq(G)
    PROVE  <<x>> \o s \in Seq(G)
OBVIOUS

\* The least of a few numbers is one of them.
LEMMA MinOfFour ==
    ASSUME NEW S \in SUBSET (0..3), S # {}
    PROVE  Min(S) \in S
<1>1. \E x \in S : \A y \in S : x <= y
  <2>1. CASE 0 \in S
    BY <2>1
  <2>2. CASE 0 \notin S /\ 1 \in S
    BY <2>2
  <2>3. CASE 0 \notin S /\ 1 \notin S /\ 2 \in S
    BY <2>3
  <2>4. CASE 0 \notin S /\ 1 \notin S /\ 2 \notin S
    <3>1. \A y \in S : y = 3
      BY <2>4
    <3>2. PICK x \in S : x = 3
      BY <3>1
    <3>3. \A y \in S : x <= y
      BY <3>1, <3>2
    <3> QED
      BY <3>3
  <2> QED
    BY <2>1, <2>2, <2>3, <2>4
<1> QED
  BY <1>1, Zenon DEF Min

\* The larger of a number and 0.
LEMMA MaxZero ==
    ASSUME NEW x \in Int
    PROVE  Max({x, 0}) = IF x >= 0 THEN x ELSE 0
<1> DEFINE S == {x, 0}
           P(m) == m \in S /\ \A y \in S : m >= y
<1>1. CASE x >= 0
  <2>1. P(x) /\ \A m : P(m) => m = x
    BY <1>1
  <2>2. Max(S) = x
    BY <2>1 DEF Max
  <2> QED
    BY <1>1, <2>2
<1>2. CASE x < 0
  <2>1. P(0) /\ \A m : P(m) => m = 0
    BY <1>2
  <2>2. Max(S) = 0
    BY <2>1 DEF Max
  <2> QED
    BY <1>2, <2>2
<1> QED
  BY <1>1, <1>2

\* The largest element of a set of indices.
LEMMA MaxIn ==
    ASSUME NEW n \in Nat, NEW S \in SUBSET (1..n), S # {}
    PROVE  Max(S) \in S
<1> DEFINE Top(R) == \E m \in R : \A y \in R : m >= y
           T == {k \in Nat : \A R \in SUBSET (1..k) : R # {} => Top(R)}
<1>1. 0 \in T
  <2>1. \A R \in SUBSET (1..0) : R = {}
    OBVIOUS
  <2> HIDE DEF Top
  <2> QED
    BY <2>1
<1>2. ASSUME NEW k \in Nat, k \in T PROVE k + 1 \in T
  <2> SUFFICES ASSUME NEW R \in SUBSET (1..(k + 1)), R # {} PROVE Top(R)
    OBVIOUS
  <2>1. CASE k + 1 \in R
    BY <2>1
  <2>2. CASE k + 1 \notin R
    <3>1. R \in SUBSET (1..k)
      BY <2>2
    <3> HIDE DEF Top
    <3> QED
      BY <1>2, <3>1
  <2> QED
    BY <2>1, <2>2
<1> HIDE DEF T
<1>3. Nat \subseteq T
  BY <1>1, <1>2, Induct
<1>4. Top(S)
  <2> HIDE DEF Top
  <2> QED
    BY <1>3 DEF T
<1> QED
  BY <1>4, Zenon DEF Max

\* The smaller of two numbers.
LEMMA MinFits ==
    ASSUME NEW a \in Nat, NEW b \in Nat, NEW z \in Nat, z <= a, z <= b
    PROVE  Min({a, b}) \in Nat /\ Min({a, b}) <= b /\ z <= Min({a, b})
<1> DEFINE n == Min({a, b})
<1>1. CASE a <= b
  <2>1. n = a
    BY <1>1, MinIs
  <2> QED
    BY <1>1, <2>1
<1>2. CASE ~(a <= b)
  <2>1. n = b
    BY <1>2, MinIs
  <2> QED
    BY <1>2, <2>1
<1> QED
  BY <1>1, <1>2

\* The front of a sequence.
LEMMA Front5 ==
    ASSUME NEW g \in Seq(Nat), NEW n \in Nat, n <= Len(g)
    PROVE  /\ SubSeq(g, 1, n) \in Seq(Nat) /\ Len(SubSeq(g, 1, n)) = n
           /\ \A i \in 1..n : SubSeq(g, 1, n)[i] = g[i]
OBVIOUS

\* A part of what fits the buffer is short.
LEMMA Short5 ==
    ASSUME NEW b \in Nat, NEW l \in Nat, NEW w \in 1..4, NEW c, c = w + l,
           NEW n \in Nat, NEW k \in Nat, n <= k, b + c <= n
    PROVE  l <= k
OBVIOUS

\* g is a first byte, the length of a body, and the body.
Wire(g, b, body) ==
    /\ body \in Seq(Nat) /\ b \in Nat
    /\ g \in Seq(Nat)
    /\ Len(g) = 1 + LenBytes(Len(body)) + Len(body)
    /\ g[1] = b
    /\ \A k \in 1..LenBytes(Len(body)) : g[1 + k] = EncodedLens(Len(body))[k]
    /\ \A j \in 1..Len(body) : g[1 + LenBytes(Len(body)) + j] = body[j]

\* u is s and t one after the other,
Joins5(u, s, t) ==
    /\ u \in Seq(Nat) /\ Len(u) = Len(s) + Len(t)
    /\ Len(s) \in Nat /\ Len(t) \in Nat /\ Len(u) \in Nat
    /\ \A i \in 1..Len(s) : u[i] = s[i]
    /\ \A i \in 1..Len(t) : u[Len(s) + i] = t[i]

\* The elements of s \o t.
LEMMA Joined5 ==
    ASSUME NEW s \in Seq(Nat), NEW t \in Seq(Nat)
    PROVE  Joins5(s \o t, s, t)
BY DEF Joins5

\* ... and r, s and t.
Joins3(u, r, s, t) ==
    /\ u \in Seq(Nat) /\ Len(u) = Len(r) + Len(s) + Len(t)
    /\ \A i \in 1..Len(r) : u[i] = r[i]
    /\ \A i \in 1..Len(s) : u[Len(r) + i] = s[i]
    /\ \A i \in 1..Len(t) : u[Len(r) + Len(s) + i] = t[i]

\* The elements of r \o s \o t.
LEMMA Three5 ==
    ASSUME NEW r \in Seq(Nat), NEW s \in Seq(Nat), NEW t \in Seq(Nat)
    PROVE  Joins3(r \o s \o t, r, s, t)
<1> DEFINE v == r \o s
<1>1. Joins5(v, r, s)
  BY Joined5
<1> HIDE DEF v
<1> DEFINE u == v \o t
<1>2. Joins5(u, v, t)
  <2>1. v \in Seq(Nat)
    BY <1>1 DEF Joins5
  <2> QED
    BY <2>1, Joined5
<1> HIDE DEF u
<1>4. /\ u \in Seq(Nat) /\ Len(u) = Len(r) + Len(s) + Len(t)
      /\ \A i \in 1..Len(r) : u[i] = r[i]
      /\ \A i \in 1..Len(s) : u[Len(r) + i] = s[i]
      /\ \A i \in 1..Len(t) : u[Len(r) + Len(s) + i] = t[i]
  <2>1. \A i \in 1..Len(r) : i \in 1..Len(v)
    BY <1>1, <1>2 DEF Joins5
  <2>2. \A i \in 1..Len(s) : Len(r) + i \in 1..Len(v)
    BY <1>1, <1>2 DEF Joins5
  <2> QED
    BY <1>1, <1>2, <2>1, <2>2 DEF Joins5
<1> QED
  BY <1>4, Zenon DEF u, v, Joins3

\* A first byte, the length and a body are a message.
LEMMA WireOf ==
    ASSUME NEW b \in Nat, NEW body \in Seq(Nat)
    PROVE  Wire(<<b>> \o EncodedLens(Len(body)) \o body, b, body)
<1> DEFINE s == EncodedLens(Len(body))
           r == <<b>>
<1>1. s \in Seq(Nat) /\ Len(s) = LenBytes(Len(body)) /\ LenBytes(Len(body)) \in Nat
  BY EncodedLensType, LenBytesType, Wide
<1>2. r \in Seq(Nat) /\ Len(r) = 1 /\ r[1] = b
  OBVIOUS
<1> HIDE DEF s, r
<1> DEFINE u == r \o s \o body
<1>3. /\ u \in Seq(Nat) /\ Len(u) = Len(r) + Len(s) + Len(body)
      /\ \A i \in 1..Len(r) : u[i] = r[i]
      /\ \A i \in 1..Len(s) : u[Len(r) + i] = s[i]
      /\ \A i \in 1..Len(body) : u[Len(r) + Len(s) + i] = body[i]
  BY <1>1, <1>2, Three5, Zenon DEF Joins3
<1> HIDE DEF u
<1>4. u[1] = b
  BY <1>2, <1>3
<1>5. Wire(u, b, body)
  BY <1>1, <1>2, <1>3, <1>4 DEF Wire, s
<1> QED
  BY <1>5 DEF u, r, s

\* The bytes of a message that other bytes follow.
LEMMA WireHeader ==
    ASSUME NEW g, NEW b, NEW body, Wire(g, b, body), Len(body) <= MaxRemaining,
           NEW t \in Seq(Nat)
    PROVE  /\ FixedHeaderLen(g \o t) = LenBytes(Len(body)) + 1
           /\ mqtt_get_total_length(g \o t) = Len(g)
<1> DEFINE u == g \o t
           n == Len(body)
<1>1. n \in Nat /\ n <= MaxRemaining /\ LenBytes(n) \in 1..4 /\ Len(g) = 1 + LenBytes(n) + n
  BY LenBytesType DEF Wire
<1>2. Len(u) = Len(g) + Len(t) /\ Len(g) \in Nat /\ Len(t) \in Nat
      /\ \A i \in 1..Len(g) : u[i] = g[i]
  <2>1. g \in Seq(Nat)
    BY DEF Wire
  <2>2. Joins5(u, g, t)
    BY <2>1, Joined5, Zenon
  <2> HIDE DEF u
  <2> QED
    BY <2>2 DEF Joins5
<1> HIDE DEF u
<1>3. Len(u) \in Nat /\ Len(u) > LenBytes(n)
  BY <1>1, <1>2
<1>4. \A k \in 1..LenBytes(n) : u[k + 1] = EncodedLens(n)[k]
  <2> TAKE k \in 1..LenBytes(n)
  <2>1. 1 + k \in 1..Len(g) /\ 1 + k = k + 1
    BY <1>1
  <2> QED
    BY <1>2, <2>1 DEF Wire
<1> HIDE DEF n
<1>5. FixedHeaderLen(u) = LenBytes(n) + 1 /\ RemainingLength(u) = n
  BY <1>1, <1>3, <1>4, HeaderDecides
<1>6. mqtt_get_total_length(u) = Len(g)
  BY <1>1, <1>5 DEF mqtt_get_total_length
<1> QED
  BY <1>5, <1>6 DEF u, n

\* What is cut off the front of a concatenation.
LEMMA Cuts5 ==
    ASSUME NEW g \in Seq(Nat), NEW t \in Seq(Nat)
    PROVE  /\ SubSeq(g \o t, 1, Len(g)) = g
           /\ SubSeq(g \o t, Len(g) + 1, Len(g \o t)) = t
OBVIOUS

\* The first byte.
LEMMA FirstByte5 ==
    ASSUME NEW type \in 0..15, NEW flags \in 0..15,
           NEW buffer, buffer[1] = 16 * type + flags
    PROVE  /\ mqtt_get_type(buffer) = type
           /\ mqtt_get_qos(buffer) = (flags \div 2) % 4
<1>1. (16 * type + flags) \div 16 = type
  BY SMT
<1>2. (16 * type + flags) \div 2 = 8 * type + (flags \div 2) /\ flags \div 2 \in 0..7
  BY SMT
<1>3. (8 * type + (flags \div 2)) % 4 = (flags \div 2) % 4
  <2> DEFINE q == flags \div 2
  <2>1. q \in 0..7
    BY <1>2
  <2> HIDE DEF q
  <2>2. (8 * type + q) % 4 = q % 4
    BY <2>1, SMT
  <2> QED
    BY <2>2 DEF q
<1> QED
  BY <1>1, <1>2, <1>3 DEF mqtt_get_type, mqtt_get_qos

\* x is found in g after offset o.
Holds(g, o, x) == \A i \in 1..Len(x) : g[o + i] = x[i]

\* ... and so are its parts.
LEMMA HoldsParts ==
    ASSUME NEW g, NEW o \in Nat, NEW x \in Seq(Nat), NEW y \in Seq(Nat), Holds(g, o, x \o y)
    PROVE  /\ Holds(g, o, x) /\ Holds(g, o + Len(x), y)
           /\ Len(x \o y) = Len(x) + Len(y) /\ Len(x) \in Nat /\ Len(y) \in Nat
<1> DEFINE u == x \o y
<1>1. Joins5(u, x, y)
  BY Joined5
<1> HIDE DEF u
<1>2. Len(u) = Len(x) + Len(y) /\ Len(x) \in Nat /\ Len(y) \in Nat
  BY <1>1 DEF Joins5
<1>3. \A i \in 1..Len(u) : g[o + i] = u[i]
  BY DEF Holds, u
<1>4. \A i \in 1..Len(x) : g[o + i] = x[i]
  <2> TAKE i \in 1..Len(x)
  <2>1. i \in 1..Len(u) /\ u[i] = x[i]
    BY <1>1, <1>2 DEF Joins5
  <2> QED
    BY <1>3, <2>1
<1>5. \A i \in 1..Len(y) : g[(o + Len(x)) + i] = y[i]
  <2> TAKE i \in 1..Len(y)
  <2>1. /\ Len(x) + i \in 1..Len(u) /\ u[Len(x) + i] = y[i]
        /\ (o + Len(x)) + i = o + (Len(x) + i)
    BY <1>1, <1>2 DEF Joins5
  <2> QED
    BY <1>3, <2>1
<1> QED
  BY <1>2, <1>4, <1>5, Zenon DEF Holds, u

\* What is found somewhere is found in the front that holds it.
LEMMA HoldsFront ==
    ASSUME NEW f, NEW g \in Seq(Nat), NEW o \in Nat, NEW x \in Seq(Nat), o + Len(x) <= Len(f),
           \A i \in 1..Len(f) : f[i] = g[i], Len(f) \in Nat, Holds(g, o, x)
    PROVE  Holds(f, o, x)
<1>1. Len(x) \in Nat
  BY Len5
<1>2. ASSUME NEW i \in 1..Len(x) PROVE f[o + i] = x[i]
  <2>1. o + i \in 1..Len(f)
    BY <1>1
  <2>2. g[o + i] = x[i]
    BY DEF Holds
  <2> QED
    BY <2>1, <2>2
<1> QED
  BY <1>2 DEF Holds

---------------------------------------------------------------------------
\* Sequences that grow and shrink.

\* s is a sequence.
IsSeq(s) == \E R : s \in Seq(R)

\* The positions of a sequence.
LEMMA SeqIs ==
    ASSUME NEW s, IsSeq(s)
    PROVE  Len(s) \in Nat /\ DOMAIN s = 1..Len(s)
<1>1. PICK R : s \in Seq(R)
  BY Zenon DEF IsSeq
<1> QED
  BY <1>1

\* The empty sequence has none.
LEMMA EmptyIs == IsSeq(<<>>) /\ Len(<<>>) = 0 /\ DOMAIN <<>> = {}
<1>1. <<>> \in Seq({}) /\ Len(<<>>) = 0
  OBVIOUS
<1> QED
  BY <1>1 DEF IsSeq

\* A sequence grows by one element.
Grown(n, s, x) ==
    /\ IsSeq(n)
    /\ DOMAIN n = DOMAIN s \cup {Len(s) + 1}
    /\ \A k \in DOMAIN s : n[k] = s[k] /\ k < Len(s) + 1
    /\ n[Len(s) + 1] = x

\* Append grows a sequence by one element.
LEMMA AppendIs ==
    ASSUME NEW s, IsSeq(s), NEW x
    PROVE  Grown(Append(s, x), s, x)
<1>1. PICK R : s \in Seq(R)
  BY Zenon DEF IsSeq
<1> DEFINE Q == R \cup {x}
<1>2. s \in Seq(Q)
  <2>1. Len(s) \in Nat /\ s \in [1..Len(s) -> R]
    BY <1>1, LenProperties
  <2> DEFINE n == Len(s)
  <2>2. s = [i \in 1..n |-> s[i]] /\ \A i \in 1..n : s[i] \in Q
    BY <2>1
  <2> HIDE DEF n, Q
  <2>3. s \in [1..n -> Q]
    BY <2>2
  <2> QED
    BY <2>1, <2>3, SeqDef DEF n
<1>3. x \in Q
  OBVIOUS
<1> HIDE DEF Q
<1> DEFINE new == Append(s, x)
<1>4. /\ new \in Seq(Q) /\ Len(new) = Len(s) + 1
      /\ \A k \in 1..Len(s) : new[k] = s[k]
      /\ new[Len(s) + 1] = x
  BY <1>2, <1>3, AppendProperties
<1> HIDE DEF new
<1>5. Len(s) \in Nat /\ DOMAIN s = 1..Len(s) /\ DOMAIN new = 1..(Len(s) + 1)
  BY <1>2, <1>4
<1>6. DOMAIN new = DOMAIN s \cup {Len(s) + 1}
  BY <1>5
<1>7. \A k \in DOMAIN s : k < Len(s) + 1
  BY <1>5
<1>8. IsSeq(new)
  BY <1>4, Zenon DEF IsSeq
<1>9. Grown(new, s, x)
  BY <1>4, <1>5, <1>6, <1>7, <1>8, Zenon DEF Grown
<1> QED
  BY <1>9 DEF new

\* A sequence loses its first element.
Shrunk(n, s) ==
    /\ IsSeq(n)
    /\ 1 \in DOMAIN s
    /\ \A k \in DOMAIN n : k + 1 \in DOMAIN s /\ n[k] = s[k + 1] /\ 1 < k + 1 /\ k \in Nat

\* Tail takes the first element off.
LEMMA TailShrinks ==
    ASSUME NEW s, IsSeq(s), s # <<>>
    PROVE  Shrunk(Tail(s), s) /\ Head(s) = s[1]
<1>1. PICK R : s \in Seq(R)
  BY Zenon DEF IsSeq
<1> DEFINE new == Tail(s)
<1>2. /\ new \in Seq(R) /\ Len(new) = Len(s) - 1
      /\ \A k \in 1..Len(new) : new[k] = s[k + 1]
  BY <1>1, HeadTailProperties
<1>3. Head(s) = s[1] /\ 1 \in DOMAIN s /\ Len(s) \in Nat /\ DOMAIN s = 1..Len(s)
  BY <1>1
<1>4. IsSeq(new)
  BY <1>2, Zenon DEF IsSeq
<1>5. DOMAIN new = 1..Len(new)
  BY <1>2
<1> HIDE DEF new
<1>6. \A k \in DOMAIN new : k + 1 \in DOMAIN s /\ 1 < k + 1 /\ k \in Nat
  BY <1>2, <1>3, <1>5
<1>7. Shrunk(new, s)
  BY <1>2, <1>3, <1>4, <1>5, <1>6, Zenon DEF Shrunk
<1> QED
  BY <1>3, <1>7 DEF new

\* Each element of n is one of s, and no two are the same one.
Emb(n, s) ==
    /\ IsSeq(n)
    /\ \E h : /\ \A k \in DOMAIN n : h[k] \in DOMAIN s /\ n[k] = s[h[k]]
              /\ \A k, l \in DOMAIN n : h[k] = h[l] => k = l

\* RemoveAt keeps the other elements.
LEMMA RemoveIs ==
    ASSUME NEW s, IsSeq(s), NEW i \in DOMAIN s
    PROVE  Emb(RemoveAt(s, i), s)
<1>1. PICK R : s \in Seq(R)
  BY Zenon DEF IsSeq
<1> DEFINE n == Len(s)
           before == SubSeq(s, 1, i - 1)
           after == SubSeq(s, i + 1, n)
           new == before \o after
           h == [k \in 1..(n - 1) |-> IF k < i THEN k ELSE k + 1]
<1>2. n \in Nat /\ DOMAIN s = 1..n /\ i \in 1..n /\ \A k \in 1..n : s[k] \in R
  BY <1>1
<1>3. /\ before \in Seq(R)
      /\ Len(before) = IF 1 <= i - 1 THEN i - 1 - 1 + 1 ELSE 0
      /\ \A k \in 1..(i - 1 - 1 + 1) : before[k] = s[1 + k - 1]
  <2>1. 1 \in Int /\ i - 1 \in Int /\ \A k \in 1..(i - 1) : s[k] \in R
    BY <1>2
  <2> HIDE DEF n
  <2>2. QED
    BY <2>1, SubSeqProperties
<1>4. /\ after \in Seq(R)
      /\ Len(after) = IF i + 1 <= n THEN n - (i + 1) + 1 ELSE 0
      /\ \A k \in 1..(n - (i + 1) + 1) : after[k] = s[i + 1 + k - 1]
  <2>1. i + 1 \in Int /\ n \in Int /\ \A k \in (i + 1)..n : s[k] \in R
    BY <1>2
  <2> HIDE DEF n
  <2>2. QED
    BY <2>1, SubSeqProperties
<1> HIDE DEF n, before, after
<1>5. Len(before) = i - 1 /\ Len(after) = n - i
  BY <1>2, <1>3, <1>4
<1>6. /\ new \in Seq(R)
      /\ Len(new) = Len(before) + Len(after)
      /\ \A k \in 1..(Len(before) + Len(after)) :
            new[k] = IF k <= Len(before) THEN before[k] ELSE after[k - Len(before)]
  BY <1>3, <1>4, ConcatProperties
<1>7. DOMAIN new = 1..(n - 1)
  <2>1. DOMAIN new = 1..Len(new)
    BY <1>6, LenProperties
  <2>2. Len(new) = n - 1
    BY <1>2, <1>5, <1>6
  <2>3. QED
    BY <2>1, <2>2
<1>8. \A k \in 1..(n - 1) : h[k] = IF k < i THEN k ELSE k + 1
  BY Zenon
<1> HIDE DEF h
<1>9. ASSUME NEW k \in 1..(n - 1)
      PROVE  h[k] \in 1..n /\ new[k] = s[h[k]]
  <2>1. CASE k < i
    <3>1. k \in 1..(Len(before) + Len(after)) /\ k <= Len(before) /\ k \in 1..(i - 1 - 1 + 1)
          /\ 1 + k - 1 = k /\ k \in 1..n
      BY <1>2, <1>5, <2>1
    <3>2. h[k] = k
      BY <1>8, <2>1
    <3> HIDE DEF new
    <3>3. new[k] = s[k]
      BY <1>3, <1>6, <3>1
    <3> QED
      BY <3>1, <3>2, <3>3
  <2>2. CASE ~(k < i)
    <3>1. /\ k \in 1..(Len(before) + Len(after)) /\ ~(k <= Len(before))
          /\ k - Len(before) \in 1..(n - (i + 1) + 1)
          /\ i + 1 + (k - Len(before)) - 1 = k + 1 /\ k + 1 \in 1..n
      BY <1>2, <1>5, <2>2
    <3>2. h[k] = k + 1
      BY <1>8, <2>2
    <3> HIDE DEF new
    <3>3. new[k] = s[k + 1]
      BY <1>4, <1>6, <3>1
    <3> QED
      BY <3>1, <3>2, <3>3
  <2> QED
    BY <2>1, <2>2
<1>10. \A k, l \in 1..(n - 1) : h[k] = h[l] => k = l
  BY <1>2, <1>8
<1>11. IsSeq(new)
  BY <1>6, Zenon DEF IsSeq
<1> HIDE DEF new
<1>12. Emb(new, s)
  BY <1>2, <1>7, <1>9, <1>10, <1>11, Zenon DEF Emb
<1> QED
  BY <1>12 DEF RemoveAt, new, before, after, n

\* One element is another.
Swapped(n, s, i, x) ==
    /\ IsSeq(n)
    /\ DOMAIN n = DOMAIN s
    /\ \A k \in DOMAIN s : n[k] = IF k = i THEN x ELSE s[k]

\* One element is replaced,
LEMMA SwapIs ==
    ASSUME NEW s, IsSeq(s), NEW i, NEW x, NEW n, n = [k \in DOMAIN s |-> IF k = i THEN x ELSE s[k]]
    PROVE  Swapped(n, s, i, x)
<1>1. PICK R : s \in Seq(R)
  BY Zenon DEF IsSeq
<1> DEFINE Q == R \cup {x}
           l == Len(s)
<1>2. l \in Nat /\ DOMAIN s = 1..l /\ \A k \in 1..l : s[k] \in Q
  BY <1>1
<1>3. x \in Q
  OBVIOUS
<1> HIDE DEF Q, l
<1>4. n \in [1..l -> Q]
  BY <1>2, <1>3
<1>5. n \in Seq(Q)
  BY <1>2, <1>4, SeqDef
<1>6. IsSeq(n)
  BY <1>5, Zenon DEF IsSeq
<1>7. DOMAIN n = DOMAIN s /\ \A k \in DOMAIN s : n[k] = IF k = i THEN x ELSE s[k]
  BY Zenon
<1> QED
  BY <1>6, <1>7, Zenon DEF Swapped

\* ... written with EXCEPT.
LEMMA ExceptIs ==
    ASSUME NEW s, IsSeq(s), NEW i, NEW x
    PROVE  Swapped([s EXCEPT ![i] = x], s, i, x)
<1>1. [s EXCEPT ![i] = x] = [k \in DOMAIN s |-> IF k = i THEN x ELSE s[k]]
  BY Zenon
<1> QED
  BY <1>1, SwapIs, Zenon

\* Nothing or one element at the end.
LEMMA ConcatIs ==
    ASSUME NEW s, IsSeq(s), NEW x
    PROVE  s \o <<>> = s /\ s \o <<x>> = Append(s, x) /\ IsSeq(Append(s, x))
<1>1. PICK R : s \in Seq(R)
  BY Zenon DEF IsSeq
<1> DEFINE Q == R \cup {x}
<1>2. s \in Seq(Q)
  <2>1. Len(s) \in Nat /\ \A k \in 1..Len(s) : s[k] \in Q
    BY <1>1
  <2>2. s \in [1..Len(s) -> Q]
    BY <1>1, <2>1
  <2> QED
    BY <2>1, <2>2, SeqDef
<1>3. x \in Q
  OBVIOUS
<1> HIDE DEF Q
<1>4. s \o <<>> = s /\ s \o <<x>> = Append(s, x) /\ Append(s, x) \in Seq(Q)
  BY <1>2, <1>3
<1> QED
  BY <1>4, Zenon DEF IsSeq

\* The least of a set of numbers is in it.
LEMMA MinIn ==
    ASSUME NEW S \in SUBSET Nat, S # {}
    PROVE  Min(S) \in S
<1> DEFINE Low(R) == \E m \in R : \A y \in R : m <= y
           T == {k \in Nat : \A R \in SUBSET Nat : k \in R => Low(R)}
           U == {k \in Nat : \A j \in 0..k : j \in T}
<1>1. 0 \in U
  BY SMT
<1>2. ASSUME NEW k \in Nat, k \in U PROVE k + 1 \in U
  <2>1. k + 1 \in T
    <3> SUFFICES ASSUME NEW R \in SUBSET Nat, k + 1 \in R PROVE Low(R)
      OBVIOUS
    <3>1. CASE \E j \in R : j <= k
      <4>1. PICK j \in R : j <= k
        BY <3>1
      <4>2. j \in 0..k
        BY <4>1
      <4>3. j \in T
        BY <1>2, <4>2
      <4> HIDE DEF Low
      <4> QED
        BY <4>1, <4>3
    <3>2. CASE \A j \in R : ~(j <= k)
      BY <3>2
    <3> QED
      BY <3>1, <3>2
  <2>2. \A j \in 0..(k + 1) : j \in 0..k \/ j = k + 1
    BY SMT
  <2> HIDE DEF T
  <2> QED
    BY <1>2, <2>1, <2>2
<1> HIDE DEF U
<1>3. Nat \subseteq U
  BY <1>1, <1>2, Induct
<1>4. PICK k \in S : k \in Nat
  OBVIOUS
<1>5. k \in T
  <2>1. k \in U /\ k \in 0..k
    BY <1>3, <1>4
  <2> QED
    BY <2>1 DEF U
<1>6. Low(S)
  <2> HIDE DEF Low
  <2> QED
    BY <1>4, <1>5
<1> QED
  BY <1>6, Zenon DEF Min

=============================================================================
