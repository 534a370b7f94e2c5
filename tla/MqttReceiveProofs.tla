------------------------- MODULE MqttReceiveProofs -------------------------
(***************************************************************************)
(* For every buffer, every set of messages and every way their bytes come  *)
(* in: mqtt_message_receive keeps within its buffer; what the client hears *)
(* is what the broker sent; it gives up no connection without a reason;    *)
(* and it answers exactly what it heard.                                   *)
(***************************************************************************)
EXTENDS MqttReceive, MqttMsgProofs

---------------------------------------------------------------------------
\* The bytes of a message.

LEMMA WordType ==
    ASSUME NEW n \in Nat, n < 65536
    PROVE  Word(n) \in Seq(Byte)
<1>1. n \div 256 \in Byte /\ n % 256 \in Byte
  BY SMT DEF Byte
<1> QED
  BY <1>1 DEF Word

LEMMA FiniType ==
    ASSUME NEW type \in 0..15, NEW qos \in 0..3, NEW rest \in Seq(Byte)
    PROVE  fini_message(type, qos, rest) \in Seq(Byte)
<1>1. 16 * type + 2 * qos \in Byte
  BY SMT DEF Byte
<1>2. EncodedLens(Len(rest)) \in Seq(Byte)
  BY EncodedLensType
<1> QED
  BY <1>1, <1>2 DEF fini_message

LEMMA BytesType ==
    ASSUME NEW m \in Messages
    PROVE  Bytes(m) \in Seq(Byte)
<1>1. m \in MessageSet /\ m.id < 65536 /\ Len(m.topic) < 65536
  BY ReceiveAssumption
<1>2. /\ m.type \in {3, 4, 5, 6, 7, 9, 13}
      /\ m.qos \in 0..3
      /\ m.id \in Nat
      /\ m.topic \in Seq(Byte)
      /\ m.data \in Seq(Byte)
  BY <1>1 DEF MessageSet, PUBLISH, PUBACK, PUBREC, PUBREL, PUBCOMP, SUBACK, PINGRESP
<1>3. m.type \in 0..15
  BY <1>2
<1>4. <<>> \in Seq(Byte)
  OBVIOUS
<1>5. append_message_id(<<>>, m.id) \in Seq(Byte)
  BY <1>1, <1>2, WordType DEF append_message_id
<1>6. append_string(<<>>, m.topic) \in Seq(Byte)
  <2>1. Word(Len(m.topic)) \in Seq(Byte)
    BY <1>1, <1>2, WordType
  <2> QED
    BY <1>2, <2>1 DEF append_string
<1>7. append_message_id(append_string(<<>>, m.topic), m.id) \in Seq(Byte)
  BY <1>1, <1>2, <1>6, WordType DEF append_message_id
<1>8. CASE m.type = PUBLISH
  <2> DEFINE header == append_string(<<>>, m.topic)
             rest == (IF m.qos > 0 THEN append_message_id(header, m.id) ELSE header) \o m.data
  <2>1. rest \in Seq(Byte)
    BY <1>2, <1>6, <1>7
  <2>2. fini_message(PUBLISH, m.qos, rest) \in Seq(Byte)
    BY <1>2, <1>3, <1>8, <2>1, FiniType
  <2> QED
    BY <1>8, <2>2 DEF Bytes, mqtt_msg_publish
<1>9. CASE m.type # PUBLISH
  <2> DEFINE rest == (IF m.type = PINGRESP THEN <<>> ELSE append_message_id(<<>>, m.id))
                       \o m.data
             qos == IF m.type = PUBREL THEN 1 ELSE 0
  <2>1. rest \in Seq(Byte)
    BY <1>2, <1>4, <1>5
  <2>2. qos \in 0..3
    OBVIOUS
  <2>3. fini_message(m.type, qos, rest) \in Seq(Byte)
    BY <1>3, <2>1, <2>2, FiniType
  <2> QED
    BY <1>9, <2>3 DEF Bytes
<1> QED
  BY <1>8, <1>9

LEMMA ConnAckType ==
    ASSUME NEW code \in {0, 5}
    PROVE  ConnAck(code) \in Seq(Byte)
<1>1. <<0, code>> \in Seq(Byte)
  BY DEF Byte
<1>2. CONNACK \in 0..15 /\ 0 \in 0..3
  BY DEF CONNACK
<1>3. fini_message(CONNACK, 0, <<0, code>>) \in Seq(Byte)
  BY <1>1, <1>2, FiniType
<1> QED
  BY <1>3 DEF ConnAck

---------------------------------------------------------------------------
\* What is computed from the buffer.

LEMMA ByteArithmetic ==
    \A a, b \in Byte : a \in Nat /\ a % 128 \in Nat /\ 256 * a + b \in Nat
BY SMT DEF Byte

LEMMA PartType ==
    ASSUME NEW buffer \in Seq(Byte), NEW a \in Nat, NEW b \in Nat,
           a > 0, b <= Len(buffer)
    PROVE  /\ SubSeq(buffer, a, b) \in Seq(Byte)
           /\ Len(SubSeq(buffer, a, b)) = IF a <= b THEN b - a + 1 ELSE 0
OBVIOUS

LEMMA AppendType ==
    ASSUME NEW s \in Seq(Byte), NEW t \in Seq(Byte)
    PROVE  s \o t \in Seq(Byte) /\ Len(s \o t) = Len(s) + Len(t)
OBVIOUS

LEMMA MinOfSome ==
    ASSUME NEW S \in SUBSET (1..4), S # {}
    PROVE  Min(S) \in S
<1>1. \E x \in S : \A y \in S : x <= y
  <2>1. CASE 1 \in S
    BY <2>1, SMT
  <2>2. CASE 1 \notin S /\ 2 \in S
    BY <2>2, SMT
  <2>3. CASE 1 \notin S /\ 2 \notin S /\ 3 \in S
    BY <2>3, SMT
  <2>4. CASE 1 \notin S /\ 2 \notin S /\ 3 \notin S
    <3>1. \A y \in S : y = 4
      BY <2>4, SMT
    <3>2. PICK x \in S : x = 4
      BY <3>1
    <3>3. \A y \in S : x <= y
      BY <3>1, <3>2, SMT
    <3> QED
      BY <3>3
  <2> QED
    BY <2>1, <2>2, <2>3, <2>4
<1> QED
  BY <1>1, Zenon DEF Min

LEMMA MinOfTwo ==
    ASSUME NEW a \in Nat, NEW b \in Nat
    PROVE  Min({a, b}) = IF a <= b THEN a ELSE b
<1>1. CASE a <= b
  BY <1>1, MinIs
<1>2. CASE ~(a <= b)
  <2>1. b <= a
    BY <1>2, SMT
  <2> QED
    BY <1>2, <2>1, MinIs
<1> QED
  BY <1>1, <1>2

LEMMA MinOfThree ==
    ASSUME NEW a \in Nat, NEW b \in Nat, NEW c \in Nat
    PROVE  Min({a, b, c}) \in Nat /\ Min({a, b, c}) <= a /\ Min({a, b, c}) <= c
<1>1. \E x \in {a, b, c} : \A y \in {a, b, c} : x <= y
  <2>1. CASE a <= b /\ a <= c
    BY <2>1
  <2>2. CASE ~(a <= b) /\ b <= c
    BY <2>2
  <2>3. CASE ~(a <= c) /\ ~(b <= c)
    BY <2>3
  <2>4. CASE a <= b /\ ~(a <= c)
    BY <2>4
  <2> QED
    BY <2>1, <2>2, <2>3, <2>4
<1>2. PICK x \in {a, b, c} : \A y \in {a, b, c} : x <= y
  BY <1>1
<1>3. Min({a, b, c}) = x
  BY <1>2, MinIs
<1> QED
  BY <1>2, <1>3

LEMMA HeaderLenType ==
    ASSUME NEW buffer \in Seq(Byte), buffer # <<>>
    PROVE  FixedHeaderLen(buffer) \in 1..5 /\ FixedHeaderLen(buffer) <= Len(buffer)
<1> DEFINE last == {i \in 1..4 : i < Len(buffer) /\ buffer[i + 1] < 128}
<1>1. Len(buffer) \in Nat /\ Len(buffer) > 0
  OBVIOUS
<1>2. CASE last # {}
  <2>1. last \in SUBSET (1..4)
    OBVIOUS
  <2>2. Min(last) \in last
    <3> HIDE DEF last
    <3> QED
      BY <1>2, <2>1, MinOfSome
  <2>3. Min(last) \in 1..4 /\ Min(last) < Len(buffer)
    BY <2>2
  <2>4. FixedHeaderLen(buffer) = Min(last) + 1
    BY <1>2, Zenon DEF FixedHeaderLen, HeaderLen
  <2> HIDE DEF last
  <2> QED
    BY <1>1, <2>3, <2>4, SMT
<1>3. CASE last = {}
  <2>1. FixedHeaderLen(buffer) = Min({Len(buffer), 4 + 1})
    BY <1>3, Zenon DEF FixedHeaderLen, HeaderLen
  <2> HIDE DEF last
  <2>2. Min({Len(buffer), 5}) = IF Len(buffer) <= 5 THEN Len(buffer) ELSE 5
    BY <1>1, MinOfTwo
  <2>3. 4 + 1 = 5
    BY SMT
  <2>4. FixedHeaderLen(buffer) = IF Len(buffer) <= 5 THEN Len(buffer) ELSE 5
    BY <2>1, <2>2, <2>3, Zenon
  <2>5. CASE Len(buffer) <= 5
    <3>1. FixedHeaderLen(buffer) = Len(buffer)
      BY <2>4, <2>5, Zenon
    <3>2. PICK n \in Nat : n = Len(buffer)
      BY <1>1
    <3>3. n > 0 /\ n <= 5
      BY <1>1, <2>5, <3>2, Zenon
    <3>4. n \in 1..5 /\ n <= n
      BY <3>3, SMT
    <3> QED
      BY <3>1, <3>2, <3>4, Zenon
  <2>6. CASE ~(Len(buffer) <= 5)
    <3>1. FixedHeaderLen(buffer) = 5
      BY <2>4, <2>6, Zenon
    <3> QED
      BY <1>1, <2>6, <3>1, SMT
  <2> QED
    BY <2>5, <2>6
<1> QED
  BY <1>2, <1>3

LEMMA TotalLengthType ==
    ASSUME NEW buffer \in Seq(Byte), buffer # <<>>
    PROVE  mqtt_get_total_length(buffer) \in Nat
<1> DEFINE digit(k) == IF k < FixedHeaderLen(buffer) THEN buffer[k + 1] % 128 ELSE 0
<1>1. FixedHeaderLen(buffer) \in 1..5 /\ FixedHeaderLen(buffer) <= Len(buffer)
  BY HeaderLenType
<1>2. \A k \in 1..4 : digit(k) \in Nat
  <2> TAKE k \in 1..4
  <2>1. CASE k < FixedHeaderLen(buffer)
    <3>1. k + 1 \in 1..Len(buffer)
      BY <1>1, <2>1, SMT
    <3>2. buffer[k + 1] \in Byte
      BY <3>1
    <3>3. buffer[k + 1] % 128 \in Nat
      BY <3>2, ByteArithmetic
    <3> QED
      BY <2>1, <3>3
  <2>2. CASE ~(k < FixedHeaderLen(buffer))
    BY <2>2
  <2> QED
    BY <2>1, <2>2
<1>3. RemainingLength(buffer)
        = digit(1) + Weight[2] * digit(2) + Weight[3] * digit(3) + Weight[4] * digit(4)
  BY Zenon DEF RemainingLength
<1>4. digit(1) \in Nat /\ digit(2) \in Nat /\ digit(3) \in Nat /\ digit(4) \in Nat
  BY <1>2
<1> HIDE DEF digit
<1>5. RemainingLength(buffer) \in Nat
  BY <1>3, <1>4, Weights, SMT
<1> QED
  BY <1>1, <1>5, SMT DEF mqtt_get_total_length

\* The data of an event are bytes of the buffer.
LEMMA DataType ==
    ASSUME NEW buffer \in Seq(Byte), buffer # <<>>
    PROVE  mqtt_get_publish_data(buffer) \in Seq(Byte)
<1> DEFINE i == FixedHeaderLen(buffer)
           afterTopic == i + 2 + TopicLen(buffer, i)
           start == afterTopic + IF mqtt_get_qos(buffer) > 0 THEN 2 ELSE 0
           total == mqtt_get_total_length(buffer)
           null == \/ i + 2 >= Len(buffer)
                   \/ afterTopic >= Len(buffer)
                   \/ start > afterTopic /\ start >= Len(buffer)
                   \/ total < start
<1>1. i \in 1..5 /\ total \in Nat /\ Len(buffer) \in Nat
  BY HeaderLenType, TotalLengthType
<1>2. mqtt_get_publish_data(buffer)
        = IF null THEN <<>> ELSE SubSeq(buffer, start + 1, Min({total, Len(buffer)}))
  BY Zenon DEF mqtt_get_publish_data
<1>3. CASE null
  <2>1. <<>> \in Seq(Byte)
    OBVIOUS
  <2> HIDE DEF null
  <2> QED
    BY <1>2, <1>3, <2>1, Zenon
<1>4. CASE ~null
  <2>1. i + 1 \in 1..Len(buffer) /\ i + 2 \in 1..Len(buffer)
    BY <1>1, <1>4, SMT
  <2>2. buffer[i + 1] \in Byte /\ buffer[i + 2] \in Byte
    BY <2>1
  <2>3. TopicLen(buffer, i) \in Nat
    BY <2>2, ByteArithmetic, Zenon DEF TopicLen
  <2>4. start \in Nat
    BY <1>1, <2>3, SMT
  <2>5. Min({total, Len(buffer)}) \in Nat /\ Min({total, Len(buffer)}) <= Len(buffer)
    BY <1>1, MinOfTwo, SMT
  <2> HIDE DEF null, start, total
  <2>6. start + 1 \in Nat /\ start + 1 > 0
    BY <2>4, SMT
  <2>7. SubSeq(buffer, start + 1, Min({total, Len(buffer)})) \in Seq(Byte)
    BY <2>5, <2>6, PartType
  <2> QED
    BY <1>2, <1>4, <2>7, Zenon
<1> QED
  BY <1>3, <1>4

---------------------------------------------------------------------------
\* The steps.

\* ReceiveTypeOK is not inductive: a byte of the length is read without a
\* look at the room there is, so that it matters how many there can be.
RInv ==
    /\ ReceiveTypeOK
    /\ at = "length" => Len(in) < 6

LEMMA AtLeastNine == BufferLength \in Nat /\ BufferLength >= 9
BY ReceiveAssumption

LEMMA ReadType ==
    ASSUME ReceiveTypeOK, NEW n \in Int, NEW k, Read(k, n)
    PROVE  /\ k \in Nat /\ k > 0 /\ k <= n
           /\ in' \in Seq(Byte) /\ Len(in') = Len(in) + k /\ in' # <<>>
           /\ unread' \in Seq(Byte)
<1>1. k \in Nat /\ k > 0 /\ k <= n
  BY SMT DEF Read
<1>2. in \in Seq(Byte) /\ unread \in Seq(Byte) /\ k <= Len(unread)
  BY DEF ReceiveTypeOK, Read
<1>3. /\ SubSeq(unread, 1, k) \in Seq(Byte)
      /\ Len(SubSeq(unread, 1, k)) = k
  <2>1. 1 <= k /\ k - 1 + 1 = k
    BY <1>1, SMT
  <2> QED
    BY <1>1, <1>2, <2>1, PartType, SMT
<1>4. SubSeq(unread, k + 1, Len(unread)) \in Seq(Byte)
  <2>1. k + 1 \in Nat /\ k + 1 > 0 /\ Len(unread) \in Nat /\ Len(unread) <= Len(unread)
    BY <1>1, <1>2, SMT
  <2> QED
    BY <1>2, <2>1, PartType
<1>5. in' = in \o SubSeq(unread, 1, k) /\ unread' = SubSeq(unread, k + 1, Len(unread))
  BY DEF Read
<1>6. in' \in Seq(Byte) /\ Len(in') = Len(in) + k
  BY <1>2, <1>3, <1>5, AppendType, Zenon
<1>7. in' # <<>>
  BY <1>1, <1>2, <1>6
<1> QED
  BY <1>1, <1>4, <1>5, <1>6, <1>7

\* A read within the buffer, in a call of mqtt_message_receive, keeps the
\* invariant.
LEMMA ReadStep ==
    ASSUME RInv, at \in {"idle", "length", "body"}, link # "down",
           NEW n \in Int, NEW k, Read(k, n),
           Len(in) + k <= BufferLength,
           at' \in {"idle", "length", "body"},
           at' = "length" => Len(in) + k < 6,
           progress' \in BOOLEAN,
           UNCHANGED <<link, current, left, sent, heard, replies, failures>>
    PROVE  RInv'
<1>1. /\ in' \in Seq(Byte) /\ Len(in') = Len(in) + k /\ in' # <<>>
      /\ unread' \in Seq(Byte)
  BY ReadType DEF RInv
<1>2. Len(in') <= BufferLength /\ (at' = "length" => Len(in') < 6)
  BY <1>1
<1>3. left' = 0 /\ at' # "data" /\ left' \in Nat /\ ~(left' > 0)
  BY SMT DEF RInv, ReceiveTypeOK
<1> QED
  BY <1>1, <1>2, <1>3 DEF RInv, ReceiveTypeOK

LEMMA AbortStep ==
    ASSUME RInv, AbortConnection, failures' \in 0..MaxFailures
    PROVE  RInv'
<1>1. <<>> \in Seq(Byte) /\ <<>> \in Seq(Messages) /\ Len(<<>>) = 0
  OBVIOUS
<1>2. Nothing.data = <<>>
  BY DEF Nothing, Message
<1>3. 0 \in Nat /\ ~(0 > 0) /\ 0 <= MaxMessages
  BY ReceiveAssumption, SMT
<1> QED
  BY <1>1, <1>2, <1>3 DEF RInv, ReceiveTypeOK, AbortConnection

LEMMA BreaksStep ==
    ASSUME RInv, Breaks
    PROVE  RInv'
<1>1. failures' \in 0..MaxFailures
  BY ReceiveAssumption, SMT DEF RInv, ReceiveTypeOK, Breaks
<1> QED
  BY <1>1, AbortStep DEF Breaks

\* The end of a message.
LEMMA AnswerStep ==
    ASSUME RInv, NEW m, Answer(m),
           link' \in {"connecting", "up", "garbled"},
           unread' \in Seq(Byte), current'.data \in Seq(Byte), left' = 0,
           sent' = sent, failures' \in 0..MaxFailures
    PROVE  RInv'
<1>1. in' = <<>> /\ at' = "idle" /\ progress' = FALSE
  BY DEF Answer
<1>2. <<>> \in Seq(Byte) /\ Len(<<>>) = 0
  OBVIOUS
<1>3. 0 \in Nat /\ ~(0 > 0) /\ 0 <= BufferLength
  BY AtLeastNine, SMT
<1> QED
  BY <1>1, <1>2, <1>3 DEF RInv, ReceiveTypeOK

LEMMA InitType == Init => RInv
<1> SUFFICES ASSUME Init PROVE RInv
  OBVIOUS
<1>1. <<>> \in Seq(Byte) /\ <<>> \in Seq(Messages) /\ Len(<<>>) = 0
  OBVIOUS
<1>2. Nothing.data = <<>>
  BY DEF Nothing, Message
<1>3. /\ 0 \in Nat /\ ~(0 > 0) /\ 0 <= MaxMessages /\ 0 <= BufferLength
      /\ 0 \in 0..MaxFailures
  BY ReceiveAssumption, SMT
<1> QED
  BY <1>1, <1>2, <1>3 DEF Init, RInv, ReceiveTypeOK

LEMMA ReceiveStep ==
    ASSUME RInv, Receive
    PROVE  RInv'
<1>1. CASE ReadFirst
  <2>1. /\ Read(1, 1) /\ 1 \in Int /\ Len(in) + 1 = 1 /\ 1 < 6 /\ 1 <= BufferLength
        /\ at = "idle" /\ link # "down" /\ at' = "length" /\ progress' = TRUE
        /\ UNCHANGED <<link, current, left, sent, heard, replies, failures>>
    BY <1>1, AtLeastNine DEF ReadFirst
  <2> QED
    BY <2>1, ReadStep, Zenon
<1>2. CASE ReadFirstInvalid
  BY <1>2, AbortStep DEF ReadFirstInvalid, RInv, ReceiveTypeOK
<1>3. CASE Resume
  <2>1. at' \in {"length", "body"} /\ in # <<>> /\ link # "down"
    BY <1>3 DEF Resume
  <2>2. at' = "length" => Len(in) < 6
    BY <1>3, SMT DEF Resume, InLength
  <2>3. left = 0 /\ ~(left > 0)
    BY <1>3, SMT DEF Resume, RInv, ReceiveTypeOK
  <2> QED
    BY <1>3, <2>1, <2>2, <2>3 DEF Resume, RInv, ReceiveTypeOK
<1>4. CASE ReadLength
  <2>1. Len(in) < 6 /\ Len(in) \in Nat
    BY <1>4 DEF ReadLength, RInv, ReceiveTypeOK
  <2>2. Len(in') = Len(in) + 1
    BY <1>4, ReadType DEF ReadLength, RInv
  <2>3. /\ at' \in {"length", "body"}
        /\ at' = "length" => Len(in) + 1 < 6
    BY <1>4, <2>2, Zenon DEF ReadLength, InLength
  <2>4. Len(in) + 1 <= BufferLength
    BY <2>1, AtLeastNine, SMT
  <2>5. /\ Read(1, 1) /\ 1 \in Int /\ at = "length" /\ link # "down" /\ progress' = TRUE
        /\ UNCHANGED <<link, current, left, sent, heard, replies, failures>>
    BY <1>4 DEF ReadLength, RInv, ReceiveTypeOK
  <2> QED
    BY <2>3, <2>4, <2>5, ReadStep, Zenon
<1>5. CASE ReadTopicLen
  <2>1. in \in Seq(Byte) /\ in # <<>> /\ at = "body" /\ link # "down"
    BY <1>5 DEF ReadTopicLen, RInv, ReceiveTypeOK
  <2>2. FixedHeaderLen(in) \in 1..5
    BY <2>1, HeaderLenType
  <2>3. Len(in) < FixedHeaderLen(in) + 2 /\ Len(in) \in Nat
    BY <1>5, <2>1 DEF ReadTopicLen, LacksTopicLen
  <2>4. PICK k \in 1..3 : Read(k, Len(in) - FixedHeaderLen(in) + 2)
    BY <1>5 DEF ReadTopicLen
  <2>5. /\ Len(in) - FixedHeaderLen(in) + 2 \in Int
        /\ Len(in) + k <= BufferLength
    BY <2>2, <2>3, <2>4, AtLeastNine, SMT
  <2>6. /\ at' \in {"idle", "body"} /\ progress' \in BOOLEAN
        /\ UNCHANGED <<link, current, left, sent, heard, replies, failures>>
    BY <1>5 DEF ReadTopicLen
  <2> QED
    BY <2>1, <2>4, <2>5, <2>6, ReadStep
<1>6. CASE Refuse
  BY <1>6, AbortStep DEF Refuse, RInv, ReceiveTypeOK
<1>7. CASE ReadRest
  <2>1. in \in Seq(Byte) /\ in # <<>> /\ at = "body" /\ link # "down"
    BY <1>7 DEF ReadRest, RInv, ReceiveTypeOK
  <2>2. Wanted \in Nat /\ Wanted <= BufferLength /\ Len(in) \in Nat
    <3>1. MessageLength \in Nat
      BY <2>1, TotalLengthType DEF MessageLength
    <3> QED
      BY <2>1, <3>1, AtLeastNine, SMT DEF Wanted, DoesNotFit
  <2>3. PICK k \in 1..BufferLength : Read(k, Wanted - Len(in))
    BY <1>7 DEF ReadRest
  <2>4. k \in Nat /\ k <= Wanted - Len(in)
    BY <2>2, <2>3, ReadType, SMT DEF RInv
  <2>5. Wanted - Len(in) \in Int /\ Len(in) + k <= BufferLength
    <3>1. \A w, n, b, j \in Nat :
             w <= b /\ j <= w - n => w - n \in Int /\ n + j <= b
      BY SMT
    <3> QED
      BY <2>2, <2>4, <3>1, AtLeastNine, Zenon
  <2>6. /\ at' \in {"idle", "body"} /\ progress' \in BOOLEAN
        /\ UNCHANGED <<link, current, left, sent, heard, replies, failures>>
    BY <1>7 DEF ReadRest
  <2> QED
    BY <2>1, <2>3, <2>5, <2>6, ReadStep
<1>8. CASE TimesOut
  <2>1. CASE Breaks
    BY <2>1, BreaksStep
  <2>2. CASE ~Breaks
    <3>1. /\ at' = "idle" /\ progress' = FALSE
          /\ UNCHANGED <<link, unread, in, current, left, sent, heard, replies, failures>>
      BY <1>8, <2>2, Zenon DEF TimesOut
    <3>2. left = 0 /\ ~(left > 0)
      BY <1>8, SMT DEF TimesOut, RInv, ReceiveTypeOK
    <3> QED
      BY <3>1, <3>2 DEF RInv, ReceiveTypeOK
  <2> QED
    BY <2>1, <2>2
<1>9. CASE ProcessConnAck
  <2>1. failures' \in 0..MaxFailures
    BY <1>9 DEF ProcessConnAck, RInv, ReceiveTypeOK
  <2>2. CASE AbortConnection
    BY <2>1, <2>2, AbortStep
  <2>3. CASE ~AbortConnection
    <3>1. /\ link' = "up" /\ in' = <<>> /\ at' = "idle" /\ progress' = FALSE
          /\ UNCHANGED <<unread, current, left, sent, heard, replies, failures>>
      BY <1>9, <2>3, Zenon DEF ProcessConnAck
    <3>2. left = 0 /\ ~(left > 0)
      BY <1>9, SMT DEF ProcessConnAck, Complete, RInv, ReceiveTypeOK
    <3>3. <<>> \in Seq(Byte) /\ Len(<<>>) = 0 /\ 0 <= BufferLength
      BY AtLeastNine
    <3> QED
      BY <3>1, <3>2, <3>3 DEF RInv, ReceiveTypeOK
  <2> QED
    BY <2>2, <2>3
<1>10. CASE ProcessPublish
  <2> DEFINE data == mqtt_get_publish_data(in)
             rest == MessageLength - Len(in)
             m == [type |-> PUBLISH, qos |-> mqtt_get_qos(in),
                   id |-> mqtt_get_id(in, MessageLength),
                   topic |-> mqtt_get_publish_topic(in), data |-> data,
                   total |-> Len(data) + rest]
  <2>1. /\ in \in Seq(Byte) /\ in # <<>> /\ at = "body" /\ link = "up"
        /\ left = 0 /\ unread \in Seq(Byte) /\ current.data \in Seq(Byte)
        /\ failures \in 0..MaxFailures
    BY <1>10, SMT DEF ProcessPublish, Complete, RInv, ReceiveTypeOK
  <2>2. data \in Seq(Byte) /\ Len(data) \in Nat /\ rest \in Int
    BY <2>1, DataType, TotalLengthType DEF MessageLength
  <2>3. m.data = data /\ m.total = Len(data) + rest
    OBVIOUS
  <2>4. UNCHANGED <<link, unread, sent, failures>>
    BY <1>10 DEF ProcessPublish
  <2>5. CASE rest > 0
    <3>1. /\ current' = m /\ left' = rest /\ at' = "data"
          /\ UNCHANGED <<in, progress, heard, replies>>
      BY <1>10, <2>5, Zenon DEF ProcessPublish
    <3> HIDE DEF data, rest, m
    <3>2. rest \in Nat
      BY <2>2, <2>5, SMT
    <3> QED
      BY <2>1, <2>2, <2>3, <2>4, <2>5, <3>1, <3>2 DEF RInv, ReceiveTypeOK
  <2>6. CASE ~(rest > 0)
    <3>1. Answer(m) /\ UNCHANGED <<current, left>>
      BY <1>10, <2>6, Zenon DEF ProcessPublish
    <3> HIDE DEF data, rest, m
    <3> QED
      BY <2>1, <2>4, <3>1, AnswerStep
  <2> QED
    BY <2>5, <2>6
<1>11. CASE PublishWithoutTopic
  BY <1>11, AbortStep DEF PublishWithoutTopic, RInv, ReceiveTypeOK
<1>12. CASE ReadData
  <2>1. /\ link \in {"connecting", "up", "garbled"} /\ unread \in Seq(Byte)
        /\ current.data \in Seq(Byte) /\ failures \in 0..MaxFailures
        /\ left \in Nat /\ at = "data" /\ Len(current.data) + left = current.total
    BY <1>12 DEF ReadData, RInv, ReceiveTypeOK
  <2>2. UNCHANGED <<link, sent, failures>>
    BY <1>12 DEF ReadData
  <2>3. PICK k \in 1..Min({left, BufferLength, Len(unread)}) :
          LET m == WithData(current, current.data \o SubSeq(unread, 1, k))
          IN /\ unread' = SubSeq(unread, k + 1, Len(unread))
             /\ IF k = left
                THEN left' = 0 /\ current' = Nothing /\ Answer(m)
                ELSE left' = left - k /\ current' = m /\ UNCHANGED <<in, at, progress, heard, replies>>
    BY <1>12, Zenon DEF ReadData
  <2> DEFINE part == SubSeq(unread, 1, k)
             m == WithData(current, current.data \o part)
  <2>4. k \in Nat /\ k > 0 /\ k <= left /\ k <= Len(unread)
    <3> DEFINE S == {left, BufferLength, Len(unread)}
    <3>1. left \in Nat /\ BufferLength \in Nat /\ Len(unread) \in Nat
      BY <2>1, AtLeastNine
    <3>2. Min(S) \in Nat /\ Min(S) <= left /\ Min(S) <= Len(unread)
      BY <3>1, MinOfThree
    <3> QED
      BY <2>3, <3>1, <3>2, SMT
  <2>5. part \in Seq(Byte) /\ Len(part) = k
    <3>1. 1 \in Nat /\ 1 > 0 /\ 1 <= k /\ k - 1 + 1 = k
      BY <2>4, SMT
    <3> QED
      BY <2>1, <2>4, <3>1, PartType, Zenon
  <2>6. unread' \in Seq(Byte)
    <3>1. k + 1 \in Nat /\ k + 1 > 0 /\ Len(unread) \in Nat /\ Len(unread) <= Len(unread)
      BY <2>1, <2>4, SMT
    <3> QED
      BY <2>1, <2>3, <3>1, PartType
  <2>7. CASE k = left
    <3>1. left' = 0 /\ current' = Nothing /\ Answer(m)
      BY <2>3, <2>7, Zenon
    <3>2. Nothing.data \in Seq(Byte)
      BY DEF Nothing, Message
    <3> HIDE DEF m
    <3> QED
      BY <2>1, <2>2, <2>6, <3>1, <3>2, AnswerStep
  <2>8. CASE k # left
    <3>1. left' = left - k /\ current' = m /\ UNCHANGED <<in, at, progress, heard, replies>>
      BY <2>3, <2>8, Zenon
    <3>2. m.data = current.data \o part /\ m.total = current.total
      BY DEF WithData
    <3>3. current'.data \in Seq(Byte) /\ Len(current'.data) = Len(current.data) + k
      <4> HIDE DEF part, m
      <4> QED
        BY <2>1, <2>5, <3>1, <3>2, AppendType, Zenon
    <3>4. current'.total = current.total
      BY <3>1, <3>2, Zenon
    <3> HIDE DEF m, part
    <3>5. left' \in Nat /\ left' > 0
      BY <2>1, <2>4, <2>8, <3>1, SMT
    <3>6. Len(current'.data) + left' = current'.total
      BY <2>1, <2>4, <3>1, <3>3, <3>4, SMT
    <3> QED
      BY <2>1, <2>2, <2>6, <3>1, <3>3, <3>5, <3>6 DEF RInv, ReceiveTypeOK
  <2> QED
    BY <2>7, <2>8
<1>13. CASE DataTimesOut
  <2>1. failures' \in 0..MaxFailures
    BY <1>13, ReceiveAssumption, SMT DEF DataTimesOut, RInv, ReceiveTypeOK
  <2>2. Nothing.data \in Seq(Byte)
    BY DEF Nothing, Message
  <2>3. /\ link' = "garbled" /\ left' = 0 /\ current' = Nothing /\ Answer(current)
        /\ unread' \in Seq(Byte) /\ sent' = sent
    BY <1>13 DEF DataTimesOut, RInv, ReceiveTypeOK
  <2> QED
    BY <2>1, <2>2, <2>3, AnswerStep
<1>14. CASE ProcessOther
  <2>1. /\ in' = <<>> /\ at' = "idle" /\ progress' = FALSE
        /\ UNCHANGED <<link, unread, current, left, sent, failures>>
    BY <1>14, Zenon DEF ProcessOther
  <2>2. left = 0 /\ ~(left > 0)
    BY <1>14, SMT DEF ProcessOther, Complete, RInv, ReceiveTypeOK
  <2>3. <<>> \in Seq(Byte) /\ Len(<<>>) = 0 /\ 0 <= BufferLength
    BY AtLeastNine
  <2> QED
    BY <2>1, <2>2, <2>3 DEF RInv, ReceiveTypeOK
<1> QED
  BY <1>1, <1>2, <1>3, <1>4, <1>5, <1>6, <1>7, <1>8, <1>9, <1>10, <1>11, <1>12,
     <1>13, <1>14, Zenon DEF Receive

LEMMA NetworkStep ==
    ASSUME RInv, Network
    PROVE  RInv'
<1>1. CASE Breaks
  BY <1>1, BreaksStep
<1>2. CASE Connect
  <2>1. /\ link' = "connecting" /\ in' = <<>> /\ failures' \in 0..MaxFailures
        /\ unread' \in Seq(Byte)
        /\ UNCHANGED <<at, progress, current, left, sent, heard, replies>>
    <3>1. PICK code \in {0, 5} :
            /\ code # 0 => failures < MaxFailures
            /\ failures' = failures + (IF code = 0 THEN 0 ELSE 1)
            /\ unread' = ConnAck(code)
      BY <1>2 DEF Connect
    <3>2. failures' \in 0..MaxFailures
      BY <3>1, ReceiveAssumption, SMT DEF RInv, ReceiveTypeOK
    <3>3. unread' \in Seq(Byte)
      BY <3>1, ConnAckType
    <3> QED
      BY <1>2, <3>2, <3>3 DEF Connect
  <2>2. at = "idle"
    BY <1>2 DEF Connect, RInv, ReceiveTypeOK
  <2>3. <<>> \in Seq(Byte) /\ Len(<<>>) = 0 /\ 0 <= BufferLength
    BY AtLeastNine
  <2> QED
    BY <2>1, <2>2, <2>3 DEF RInv, ReceiveTypeOK
<1>3. CASE \E m \in Messages : BrokerSends(m)
  <2>1. PICK m \in Messages : BrokerSends(m)
    BY <1>3
  <2>2. unread' \in Seq(Byte)
    BY <2>1, BytesType, AppendType DEF BrokerSends, RInv, ReceiveTypeOK
  <2>3. sent' \in Seq(Messages) /\ Len(sent') <= MaxMessages
    BY <2>1, ReceiveAssumption DEF BrokerSends, RInv, ReceiveTypeOK
  <2>4. UNCHANGED <<link, in, at, progress, current, left, heard, replies, failures>>
    BY <2>1 DEF BrokerSends
  <2> QED
    BY <2>2, <2>3, <2>4 DEF RInv, ReceiveTypeOK
<1> QED
  BY <1>1, <1>2, <1>3 DEF Network

LEMMA StepType == RInv /\ [Next]_vars => RInv'
<1> SUFFICES ASSUME RInv, [Next]_vars PROVE RInv'
  OBVIOUS
<1>1. CASE Next
  BY <1>1, NetworkStep, ReceiveStep DEF Next
<1>2. CASE UNCHANGED vars
  BY <1>2 DEF vars, RInv, ReceiveTypeOK
<1> QED
  BY <1>1, <1>2

\* mqtt_message_receive never writes beyond in_buffer, nor counts more or
\* fewer bytes of a PUBLISH than there are (mqtt_client.c:1431, 1252).
THEOREM ReceiveTypeCorrect == Spec => []ReceiveTypeOK
<1>1. RInv => ReceiveTypeOK
  BY DEF RInv
<1> QED
  BY <1>1, InitType, StepType, PTL DEF Spec

---------------------------------------------------------------------------
\* The messages in bytes.

\* Zenon cannot take the number itself.
LEMMA Room == MaxRemaining \in Nat /\ 200 <= MaxRemaining
BY SMT DEF MaxRemaining

\* The types of the parts of a message.
LEMMA MessageParts ==
    ASSUME NEW m \in Messages
    PROVE  /\ m.type \in 3..13 /\ m.type \in {3, 4, 5, 6, 7, 9, 13}
           /\ m.qos \in 0..3 /\ m.id \in Nat /\ m.id <= MaxWord
           /\ m.topic \in Seq(Byte) /\ Len(m.topic) <= MaxWord
           /\ m.data \in Seq(Byte) /\ m.total \in Nat
           /\ m = [type |-> m.type, qos |-> m.qos, id |-> m.id, topic |-> m.topic,
                   data |-> m.data, total |-> m.total]
<1>1. m \in MessageSet /\ m.id < 65536 /\ Len(m.topic) < 65536
  BY ReceiveAssumption
<1>2. /\ m.type \in {3, 4, 5, 6, 7, 9, 13}
      /\ m.qos \in 0..3
      /\ m.id \in Nat
      /\ m.topic \in Seq(Byte)
      /\ m.data \in Seq(Byte) /\ m.total \in Nat
  BY <1>1 DEF MessageSet, PUBLISH, PUBACK, PUBREC, PUBREL, PUBCOMP, SUBACK, PINGRESP
<1>3. m.id <= MaxWord
  BY <1>1, <1>2, SMT DEF MaxWord
<1>4. Len(m.topic) <= MaxWord
  BY <1>1, <1>2, SMT DEF MaxWord
<1>5. m = [type |-> m.type, qos |-> m.qos, id |-> m.id, topic |-> m.topic,
           data |-> m.data, total |-> m.total]
  BY <1>1 DEF MessageSet
<1>6. m.type \in 3..13
  BY <1>2
<1> QED
  BY <1>2, <1>3, <1>4, <1>5, <1>6, Zenon

\* A PUBLISH in bytes.
LEMMA PublishBytes ==
    ASSUME NEW m \in Messages, Ordinary(m), m.type = PUBLISH
    PROVE  LET g == Bytes(m)
               h == FixedHeaderLen(g)
           IN /\ Framed(g, h)
              /\ HasBody(g, h, m.topic, m.data, m.qos, m.id)
              /\ \A read \in h..Len(g) :
                    ReadsPublish(g, h, read, m.topic, m.data, m.qos, m.id)
<1> DEFINE g == Bytes(m)
           h == FixedHeaderLen(g)
<1>1. /\ m.qos \in 0..3 /\ m.id \in Nat /\ m.id <= MaxWord
      /\ m.topic \in Seq(Byte) /\ Len(m.topic) <= MaxWord /\ m.data \in Seq(Byte)
  BY MessageParts, Zenon
<1>2. g = mqtt_msg_publish(m.topic, m.data, m.qos, m.id)
  BY Zenon DEF Bytes
<1>3. 2 + Len(m.topic) + IdLen(m.qos) + Len(m.data) <= MaxRemaining
  <2>1. Len(m.topic) \in Nat /\ Len(m.data) \in Nat
    BY <1>1, LenProperties, Zenon
  <2>2. IdLen(m.qos) \in {0, 2}
    BY DEF IdLen
  <2>3. 4 + Len(m.topic) + Len(m.data) <= MaxRemaining
    BY DEF Ordinary
  <2>4. \A t, d, r \in Nat : \A i \in {0, 2} : 4 + t + d <= r => 2 + t + i + d <= r
    OBVIOUS
  <2> QED
    BY <2>1, <2>2, <2>3, <2>4, Room, Zenon
<1> HIDE DEF g
<1>4. /\ Framed(g, h)
      /\ g[1] = 16 * PUBLISH + 2 * m.qos
      /\ HasBody(g, h, m.topic, m.data, m.qos, m.id)
  BY <1>1, <1>2, <1>3, PublishParts
<1>5. \A read \in h..Len(g) : ReadsPublish(g, h, read, m.topic, m.data, m.qos, m.id)
  <2> HIDE DEF h
  <2> QED
    BY <1>1, <1>4, PublishReads, Zenon
<1> QED
  BY <1>4, <1>5, Zenon DEF g

\* Another message in bytes.
LEMMA OtherBytes ==
    ASSUME NEW m \in Messages, Ordinary(m), m.type # PUBLISH
    PROVE  LET g == Bytes(m)
           IN /\ Framed(g, 2)
              /\ SaysType(g, m.type)
              /\ mqtt_get_id(g, Len(g)) = m.id
              /\ m.type = SUBACK => SubSeq(g, 5, Len(g)) = m.data
<1> DEFINE g == Bytes(m)
           q == IF m.type = PUBREL THEN 1 ELSE 0
           rest == (IF m.type = PINGRESP THEN <<>> ELSE append_message_id(<<>>, m.id)) \o m.data
<1>1. /\ m.type \in {4, 5, 6, 7, 9, 13} /\ m.id \in Nat /\ m.id <= MaxWord
      /\ m.data \in Seq(Byte) /\ q \in 0..3
  BY MessageParts, SMT DEF PUBLISH
<1>2. g = fini_message(m.type, q, rest)
  BY Zenon DEF Bytes
<1>3. m.type = PINGRESP => rest = <<>>
  BY DEF Ordinary, PINGRESP, PUBLISH, SUBACK
<1>4. Len(m.data) <= 125
  BY DEF Ordinary
<1>5. m.type # PINGRESP => rest = append_message_id(<<>>, m.id) \o m.data
  BY Zenon
<1>6. m.type \in 0..15
  BY <1>1
<1>7. m.type # PINGRESP => m.type \in 4..11
  BY <1>1, SMT DEF PINGRESP
<1>8. rest \in Seq(Byte)
  <2>1. <<>> \in Seq(Byte)
    OBVIOUS
  <2>2. Word(m.id) \in Seq(Byte)
    BY <1>1, WordIs, Zenon
  <2>3. append_message_id(<<>>, m.id) \in Seq(Byte)
    BY <2>1, <2>2 DEF append_message_id
  <2> QED
    BY <1>1, <2>1, <2>3
<1> HIDE DEF g, q, rest
<1>9. SaysType(g, m.type)
  BY <1>1, <1>2, <1>6, <1>8, TypeOfPart
<1>10. CASE m.type = PINGRESP
  <2>1. Len(rest) = 0 /\ 0 \in Nat /\ 0 < 128 /\ Len(rest) <= MaxRemaining
    BY <1>3, <1>10, Room
  <2>2. LenBytes(Len(rest)) = 1 /\ 1 + 1 = 2
    BY <2>1, OneByteLength
  <2>3. Framed(g, 2)
    BY <1>1, <1>2, <1>6, <1>8, <2>1, <2>2, FiniFramed
  <2>4. mqtt_get_id(g, Len(g)) = 0
    <3>1. g \in Seq(Byte) /\ Len(g) \in 1..Len(g)
      BY <2>3 DEF Framed
    <3>2. SubSeq(g, 1, Len(g)) = g
      BY <3>1, SubSeqFull, Zenon
    <3>3. mqtt_get_type(g) = 13
      BY <1>9, <1>10, <3>1, <3>2, Zenon DEF PINGRESP, SaysType
    <3> QED
      BY <3>3, SMT DEF mqtt_get_id, PUBLISH
  <2> QED
    BY <1>9, <1>10, <2>3, <2>4 DEF g, Ordinary, SUBACK, PINGRESP
<1>11. CASE m.type # PINGRESP
  <2>1. ReadsAck(g, m.type, m.data, m.id)
    BY <1>1, <1>2, <1>4, <1>5, <1>7, <1>11, AckReads
  <2> QED
    BY <1>9, <2>1, Zenon DEF g, ReadsAck
<1> QED
  BY <1>10, <1>11, Zenon

\* CONNACK in bytes.
LEMMA ConnAckBytes ==
    ASSUME NEW code \in {0, 5}
    PROVE  LET g == ConnAck(code)
           IN /\ Framed(g, 2)
              /\ SaysType(g, CONNACK)
              /\ ~Misleading(g)
<1> DEFINE g == ConnAck(code)
           rest == <<0, code>>
<1>1. rest \in Seq(Byte) /\ Len(rest) = 2 /\ rest[2] = code /\ rest[1] = 0
  BY DEF Byte
<1>2. g = fini_message(CONNACK, 0, rest)
  BY Zenon DEF ConnAck
<1>3. CONNACK \in 0..15 /\ 0 \in 0..3 /\ 2 \in Nat /\ 2 < 128 /\ 2 <= MaxRemaining /\ 1 + 1 = 2
  BY Room DEF CONNACK
<1> HIDE DEF g, rest
<1>4. LenBytes(Len(rest)) = 1
  BY <1>1, <1>3, OneByteLength, Zenon
<1>5. Framed(g, 2)
  BY <1>1, <1>2, <1>3, <1>4, FiniFramed
<1>6. SaysType(g, CONNACK)
  BY <1>1, <1>2, <1>3, TypeOfPart
<1>7. Written(g, 1, CONNACK, 0, rest)
  BY <1>1, <1>2, <1>3, <1>4, FiniWrites
<1>8. Len(g) = 4 /\ g[4] = code
  BY <1>1, <1>7 DEF Written
<1>9. ~Misleading(g)
  <2>1. code < 128 /\ ~(code >= 128)
    OBVIOUS
  <2> QED
    BY <1>8, <2>1, Zenon DEF Misleading
<1> QED
  BY <1>5, <1>6, <1>9, Zenon DEF g

---------------------------------------------------------------------------
\* That the client hears what was sent is not inductive: nothing in it says where in
\* the bytes the client is.  SentInv says so: what is in the buffer and what is on
\* its way are, together, the messages that were not heard, from the first byte of
\* the next one on; the buffer never reaches beyond the end of that message, and
\* `at' fits the bytes of it that are there.  Between the events of a large PUBLISH
\* it is the data that go on where they stopped.

\* f[k] is what follows the first k messages of s.
Stream(f, s) ==
    /\ f \in [0..Len(s) -> Seq(Byte)]
    /\ f[Len(s)] = <<>>
    /\ \A k \in 1..Len(s) : f[k - 1] = Bytes(s[k]) \o f[k]

\* What is in the buffer is the beginning of g, and mqtt_message_receive
\* is where it should be in it.
Expect(g, rest) ==
    /\ in \o unread = g \o rest
    /\ Len(in) <= Len(g)
    /\ at = "length" => Len(in) < Len(g) /\ (Len(in) = 1 \/ InLength(in))
    /\ at = "body" => Len(in) >= FixedHeaderLen(g)
    /\ at = "idle" /\ in # <<>> => Len(in) < Len(g)

\* The data of m that were not delivered yet come next.
Delivering(m, rest) ==
    \E tail \in Seq(Byte) :
        /\ unread = tail \o rest /\ Len(tail) = left
        /\ current = WithData(m, current.data)
        /\ m.data = current.data \o tail

\* The connection stands after n messages.
Coming(f, n) ==
    IF at = "data"
    THEN n < Len(sent) /\ Delivering(sent[n + 1], f[n + 1])
    ELSE /\ in \o unread = f[n]
         /\ in # <<>> => n < Len(sent) /\ Expect(Bytes(sent[n + 1]), f[n + 1])

\* Behind CONNACK come the messages of the connection, all of them: until CONNACK is
\* processed none is heard, and a connection that is down owes nothing.
SentInv ==
    /\ RInv
    /\ at # "idle" => link \in {"connecting", "up"}
    /\ link # "garbled" =>
          /\ heard \in Seq(Messages) /\ Len(heard) <= Len(sent)
          /\ heard = SubSeq(sent, 1, Len(heard))
    /\ link \in {"down", "connecting"} => heard = <<>>
    /\ link = "down" => sent = <<>>
    /\ link = "connecting" =>
          /\ at # "data"
          /\ \E f, code : Stream(f, sent) /\ code \in {0, 5} /\ Expect(ConnAck(code), f[0])
    /\ link = "up" => \E f : Stream(f, sent) /\ Coming(f, Len(heard))

---------------------------------------------------------------------------
\* A part of a message.

LEMMA Prefix ==
    ASSUME NEW b \in Seq(Byte), NEW u \in Seq(Byte), NEW g \in Seq(Byte), NEW r \in Seq(Byte),
           b \o u = g \o r, Len(b) <= Len(g)
    PROVE  /\ Len(b) \in 0..Len(g)
           /\ b = SubSeq(g, 1, Len(b))
           /\ \A i \in 1..Len(b) : b[i] = g[i]
<1>1. Joins(b \o u, b, u) /\ Joins(g \o r, g, r)
  BY Joined, Zenon
<1>2. Len(b) \in Nat /\ Len(g) \in Nat
  BY LenProperties, Zenon
<1>3. Len(b) \in 0..Len(g) /\ \A i \in 1..Len(b) : i \in 1..Len(g)
  BY <1>2
<1>4. \A i \in 1..Len(b) : b[i] = g[i]
  <2> TAKE i \in 1..Len(b)
  <2>1. (b \o u)[i] = b[i]
    BY <1>1, Zenon DEF Joins
  <2>2. (g \o r)[i] = g[i]
    BY <1>1, <1>3, Zenon DEF Joins
  <2> QED
    BY <2>1, <2>2, Zenon
<1> DEFINE p == SubSeq(g, 1, Len(b))
<1>5. p \in Seq(Byte) /\ Len(p) = Len(b) /\ \A i \in 1..Len(b) : p[i] = g[i]
  BY <1>3, PartAgrees, Zenon
<1> HIDE DEF p
<1>6. \A i \in 1..Len(b) : b[i] = p[i]
  BY <1>4, <1>5, Zenon
<1>7. b = p
  BY <1>5, <1>6, SeqEqual, Zenon
<1> QED
  BY <1>3, <1>4, <1>7, Zenon DEF p

\* \o is injective in its second argument, and associative.
LEMMA CancelLeft ==
    ASSUME NEW b \in Seq(Byte), NEW u \in Seq(Byte), NEW v \in Seq(Byte), b \o u = b \o v
    PROVE  u = v
<1>1. Joins(b \o u, b, u) /\ Joins(b \o v, b, v)
  BY Joined, Zenon
<1>2. Len(u) = Len(v)
  <2>1. Len(b) + Len(u) = Len(b) + Len(v)
    BY <1>1, Zenon DEF Joins
  <2>2. Len(b) \in Nat /\ Len(u) \in Nat /\ Len(v) \in Nat
    BY LenProperties, Zenon
  <2> QED
    BY <2>1, <2>2, SMT
<1>3. \A i \in 1..Len(u) : u[i] = v[i]
  BY <1>1, <1>2, Zenon DEF Joins
<1> QED
  BY <1>2, <1>3, SeqEqual, Zenon

LEMMA Reassociate ==
    ASSUME NEW b \in Seq(Byte), NEW t \in Seq(Byte), NEW r \in Seq(Byte)
    PROVE  (b \o t) \o r = b \o (t \o r)
BY ConcatAssociative

\* What has been read is the message, or a part of it, and the rest is unread.
LEMMA WholeRead ==
    ASSUME NEW b \in Seq(Byte), NEW u \in Seq(Byte), NEW g \in Seq(Byte), NEW r \in Seq(Byte),
           b \o u = g \o r, Len(b) = Len(g)
    PROVE  b = g /\ u = r
<1>1. Len(b) <= Len(g)
  BY LenProperties
<1>2. \A i \in 1..Len(b) : b[i] = g[i]
  BY <1>1, Prefix, Zenon
<1>3. b = g
  BY <1>2, SeqEqual, Zenon
<1>4. u = r
  BY <1>3, CancelLeft, Zenon
<1> QED
  BY <1>3, <1>4

LEMMA PartRead ==
    ASSUME NEW b \in Seq(Byte), NEW u \in Seq(Byte), NEW g \in Seq(Byte), NEW r \in Seq(Byte),
           b \o u = g \o r, Len(b) <= Len(g)
    PROVE  u = SubSeq(g, Len(b) + 1, Len(g)) \o r
<1> DEFINE n == Len(b)
           t == SubSeq(g, n + 1, Len(g))
<1>1. n \in 0..Len(g) /\ b = SubSeq(g, 1, n) /\ Len(g) \in Nat
  BY Prefix, LenProperties, Zenon
<1>2. t \in Seq(Byte) /\ b \o t = g
  <2>1. 1 \in 1..(Len(g) + 1) /\ n \in (1 - 1)..Len(g) /\ Len(g) \in n..Len(g)
    BY <1>1
  <2>2. SubSeq(g, 1, n) \o SubSeq(g, n + 1, Len(g)) = SubSeq(g, 1, Len(g))
    <3> HIDE DEF n
    <3> QED
      BY <2>1, ConcatAdjacentSubSeq, Zenon
  <2>3. SubSeq(g, 1, Len(g)) = g
    BY SubSeqFull, Zenon
  <2>4. t \in Seq(Byte)
    <3> HIDE DEF n
    <3> QED
      BY <1>1
  <2> QED
    BY <1>1, <2>2, <2>3, <2>4, Zenon
<1> HIDE DEF t
<1>3. b \o u = b \o (t \o r)
  <2>1. (b \o t) \o r = b \o (t \o r)
    BY <1>2, Reassociate, Zenon
  <2> QED
    BY <1>2, <2>1, Zenon
<1>4. t \o r \in Seq(Byte)
  BY <1>2
<1>5. u = t \o r
  BY <1>3, <1>4, CancelLeft, Zenon
<1> QED
  BY <1>5 DEF t

\* As soon as the header is there, the length is.
LEMMA PartOfFrame ==
    ASSUME NEW g, NEW h, Framed(g, h), NEW b, b = SubSeq(g, 1, Len(b)), Len(b) \in 0..Len(g),
           Len(b) >= h
    PROVE  FixedHeaderLen(b) = h /\ mqtt_get_total_length(b) = Len(g)
<1>1. Len(b) \in h..Len(g)
  BY DEF Framed
<1> QED
  BY <1>1, Zenon DEF Framed

\* A byte below 128, not the first, ends the header.
LEMMA HeaderEnds ==
    ASSUME NEW g, NEW h, Framed(g, h), NEW b, \A i \in 1..Len(b) : b[i] = g[i],
           Len(b) \in 0..Len(g), Len(b) >= 2, ~InLength(b)
    PROVE  Len(b) >= h
<1>1. h \in 2..5 /\ Len(b) \in Nat
  BY DEF Framed
<1> SUFFICES ASSUME ~(Len(b) >= h) PROVE FALSE
  OBVIOUS
<1>2. Len(b) \in 2..(h - 1) /\ Len(b) \in 1..Len(b) /\ Len(b) < 6
  BY <1>1
<1>3. b[Len(b)] >= 128
  BY <1>2, Zenon DEF Framed
<1> QED
  BY <1>2, <1>3, Zenon DEF InLength

---------------------------------------------------------------------------
\* A step within a message.

\* A step of mqtt_message_receive that ends no message.
Reads ==
    \/ ReadFirst \/ Resume \/ ReadLength \/ ReadTopicLen \/ ReadRest
    \/ TimesOut /\ ~Breaks

\* The buffer after a read that stays within the message.
LEMMA ReadMoves ==
    ASSUME ReceiveTypeOK, NEW n \in Int, NEW k, Read(k, n),
           NEW g \in Seq(Byte), NEW rest \in Seq(Byte),
           in \o unread = g \o rest, Len(in) + k <= Len(g)
    PROVE  /\ in' \in Seq(Byte) /\ unread' \in Seq(Byte)
           /\ in' \o unread' = g \o rest
           /\ Len(in') = Len(in) + k
           /\ Len(in') \in 0..Len(g)
           /\ in' = SubSeq(g, 1, Len(in'))
           /\ \A i \in 1..Len(in') : in'[i] = g[i]
<1>1. /\ k \in Nat /\ k > 0 /\ k <= n
      /\ in' \in Seq(Byte) /\ Len(in') = Len(in) + k
      /\ unread' \in Seq(Byte)
  BY ReadType, Zenon
<1>2. in \in Seq(Byte) /\ unread \in Seq(Byte) /\ k <= Len(unread)
  BY DEF ReceiveTypeOK, Read
<1> DEFINE a == SubSeq(unread, 1, k)
           b == SubSeq(unread, k + 1, Len(unread))
<1>3. in' = in \o a /\ unread' = b
  BY DEF Read
<1>4. a \in Seq(Byte) /\ b \in Seq(Byte)
  <2>1. a \in Seq(Byte)
    BY <1>1, <1>2
  <2>2. b \in Seq(Byte)
    BY <1>1, <1>3
  <2> QED
    BY <2>1, <2>2
<1>5. a \o b = unread
  <2>1. 1 \in 1..(Len(unread) + 1) /\ k \in (1 - 1)..Len(unread) /\ Len(unread) \in k..Len(unread)
    BY <1>1, <1>2
  <2>2. SubSeq(unread, 1, k) \o SubSeq(unread, k + 1, Len(unread)) = SubSeq(unread, 1, Len(unread))
    BY <1>2, <2>1, ConcatAdjacentSubSeq, Zenon
  <2>3. SubSeq(unread, 1, Len(unread)) = unread
    BY <1>2, SubSeqFull, Zenon
  <2> QED
    BY <2>2, <2>3, Zenon
<1> HIDE DEF a, b
<1>6. in' \o unread' = g \o rest
  <2>1. (in \o a) \o b = in \o (a \o b)
    BY <1>2, <1>4, Reassociate, Zenon
  <2> QED
    BY <1>3, <1>5, <2>1, Zenon
<1>7. Len(in') <= Len(g)
  BY <1>1, Zenon
<1>8. /\ Len(in') \in 0..Len(g)
      /\ in' = SubSeq(g, 1, Len(in'))
      /\ \A i \in 1..Len(in') : in'[i] = g[i]
  BY <1>1, <1>6, <1>7, Prefix, Zenon
<1> QED
  BY <1>1, <1>6, <1>8, Zenon

\* What is known of the buffer before the step.
LEMMA BufferIs ==
    ASSUME RInv, NEW g, NEW h, Framed(g, h), NEW rest \in Seq(Byte), Expect(g, rest)
    PROVE  /\ g \in Seq(Byte) /\ h \in 2..5 /\ h <= Len(g) /\ Len(g) \in Nat
           /\ in \in Seq(Byte) /\ unread \in Seq(Byte)
           /\ Len(in) \in 0..Len(g) /\ Len(in) \in Nat /\ Len(in) <= BufferLength
           /\ in = SubSeq(g, 1, Len(in))
           /\ \A i \in 1..Len(in) : in[i] = g[i]
           /\ FixedHeaderLen(g) = h
           /\ at = "body" => Len(in) >= h /\ FixedHeaderLen(in) = h /\ MessageLength = Len(g)
<1>1. g \in Seq(Byte) /\ h \in 2..5 /\ h <= Len(g) /\ Len(g) \in Nat
  BY DEF Framed
<1>2. in \in Seq(Byte) /\ unread \in Seq(Byte) /\ Len(in) <= BufferLength /\ Len(in) \in Nat
  BY DEF RInv, ReceiveTypeOK
<1>3. in \o unread = g \o rest /\ Len(in) <= Len(g)
  BY DEF Expect
<1>4. /\ Len(in) \in 0..Len(g) /\ in = SubSeq(g, 1, Len(in))
      /\ \A i \in 1..Len(in) : in[i] = g[i]
  BY <1>1, <1>2, <1>3, Prefix, Zenon
<1>5. FixedHeaderLen(g) = h
  BY WholeHeader, Zenon
<1>6. at = "body" => Len(in) >= h
  BY <1>5, Zenon DEF Expect
<1>7. at = "body" => FixedHeaderLen(in) = h /\ MessageLength = Len(g)
  BY <1>4, <1>6, PartOfFrame, Zenon DEF MessageLength
<1> QED
  BY <1>1, <1>2, <1>4, <1>5, <1>6, <1>7, Zenon

\* No such step loses the boundary of the message it is in.
LEMMA ReadingStep ==
    ASSUME RInv, RInv', NEW g, NEW h, Framed(g, h), ~Misleading(g),
           NEW rest \in Seq(Byte), Expect(g, rest), Reads
    PROVE  Expect(g, rest)'
<1>1. /\ g \in Seq(Byte) /\ h \in 2..5 /\ h <= Len(g) /\ Len(g) \in Nat
      /\ in \in Seq(Byte) /\ unread \in Seq(Byte)
      /\ Len(in) \in 0..Len(g) /\ Len(in) \in Nat /\ Len(in) <= BufferLength
      /\ \A i \in 1..Len(in) : in[i] = g[i]
      /\ FixedHeaderLen(g) = h
  BY BufferIs, Zenon
<1>2. at = "body" => Len(in) >= h /\ FixedHeaderLen(in) = h /\ MessageLength = Len(g)
  BY BufferIs, Zenon
<1>3. in \o unread = g \o rest /\ ReceiveTypeOK
  BY DEF Expect, RInv
<1>4. BufferLength \in Nat /\ Len(in') <= BufferLength
  BY AtLeastNine DEF RInv, ReceiveTypeOK
<1>5. CASE ReadFirst
  <2>1. in = <<>> /\ Read(1, 1) /\ at' = "length" /\ 1 \in Int
    BY <1>5 DEF ReadFirst
  <2>2. Len(in) + 1 = 1 /\ Len(in) + 1 <= Len(g) /\ 1 < Len(g)
    BY <1>1, <2>1
  <2>3. in' \o unread' = g \o rest /\ Len(in') = Len(in) + 1
    BY <1>1, <1>3, <2>1, <2>2, ReadMoves, Zenon
  <2>4. Len(in') = 1 /\ Len(in') <= Len(g) /\ Len(in') < Len(g)
    BY <1>1, <2>2, <2>3
  <2> QED
    BY <2>1, <2>3, <2>4 DEF Expect
<1>6. CASE Resume
  <2>1. /\ in # <<>> /\ UNCHANGED <<in, unread>> /\ at = "idle"
        /\ at' = IF Len(in) = 1 \/ InLength(in) THEN "length" ELSE "body"
    BY <1>6 DEF Resume
  <2>2. Len(in) < Len(g) /\ Len(in) > 0
    BY <1>1, <2>1 DEF Expect
  <2>3. CASE Len(in) = 1 \/ InLength(in)
    BY <1>1, <1>3, <2>1, <2>2, <2>3 DEF Expect
  <2>4. CASE ~(Len(in) = 1 \/ InLength(in))
    <3>1. Len(in) >= 2 /\ ~InLength(in)
      <4>1. \A n \in Nat : n > 0 /\ n # 1 => n >= 2
        OBVIOUS
      <4> QED
        BY <1>1, <2>2, <2>4, <4>1, Zenon
    <3>2. Len(in) >= h
      BY <1>1, <3>1, HeaderEnds, Zenon
    <3> QED
      BY <1>1, <1>3, <2>1, <2>2, <2>4, <3>2 DEF Expect
  <2> QED
    BY <2>3, <2>4
<1>7. CASE ReadLength
  <2>1. at = "length" /\ Read(1, 1) /\ 1 \in Int
        /\ at' = IF InLength(in') THEN "length" ELSE "body"
    BY <1>7 DEF ReadLength
  <2>2. Len(in) < Len(g) /\ (Len(in) = 1 \/ InLength(in)) /\ Len(in) > 0
    BY <1>1, <1>3, <2>1 DEF Expect, ReceiveTypeOK
  <2>3. Len(in) + 1 <= Len(g)
    BY <1>1, <2>2
  <2>4. /\ in' \o unread' = g \o rest /\ Len(in') = Len(in) + 1
        /\ Len(in') \in 0..Len(g) /\ \A i \in 1..Len(in') : in'[i] = g[i]
    BY <1>1, <1>3, <2>1, <2>3, ReadMoves, Zenon
  <2>5. Len(in') >= 2 /\ Len(in') <= Len(g)
    BY <1>1, <2>2, <2>4
  <2>6. ASSUME InLength(in') PROVE Len(in') < Len(g)
    <3> SUFFICES ASSUME ~(Len(in') < Len(g)) PROVE FALSE
      OBVIOUS
    <3>1. Len(in') = Len(g) /\ Len(in) = Len(g) - 1
      BY <1>1, <2>4, <2>5
    <3>2. Len(g) < 6 /\ g[Len(g)] >= 128
      <4>1. Len(g) \in 1..Len(in')
        BY <1>1, <3>1
      <4> QED
        BY <2>4, <2>6, <3>1, <4>1, Zenon DEF InLength
    <3>3. CASE Len(in) = 1
      <4>1. Len(g) = 2 /\ h = Len(g)
        <5>1. \A n, j \in Nat : j >= 2 /\ j <= n /\ 1 = n - 1 => n = 2 /\ j = n
          OBVIOUS
        <5>2. h \in Nat /\ h >= 2 /\ h <= Len(g) /\ 1 = Len(g) - 1 /\ Len(g) \in Nat
          <6>1. \A j \in 2..5 : j \in Nat /\ j >= 2
            OBVIOUS
          <6> QED
            BY <1>1, <3>1, <3>3, <6>1, Zenon
        <5> QED
          BY <5>1, <5>2, Zenon
      <4>2. g[h] < 128 /\ g[h] \in Byte
        BY <1>1 DEF Framed
      <4>3. g[Len(g)] < 128 /\ g[Len(g)] \in 0..255
        BY <4>1, <4>2, Zenon DEF Byte
      <4>4. \A b \in 0..255 : ~(b < 128 /\ b >= 128)
        OBVIOUS
      <4> QED
        BY <3>2, <4>3, <4>4, Zenon
    <3>4. CASE InLength(in)
      <4>1. Len(in) \in 1..Len(in)
        BY <1>1, <2>2
      <4>2. g[Len(g) - 1] >= 128
        BY <1>1, <3>1, <3>4, <4>1, Zenon DEF InLength
      <4> QED
        BY <3>2, <4>2, Zenon DEF Misleading
    <3> QED
      BY <2>2, <3>3, <3>4
  <2>7. CASE InLength(in')
    BY <2>1, <2>4, <2>5, <2>6, <2>7 DEF Expect
  <2>8. CASE ~InLength(in')
    <3>1. Len(in') >= h
      BY <2>4, <2>5, <2>8, HeaderEnds, Zenon
    <3> QED
      BY <1>1, <2>1, <2>4, <2>5, <2>8, <3>1 DEF Expect
  <2> QED
    BY <2>7, <2>8
<1>8. CASE ReadTopicLen
  <2>1. at = "body" /\ LacksTopicLen /\ at' \in {"idle", "body"}
    BY <1>8 DEF ReadTopicLen
  <2>2. BufferLength < Len(g)
    BY <1>2, <2>1 DEF LacksTopicLen, DoesNotFit
  <2>3. PICK k \in 1..3 : Read(k, Len(in) - FixedHeaderLen(in) + 2)
    BY <1>8 DEF ReadTopicLen
  <2>4. Len(in) - FixedHeaderLen(in) + 2 \in Int
    BY <1>1, <1>2, <2>1
  <2>5. k \in Nat /\ Len(in') = Len(in) + k
    BY <1>3, <2>3, <2>4, ReadType, Zenon
  <2>6. Len(in) + k <= Len(g) /\ Len(in') < Len(g) /\ Len(in') >= h
    BY <1>1, <1>2, <1>4, <2>1, <2>2, <2>5
  <2>7. in' \o unread' = g \o rest
    BY <1>1, <1>3, <2>3, <2>4, <2>6, ReadMoves, Zenon
  <2>8. Len(in') <= Len(g)
    BY <1>1, <2>5, <2>6
  <2> QED
    BY <1>1, <2>1, <2>6, <2>7, <2>8 DEF Expect
<1>9. CASE ReadRest
  <2>1. at = "body" /\ at' = IF Len(in') < Wanted THEN "idle" ELSE "body"
    BY <1>9 DEF ReadRest
  <2>2. Wanted \in Nat /\ Wanted <= Len(g)
    BY <1>1, <1>2, <1>4, <2>1 DEF Wanted, DoesNotFit
  <2>3. PICK k \in 1..BufferLength : Read(k, Wanted - Len(in))
    BY <1>9 DEF ReadRest
  <2>4. Wanted - Len(in) \in Int
    BY <1>1, <2>2
  <2>5. k \in Nat /\ Len(in') = Len(in) + k /\ k <= Wanted - Len(in)
    BY <1>3, <2>3, <2>4, ReadType, Zenon
  <2>6. Len(in) + k <= Len(g) /\ Len(in') <= Len(g) /\ Len(in') >= h
    BY <1>1, <1>2, <2>1, <2>2, <2>5
  <2>7. in' \o unread' = g \o rest
    BY <1>1, <1>3, <2>3, <2>4, <2>6, ReadMoves, Zenon
  <2>8. at' = "idle" => Len(in') < Len(g)
    BY <1>1, <2>1, <2>2, <2>5
  <2>9. at' \in {"idle", "body"}
    BY <2>1
  <2> QED
    BY <1>1, <2>6, <2>7, <2>8, <2>9 DEF Expect
<1>10. CASE TimesOut /\ ~Breaks
  <2>1. /\ at' = "idle" /\ UNCHANGED <<in, unread>> /\ at \in {"length", "body"}
        /\ at = "body" => ~Complete /\ ~MessageTooLong
    BY <1>10 DEF TimesOut
  <2>2. Len(in) < Len(g)
    <3>1. CASE at = "length"
      BY <3>1 DEF Expect
    <3>2. CASE at = "body"
      <4>1. Len(in) >= h /\ MessageLength = Len(g) /\ ~MessageTooLong /\ ~Complete
        BY <1>2, <2>1, <3>2
      <4>2. LacksTopicLen \/ ~(Len(in) >= Wanted)
        BY <3>2, <4>1 DEF Complete
      <4>3. CASE LacksTopicLen
        BY <1>1, <1>4, <4>1, <4>3 DEF LacksTopicLen, DoesNotFit
      <4>4. CASE ~(Len(in) >= Wanted)
        BY <1>1, <1>4, <4>1, <4>4 DEF Wanted, DoesNotFit
      <4> QED
        BY <4>2, <4>3, <4>4
    <3> QED
      BY <2>1, <3>1, <3>2
  <2> QED
    BY <1>3, <2>1, <2>2 DEF Expect
<1> QED
  BY <1>5, <1>6, <1>7, <1>8, <1>9, <1>10, Zenon DEF Reads

\* The elements of a stream, one by one.
LEMMA StreamIs ==
    ASSUME NEW s \in Seq(Messages), NEW f, Stream(f, s)
    PROVE  /\ \A k \in 0..Len(s) : f[k] \in Seq(Byte)
           /\ f[Len(s)] = <<>>
           /\ \A k \in 0..Len(s) : k < Len(s) =>
                 /\ s[k + 1] \in Messages
                 /\ k + 1 \in 0..Len(s)
                 /\ f[k] = Bytes(s[k + 1]) \o f[k + 1]
<1>1. \A k \in 0..Len(s) : f[k] \in Seq(Byte)
  BY DEF Stream
<1>2. f[Len(s)] = <<>>
  BY DEF Stream
<1>3. ASSUME NEW k \in 0..Len(s), k < Len(s)
      PROVE  s[k + 1] \in Messages /\ k + 1 \in 0..Len(s) /\ f[k] = Bytes(s[k + 1]) \o f[k + 1]
  <2>1. k + 1 \in 1..Len(s) /\ (k + 1) - 1 = k
    BY <1>3
  <2>2. f[(k + 1) - 1] = Bytes(s[k + 1]) \o f[k + 1]
    BY <2>1, Zenon DEF Stream
  <2>3. s[k + 1] \in Messages /\ k + 1 \in 0..Len(s)
    BY <2>1
  <2> QED
    BY <2>1, <2>2, <2>3, Zenon
<1> QED
  BY <1>1, <1>2, <1>3, Zenon

\* One more message comes at the end of everything.
LEMMA StreamGrows ==
    ASSUME NEW s \in Seq(Messages), NEW m \in Messages, NEW f, Stream(f, s)
    PROVE  \E e : Stream(e, Append(s, m)) /\ \A k \in 0..Len(s) : e[k] = f[k] \o Bytes(m)
<1> DEFINE S == Append(s, m)
           N == Len(s)
           e == [k \in 0..(N + 1) |-> IF k <= N THEN f[k] \o Bytes(m) ELSE <<>>]
<1>1. /\ N \in Nat /\ Len(S) = N + 1 /\ S[N + 1] = m
      /\ \A k \in 1..N : S[k] = s[k]
  OBVIOUS
<1>2. Bytes(m) \in Seq(Byte)
  BY BytesType
<1>3. /\ \A k \in 0..N : f[k] \in Seq(Byte)
      /\ f[N] = <<>>
      /\ \A k \in 1..N : f[k - 1] = Bytes(s[k]) \o f[k]
      /\ \A k \in 1..N : Bytes(s[k]) \in Seq(Byte)
  <2>1. \A k \in 1..N : s[k] \in Messages
    OBVIOUS
  <2> QED
    BY <2>1, StreamIs, BytesType, Zenon DEF Stream
<1> HIDE DEF S, N
<1>4. \A k \in 0..N : e[k] = f[k] \o Bytes(m)
  BY <1>1
<1>5. e[N + 1] = <<>>
  BY <1>1
<1>6. e \in [0..(N + 1) -> Seq(Byte)]
  <2>1. \A k \in 0..(N + 1) : (IF k <= N THEN f[k] \o Bytes(m) ELSE <<>>) \in Seq(Byte)
    <3> TAKE k \in 0..(N + 1)
    <3>1. CASE k <= N
      <4>1. k \in 0..N
        BY <1>1, <3>1
      <4>2. f[k] \o Bytes(m) \in Seq(Byte)
        BY <1>2, <1>3, <4>1, AppendType, Zenon
      <4> QED
        BY <3>1, <4>2, Zenon
    <3>2. CASE ~(k <= N)
      <4>1. <<>> \in Seq(Byte)
        OBVIOUS
      <4> QED
        BY <3>2, <4>1, Zenon
    <3> QED
      BY <3>1, <3>2
  <2> QED
    BY <2>1, Zenon
<1>7. ASSUME NEW k \in 1..(N + 1)
      PROVE  e[k - 1] = Bytes(S[k]) \o e[k]
  <2>1. CASE k = N + 1
    <3>1. k - 1 = N /\ N \in 0..N
      BY <1>1, <2>1
    <3>2. e[k - 1] = <<>> \o Bytes(m)
      BY <1>3, <1>4, <3>1, Zenon
    <3>3. Bytes(S[k]) \o e[k] = Bytes(m) \o <<>>
      BY <1>1, <1>5, <2>1, Zenon
    <3> HIDE DEF e
    <3> QED
      BY <1>2, <3>2, <3>3, ConcatEmptySeq, Zenon
  <2>2. CASE k # N + 1
    <3>1. k \in 1..N /\ k \in 0..N /\ k - 1 \in 0..N
      BY <1>1, <2>2
    <3>2. e[k - 1] = (Bytes(s[k]) \o f[k]) \o Bytes(m)
      BY <1>3, <1>4, <3>1, Zenon
    <3>3. Bytes(S[k]) \o e[k] = Bytes(s[k]) \o (f[k] \o Bytes(m))
      BY <1>1, <1>4, <3>1, Zenon
    <3> HIDE DEF e
    <3> QED
      BY <1>2, <1>3, <3>1, <3>2, <3>3, Reassociate, Zenon
  <2> QED
    BY <2>1, <2>2
<1> HIDE DEF e
<1>8. Stream(e, S)
  BY <1>1, <1>5, <1>6, <1>7, Zenon DEF Stream
<1>9. Stream(e, Append(s, m)) /\ \A k \in 0..Len(s) : e[k] = f[k] \o Bytes(m)
  BY <1>4, <1>8, Zenon DEF S, N
<1> QED
  BY <1>9

\* Every message has a header.
LEMMA MessageFramed ==
    ASSUME NEW m \in Messages, Ordinary(m)
    PROVE  \E h : Framed(Bytes(m), h)
<1>1. CASE m.type = PUBLISH
  BY <1>1, PublishBytes, Zenon
<1>2. CASE m.type # PUBLISH
  BY <1>2, OtherBytes, Zenon
<1> QED
  BY <1>1, <1>2

\* m is what the client is to hear next.
NextMessage(f, m, h) ==
    /\ Len(heard) \in 0..Len(sent) /\ Len(heard) + 1 \in 0..Len(sent)
    /\ m = sent[Len(heard) + 1] /\ m \in Messages
    /\ Framed(Bytes(m), h)
    /\ f[Len(heard) + 1] \in Seq(Byte)
    /\ f[Len(heard)] = Bytes(m) \o f[Len(heard) + 1]
    /\ Expect(Bytes(m), f[Len(heard) + 1])

\* Whatever is read on a connection that stands belongs to that message.
LEMMA NextIs ==
    ASSUME SentInv, AllOrdinary, link = "up", at # "data", in # <<>> \/ unread # <<>>
    PROVE  \E f, m, h : Stream(f, sent) /\ NextMessage(f, m, h)
<1>1. PICK f : Stream(f, sent) /\ Coming(f, Len(heard))
  BY DEF SentInv
<1>2. PICK n \in Nat : n = Len(heard)
  <2>1. heard \in Seq(Messages)
    BY DEF SentInv
  <2> QED
    BY <2>1
<1>3. /\ sent \in Seq(Messages) /\ Len(sent) \in Nat /\ n <= Len(sent)
      /\ in \in Seq(Byte) /\ unread \in Seq(Byte)
  BY <1>2 DEF SentInv, RInv, ReceiveTypeOK
<1>4. n \in 0..Len(sent)
  BY <1>3
<1>5. in \o unread = f[n] /\ (in # <<>> => n < Len(sent) /\ Expect(Bytes(sent[n + 1]), f[n + 1]))
  BY <1>1, <1>2, Zenon DEF Coming
<1>6. n < Len(sent)
  <2>1. CASE in # <<>>
    BY <1>5, <2>1
  <2>2. CASE in = <<>>
    <3>1. unread = f[n]
      BY <1>3, <1>5, <2>2, ConcatEmptySeq, Zenon
    <3>2. n # Len(sent)
      BY <1>1, <2>2, <3>1, Zenon DEF Stream
    <3> QED
      BY <1>3, <3>2
  <2> QED
    BY <2>1, <2>2
<1>7. /\ sent[n + 1] \in Messages /\ n + 1 \in 0..Len(sent)
      /\ f[n] = Bytes(sent[n + 1]) \o f[n + 1] /\ f[n + 1] \in Seq(Byte)
  BY <1>1, <1>3, <1>4, <1>6, StreamIs, Zenon
<1>8. PICK m \in Messages : m = sent[n + 1]
  BY <1>7
<1>9. PICK h : Framed(Bytes(m), h)
  BY MessageFramed DEF AllOrdinary
<1>10. Expect(Bytes(m), f[n + 1])
  <2>1. CASE in # <<>>
    BY <1>5, <1>8, <2>1, Zenon
  <2>2. CASE in = <<>>
    <3>1. Len(in) = 0 /\ Len(Bytes(m)) \in Nat /\ 0 <= Len(Bytes(m))
      BY <2>2, BytesType
    <3>2. at = "idle"
      BY <2>2 DEF SentInv, RInv, ReceiveTypeOK
    <3>3. in \o unread = Bytes(m) \o f[n + 1]
      BY <1>5, <1>7, <1>8, Zenon
    <3> QED
      BY <2>2, <3>1, <3>2, <3>3 DEF Expect
  <2> QED
    BY <2>1, <2>2
<1>11. NextMessage(f, m, h)
  BY <1>2, <1>4, <1>7, <1>8, <1>9, <1>10, Zenon DEF NextMessage
<1> QED
  BY <1>1, <1>11, Zenon

\* A message that fits is whole when it is processed.
LEMMA WholeMessage ==
    ASSUME RInv, NEW g, NEW h, Framed(g, h), NEW rest \in Seq(Byte), Expect(g, rest),
           Complete, ~DoesNotFit
    PROVE  in = g /\ unread = rest /\ MessageLength = Len(g)
<1>1. /\ g \in Seq(Byte) /\ Len(g) \in Nat /\ in \in Seq(Byte) /\ unread \in Seq(Byte)
      /\ Len(in) \in 0..Len(g)
      /\ at = "body" => MessageLength = Len(g)
  BY BufferIs, Zenon
<1>2. at = "body" /\ Len(in) >= Wanted /\ MessageLength = Len(g)
  BY <1>1, Zenon DEF Complete
<1>3. Len(in) >= Len(g)
  BY <1>2, Zenon DEF Wanted
<1>4. Len(in) = Len(g)
  BY <1>1, <1>3
<1>5. in \o unread = g \o rest
  BY DEF Expect
<1>6. in = g /\ unread = rest
  BY <1>1, <1>4, <1>5, WholeRead, Zenon
<1> QED
  BY <1>2, <1>6, Zenon

\* The type is that of the message.
LEMMA TypeRead ==
    ASSUME RInv, NEW g, NEW h, Framed(g, h), NEW rest \in Seq(Byte), Expect(g, rest),
           NEW type, SaysType(g, type), at = "body"
    PROVE  mqtt_get_type(in) = type
<1>1. Len(in) \in 0..Len(g) /\ Len(g) \in Nat /\ in = SubSeq(g, 1, Len(in)) /\ Len(in) >= h /\ h \in 2..5
  BY BufferIs, Zenon
<1>2. Len(in) \in 1..Len(g)
  BY <1>1
<1> QED
  BY <1>1, <1>2, Zenon DEF SaysType

\* Only a PUBLISH is processed although it does not fit.
LEMMA OtherFits ==
    ASSUME Complete, mqtt_get_type(in) # PUBLISH
    PROVE  ~DoesNotFit
BY DEF Complete, MessageTooLong

---------------------------------------------------------------------------
\* The steps of the connection and of the receiver.

\* Without a connection there is nothing to say.
LEMMA AbortKeeps ==
    ASSUME RInv', AbortConnection
    PROVE  SentInv'
<1>1. /\ link' = "down" /\ at' = "idle" /\ sent' = <<>> /\ heard' = <<>>
  BY DEF AbortConnection
<1> QED
  BY <1>1 DEF SentInv

\* The connection stands, and n messages were heard.
LEMMA Stands ==
    ASSUME SentInv, RInv', link' = "up", sent' = sent,
           NEW f, Stream(f, sent), NEW n \in 0..Len(sent),
           heard' \in Seq(Messages), Len(heard') = n, heard' = SubSeq(sent, 1, n),
           Coming(f, n)'
    PROVE  SentInv'
<1>1. Len(sent) \in Nat /\ n <= Len(sent)
  BY DEF SentInv, RInv, ReceiveTypeOK
<1>2. Coming(f, Len(heard))'
  BY DEF Coming, Delivering, Expect
<1>3. (\E e : Stream(e, sent) /\ Coming(e, Len(heard)))'
  BY <1>2 DEF Stream
<1> QED
  BY <1>1, <1>3, Zenon DEF SentInv

\* What was heard, and how much of it.
LEMMA HeardIs ==
    ASSUME SentInv, link = "up"
    PROVE  /\ heard \in Seq(Messages) /\ Len(heard) \in 0..Len(sent)
           /\ sent \in Seq(Messages) /\ Len(sent) \in Nat
           /\ heard = SubSeq(sent, 1, Len(heard))
<1>1. /\ heard \in Seq(Messages) /\ Len(heard) <= Len(sent)
      /\ heard = SubSeq(sent, 1, Len(heard))
  BY DEF SentInv
<1>2. sent \in Seq(Messages)
  BY DEF SentInv, RInv, ReceiveTypeOK
<1>3. Len(heard) \in Nat /\ Len(sent) \in Nat
  BY <1>1, <1>2, LenProperties, Zenon
<1>4. Len(heard) \in 0..Len(sent)
  BY <1>1, <1>3
<1> QED
  BY <1>1, <1>2, <1>3, <1>4, Zenon

\* One message more.
LEMMA OneMore ==
    ASSUME NEW S, NEW s \in Seq(S), NEW n \in 0..Len(s), n + 1 \in 0..Len(s)
    PROVE  /\ Append(SubSeq(s, 1, n), s[n + 1]) = SubSeq(s, 1, n + 1)
           /\ SubSeq(s, 1, n + 1) \in Seq(S)
           /\ Len(SubSeq(s, 1, n + 1)) = n + 1
<1> DEFINE a == SubSeq(s, 1, n)
           b == SubSeq(s, 1, n + 1)
           c == Append(a, s[n + 1])
<1>1. /\ n \in Nat /\ n + 1 \in 1..Len(s) /\ s[n + 1] \in S
  OBVIOUS
<1>2. a \in Seq(S) /\ Len(a) = n /\ \A i \in 1..n : a[i] = s[i]
  OBVIOUS
<1>3. b \in Seq(S) /\ Len(b) = n + 1 /\ \A i \in 1..(n + 1) : b[i] = s[i]
  OBVIOUS
<1> HIDE DEF a, b
<1>4. c \in Seq(S) /\ Len(c) = n + 1 /\ c[n + 1] = s[n + 1] /\ \A i \in 1..n : c[i] = s[i]
  BY <1>1, <1>2
<1> HIDE DEF c
<1>5. \A i \in 1..(n + 1) : c[i] = s[i]
  <2> TAKE i \in 1..(n + 1)
  <2>1. CASE i = n + 1
    BY <1>4, <2>1
  <2>2. CASE i # n + 1
    <3>1. i \in 1..n
      BY <1>1, <2>2
    <3> QED
      BY <1>4, <3>1, Zenon
  <2> QED
    BY <2>1, <2>2
<1>6. \A i \in 1..Len(c) : c[i] = b[i]
  BY <1>3, <1>4, <1>5, Zenon
<1>7. c = b
  BY <1>3, <1>4, <1>6, SeqEqual, Zenon
<1> QED
  BY <1>3, <1>7, Zenon DEF a, b, c

\* The message that was expected has been heard.
LEMMA HeardOne ==
    ASSUME SentInv, RInv', link = "up", link' = "up", sent' = sent,
           NEW f, NEW m, NEW h, Stream(f, sent), NEW n, n = Len(heard), n + 1 \in 0..Len(sent),
           m = sent[n + 1],
           heard' = Append(heard, m), in' = <<>>, at' = "idle", unread' = f[n + 1]
    PROVE  SentInv'
<1>1. /\ heard \in Seq(Messages) /\ Len(heard) \in 0..Len(sent)
      /\ sent \in Seq(Messages) /\ Len(sent) \in Nat
      /\ heard = SubSeq(sent, 1, Len(heard))
  BY HeardIs, Zenon
<1>2. n \in 0..Len(sent) /\ n \in Nat /\ heard = SubSeq(sent, 1, n)
  BY <1>1
<1>3. /\ heard' = SubSeq(sent, 1, n + 1)
      /\ heard' \in Seq(Messages)
      /\ Len(heard') = n + 1
  <2>1. heard' = Append(SubSeq(sent, 1, n), sent[n + 1])
    BY <1>2, Zenon
  <2>2. sent \in Seq(Messages)
    BY <1>1, Zenon
  <2>3. /\ Append(SubSeq(sent, 1, n), sent[n + 1]) = SubSeq(sent, 1, n + 1)
        /\ SubSeq(sent, 1, n + 1) \in Seq(Messages)
        /\ Len(SubSeq(sent, 1, n + 1)) = n + 1
    <3>1. \A S : \A s \in Seq(S) : \A j \in 0..Len(s) : j + 1 \in 0..Len(s) =>
             /\ Append(SubSeq(s, 1, j), s[j + 1]) = SubSeq(s, 1, j + 1)
             /\ SubSeq(s, 1, j + 1) \in Seq(S)
             /\ Len(SubSeq(s, 1, j + 1)) = j + 1
      BY OneMore, Zenon
    <3> QED
      BY <1>2, <2>2, <3>1, Zenon
  <2> QED
    BY <2>1, <2>3, Zenon
<1>4. PICK k \in 0..Len(sent) : k = n + 1
  OBVIOUS
<1>5. Coming(f, k)'
  <2>1. f[k] \in Seq(Byte)
    BY <1>1, StreamIs, Zenon
  <2>2. in' \o unread' = f[k]
    BY <1>4, <2>1, ConcatEmptySeq, Zenon
  <2>3. at' # "data"
    OBVIOUS
  <2> QED
    BY <2>2, <2>3, Zenon DEF Coming
<1> QED
  BY <1>3, <1>4, <1>5, Stands, Zenon

---------------------------------------------------------------------------
\* Reading.

LEMMA ReadsChange ==
    ASSUME Reads
    PROVE  /\ UNCHANGED <<link, current, left, sent, heard, replies, failures>>
           /\ at \in {"idle", "length", "body"} /\ at' \in {"idle", "length", "body"}
           /\ at = "idle" => link \in {"connecting", "up"}
<1>1. CASE ReadFirst
  BY <1>1 DEF ReadFirst
<1>2. CASE Resume
  BY <1>2 DEF Resume
<1>3. CASE ReadLength
  BY <1>3 DEF ReadLength
<1>4. CASE ReadTopicLen
  BY <1>4 DEF ReadTopicLen
<1>5. CASE ReadRest
  BY <1>5 DEF ReadRest
<1>6. CASE TimesOut /\ ~Breaks
  <2>1. at \in {"length", "body"}
    BY <1>6 DEF TimesOut
  <2>2. at' = "idle" /\ UNCHANGED <<link, unread, in, current, left, sent, heard, replies, failures>>
    BY <1>6 DEF TimesOut
  <2> QED
    BY <2>1, <2>2
<1> QED
  BY <1>1, <1>2, <1>3, <1>4, <1>5, <1>6, Zenon DEF Reads

\* A read goes on in the message that it was in, or begins the next one.
LEMMA ReadsKeep ==
    ASSUME SentInv, RInv', AllOrdinary, Reads
    PROVE  SentInv'
<1>1. /\ UNCHANGED <<link, sent, heard>>
      /\ at # "data" /\ at' # "data" /\ link \in {"connecting", "up"}
  BY ReadsChange DEF SentInv
<1>2. RInv /\ sent \in Seq(Messages)
  BY DEF SentInv, RInv, ReceiveTypeOK
<1>3. CASE link = "connecting"
  <2>1. PICK f, code : Stream(f, sent) /\ code \in {0, 5} /\ Expect(ConnAck(code), f[0])
    BY <1>3 DEF SentInv
  <2>2. PICK g, h, rest : g = ConnAck(code) /\ h = 2 /\ rest = f[0]
    OBVIOUS
  <2>3. Framed(g, h) /\ ~Misleading(g)
    BY <2>1, <2>2, ConnAckBytes, Zenon
  <2>4. rest \in Seq(Byte)
    <3>1. 0 \in 0..Len(sent)
      BY <1>2
    <3> QED
      BY <1>2, <2>1, <2>2, <3>1, StreamIs, Zenon
  <2>5. Expect(g, rest)
    BY <2>1, <2>2
  <2>6. Expect(g, rest)'
    BY <1>2, <2>3, <2>4, <2>5, ReadingStep, Zenon
  <2>7. Stream(f, sent') /\ code \in {0, 5} /\ Expect(ConnAck(code), f[0])'
    BY <1>1, <2>1, <2>2, <2>6
  <2> QED
    BY <1>1, <1>3, <2>7 DEF SentInv
<1>4. CASE link = "up"
  <2>1. in # <<>> \/ unread # <<>>
    <3>1. CASE in # <<>>
      BY <3>1
    <3>2. CASE in = <<>>
      <4>1. at = "idle"
        BY <1>1, <1>2, <3>2 DEF RInv, ReceiveTypeOK
      <4>2. ReadFirst
        BY <3>2, <4>1 DEF Reads, Resume, ReadLength, ReadTopicLen, ReadRest, TimesOut
      <4>3. 1 <= Len(unread)
        BY <4>2 DEF ReadFirst, Read
      <4> QED
        BY <4>3
    <3> QED
      BY <3>1, <3>2
  <2>2. PICK f, m, h : Stream(f, sent) /\ NextMessage(f, m, h)
    BY <1>1, <1>4, <2>1, NextIs, Zenon
  <2>3. PICK n, g, rest : n = Len(heard) /\ g = Bytes(m) /\ rest = f[n + 1]
    OBVIOUS
  <2>4. /\ n \in 0..Len(sent) /\ n + 1 \in 0..Len(sent) /\ m = sent[n + 1]
        /\ Framed(g, h) /\ rest \in Seq(Byte) /\ f[n] = g \o rest /\ Expect(g, rest)
        /\ m \in Messages
    BY <2>2, <2>3, Zenon DEF NextMessage
  <2>5. ~Misleading(g)
    BY <2>3, <2>4, Zenon DEF AllOrdinary, Ordinary
  <2>6. Expect(g, rest)'
    BY <1>2, <2>4, <2>5, ReadingStep, Zenon
  <2>7. n < Len(sent)
    BY <1>2, <2>4
  <2>8. Coming(f, n)'
    <3>1. in' \o unread' = f[n]
      BY <2>4, <2>6 DEF Expect
    <3>2. Expect(Bytes(sent[n + 1]), f[n + 1])'
      BY <1>1, <2>3, <2>4, <2>6 DEF Expect
    <3>3. n < Len(sent')
      BY <1>1, <2>7
    <3> QED
      BY <1>1, <3>1, <3>2, <3>3 DEF Coming
  <2>9. /\ heard' \in Seq(Messages) /\ Len(heard') = n /\ heard' = SubSeq(sent, 1, n)
    BY <1>1, <1>4, <2>3, HeardIs, Zenon
  <2> QED
    BY <1>1, <1>4, <2>2, <2>4, <2>8, <2>9, Stands, Zenon
<1> QED
  BY <1>1, <1>3, <1>4

\* CONNACK comes first.
LEMMA ConnectKeeps ==
    ASSUME SentInv, RInv', Connect
    PROVE  SentInv'
<1>1. /\ link = "down" /\ link' = "connecting" /\ in' = <<>>
      /\ UNCHANGED <<at, sent, heard>>
  BY DEF Connect
<1>2. PICK code \in {0, 5} : unread' = ConnAck(code)
  BY DEF Connect
<1>3. at = "idle" /\ sent = <<>> /\ heard = <<>>
  BY <1>1 DEF SentInv, RInv, ReceiveTypeOK
<1> DEFINE f == [k \in 0..0 |-> <<>>]
<1>4. Stream(f, <<>>) /\ f[0] = <<>>
  <2>1. f \in [0..0 -> Seq(Byte)] /\ f[0] = <<>> /\ Len(<<>>) = 0
    BY AtLeastNine
  <2> QED
    BY <2>1 DEF Stream
<1> HIDE DEF f
<1>5. Expect(ConnAck(code), f[0])'
  <2>1. ConnAck(code) \in Seq(Byte) /\ Len(ConnAck(code)) \in Nat
    BY ConnAckType
  <2>2. in' \o unread' = ConnAck(code) \o f[0]
    BY <1>1, <1>2, <1>4, <2>1, ConcatEmptySeq, Zenon
  <2>3. Len(in') = 0 /\ 0 <= Len(ConnAck(code))
    BY <1>1, <2>1
  <2> QED
    BY <1>1, <1>3, <2>2, <2>3 DEF Expect
<1>6. Stream(f, sent') /\ code \in {0, 5}
  BY <1>1, <1>3, <1>4
<1>7. heard' \in Seq(Messages) /\ Len(heard') = 0 /\ Len(sent') = 0 /\ heard' = SubSeq(sent', 1, Len(heard'))
  BY <1>1, <1>3
<1>8. (/\ at # "data"
       /\ \E e, c : Stream(e, sent) /\ c \in {0, 5} /\ Expect(ConnAck(c), e[0]))'
  BY <1>1, <1>3, <1>5, <1>6
<1> QED
  BY <1>1, <1>3, <1>7, <1>8 DEF SentInv

\* Wherever the receiver is, a further message comes behind everything.
LEMMA SendKeeps ==
    ASSUME SentInv, RInv', NEW m \in Messages, BrokerSends(m)
    PROVE  SentInv'
<1>1. /\ link # "down" /\ sent' = Append(sent, m) /\ unread' = unread \o Bytes(m)
      /\ UNCHANGED <<link, in, at, current, left, heard>>
  BY DEF BrokerSends
<1>2. /\ sent \in Seq(Messages) /\ in \in Seq(Byte) /\ unread \in Seq(Byte)
      /\ link \in {"down", "connecting", "up", "garbled"} /\ Len(sent) \in Nat
  BY DEF SentInv, RInv, ReceiveTypeOK
<1>3. Bytes(m) \in Seq(Byte)
  BY BytesType
<1>4. /\ Len(sent') = Len(sent) + 1
      /\ \A k \in 1..Len(sent) : sent'[k] = sent[k]
  BY <1>1, <1>2
<1>5. in' \o unread' = (in \o unread) \o Bytes(m)
  BY <1>1, <1>2, <1>3, Reassociate, Zenon
<1>6. ASSUME link # "garbled"
      PROVE  /\ heard' \in Seq(Messages) /\ Len(heard') <= Len(sent')
             /\ heard' = SubSeq(sent', 1, Len(heard'))
  <2>1. heard \in Seq(Messages) /\ Len(heard) <= Len(sent) /\ heard = SubSeq(sent, 1, Len(heard))
    BY <1>6 DEF SentInv
  <2>2. PICK n \in Nat : n = Len(heard)
    <3>1. Len(heard) \in Nat
      BY <2>1, LenProperties, Zenon
    <3> QED
      BY <3>1
  <2>3. SubSeq(sent', 1, n) = SubSeq(sent, 1, n)
    BY <1>1, <1>2, <2>1, <2>2
  <2> QED
    BY <1>1, <1>2, <1>4, <2>1, <2>2, <2>3
<1>7. CASE link = "connecting"
  <2>1. PICK f, code : Stream(f, sent) /\ code \in {0, 5} /\ Expect(ConnAck(code), f[0])
    BY <1>7 DEF SentInv
  <2>2. PICK e : Stream(e, Append(sent, m)) /\ \A k \in 0..Len(sent) : e[k] = f[k] \o Bytes(m)
    <3>1. Stream(f, sent)
      BY <2>1
    <3> QED
      BY <1>2, <3>1, StreamGrows, Zenon
  <2>3. 0 \in 0..Len(sent)
    BY <1>2
  <2>4. Stream(e, sent') /\ e[0] = f[0] \o Bytes(m) /\ f[0] \in Seq(Byte)
    BY <1>1, <1>2, <2>1, <2>2, <2>3, StreamIs, Zenon
  <2>5. in' \o unread' = ConnAck(code) \o e[0]
    <3>1. ConnAck(code) \in Seq(Byte)
      BY <2>1, ConnAckType
    <3>2. in \o unread = ConnAck(code) \o f[0]
      BY <2>1 DEF Expect
    <3> QED
      <4>1. (ConnAck(code) \o f[0]) \o Bytes(m) = ConnAck(code) \o (f[0] \o Bytes(m))
        BY <1>3, <2>4, <3>1, Reassociate, Zenon
      <4> QED
        BY <1>5, <2>4, <3>2, <4>1, Zenon
  <2>6. Expect(ConnAck(code), e[0])'
    BY <1>1, <2>1, <2>5 DEF Expect
  <2>7. (/\ at # "data"
         /\ \E d, c : Stream(d, sent) /\ c \in {0, 5} /\ Expect(ConnAck(c), d[0]))'
    BY <1>1, <1>7, <2>1, <2>4, <2>6 DEF SentInv
  <2> QED
    BY <1>1, <1>6, <1>7, <2>7 DEF SentInv
<1>8. CASE link = "up"
  <2>1. PICK f : Stream(f, sent) /\ Coming(f, Len(heard))
    BY <1>8 DEF SentInv
  <2>2. PICK e : Stream(e, Append(sent, m)) /\ \A k \in 0..Len(sent) : e[k] = f[k] \o Bytes(m)
    BY <1>2, <2>1, StreamGrows, Zenon
  <2>3. PICK n : n = Len(heard) /\ n \in 0..Len(sent)
    BY <1>8, HeardIs, Zenon
  <2>4. /\ \A k \in 0..Len(sent) : f[k] \in Seq(Byte)
        /\ \A k \in 0..Len(sent) : k < Len(sent) => sent[k + 1] \in Messages /\ k + 1 \in 0..Len(sent)
    BY <1>2, <2>1, StreamIs, Zenon
  <2>5. n < Len(sent) => n + 1 \in 1..Len(sent) /\ n < Len(sent') /\ sent'[n + 1] = sent[n + 1]
    BY <1>2, <1>4, <2>3
  <2>6. CASE at = "data"
    <3>1. n < Len(sent) /\ Delivering(sent[n + 1], f[n + 1])
      BY <2>1, <2>3, <2>6, Zenon DEF Coming
    <3>2. PICK tail \in Seq(Byte) :
            /\ unread = tail \o f[n + 1] /\ Len(tail) = left
            /\ current = WithData(sent[n + 1], current.data)
            /\ sent[n + 1].data = current.data \o tail
      BY <3>1 DEF Delivering
    <3>3. n + 1 \in 0..Len(sent) /\ f[n + 1] \in Seq(Byte) /\ e[n + 1] = f[n + 1] \o Bytes(m)
      BY <2>2, <2>3, <2>4, <3>1, Zenon
    <3>4. unread' = tail \o e[n + 1]
      <4>1. (tail \o f[n + 1]) \o Bytes(m) = tail \o (f[n + 1] \o Bytes(m))
        BY <1>3, <3>2, <3>3, Reassociate, Zenon
      <4> QED
        BY <1>1, <3>2, <3>3, <4>1, Zenon
    <3>5. Delivering(sent[n + 1], e[n + 1])'
      BY <1>1, <2>5, <3>1, <3>2, <3>4 DEF Delivering
    <3>6. Coming(e, n)'
      BY <1>1, <2>5, <2>6, <3>1, <3>5 DEF Coming
    <3> QED
      BY <1>1, <1>6, <1>8, <2>2, <2>3, <3>6 DEF SentInv
  <2>7. CASE at # "data"
    <3>1. in \o unread = f[n] /\ (in # <<>> => n < Len(sent) /\ Expect(Bytes(sent[n + 1]), f[n + 1]))
      BY <2>1, <2>3, <2>7, Zenon DEF Coming
    <3>2. in' \o unread' = e[n]
      BY <1>5, <2>2, <2>3, <3>1, Zenon
    <3>3. ASSUME in # <<>> PROVE n < Len(sent') /\ Expect(Bytes(sent[n + 1]), e[n + 1])'
      <4>1. n < Len(sent) /\ Expect(Bytes(sent[n + 1]), f[n + 1]) /\ n + 1 \in 0..Len(sent)
        BY <2>3, <2>4, <3>1, <3>3, Zenon
      <4>2. PICK g : g = Bytes(sent[n + 1]) /\ g \in Seq(Byte)
        BY <2>3, <2>4, <4>1, BytesType, Zenon
      <4>3. in' \o unread' = g \o e[n + 1]
        <5>1. in \o unread = g \o f[n + 1]
          BY <4>1, <4>2 DEF Expect
        <5>2. e[n + 1] = f[n + 1] \o Bytes(m) /\ f[n + 1] \in Seq(Byte)
          BY <2>2, <2>4, <4>1, Zenon
        <5> QED
          <6>1. (g \o f[n + 1]) \o Bytes(m) = g \o (f[n + 1] \o Bytes(m))
            BY <1>3, <4>2, <5>2, Reassociate, Zenon
          <6> QED
            BY <1>5, <5>1, <5>2, <6>1, Zenon
      <4>4. Expect(g, e[n + 1])'
        BY <1>1, <4>1, <4>2, <4>3 DEF Expect
      <4>5. Bytes(sent'[n + 1]) = g
        BY <2>5, <4>1, <4>2, Zenon
      <4>6. Expect(Bytes(sent[n + 1]), e[n + 1])'
        BY <4>4, <4>5 DEF Expect
      <4> QED
        BY <2>5, <4>1, <4>6
    <3>4. Coming(e, n)'
      BY <1>1, <2>7, <3>2, <3>3 DEF Coming
    <3> QED
      BY <1>1, <1>6, <1>8, <2>2, <2>3, <3>4 DEF SentInv
  <2> QED
    BY <2>6, <2>7
<1>9. CASE link = "garbled"
  BY <1>1, <1>9 DEF SentInv
<1> QED
  BY <1>1, <1>2, <1>7, <1>8, <1>9

\* CONNACK is taken off, and the first message follows.
LEMMA ConnAckKeeps ==
    ASSUME SentInv, RInv', ProcessConnAck
    PROVE  SentInv'
<1>1. CASE AbortConnection
  BY <1>1, AbortKeeps
<1>2. CASE ~AbortConnection
  <2>1. /\ Complete /\ link = "connecting" /\ mqtt_get_type(in) = CONNACK
        /\ link' = "up" /\ in' = <<>> /\ at' = "idle"
        /\ UNCHANGED <<unread, sent, heard>>
    BY <1>2, Zenon DEF ProcessConnAck
  <2>2. PICK f, code : Stream(f, sent) /\ code \in {0, 5} /\ Expect(ConnAck(code), f[0])
    BY <2>1 DEF SentInv
  <2>3. PICK g, h, rest : g = ConnAck(code) /\ h = 2 /\ rest = f[0]
    OBVIOUS
  <2>4. RInv /\ sent \in Seq(Messages) /\ heard = <<>> /\ 0 \in 0..Len(sent)
    BY <2>1 DEF SentInv, RInv, ReceiveTypeOK
  <2>5. Framed(g, h) /\ rest \in Seq(Byte) /\ Expect(g, rest)
    BY <2>2, <2>3, <2>4, ConnAckBytes, StreamIs, Zenon
  <2>6. ~DoesNotFit
    <3>1. mqtt_get_type(in) # PUBLISH
      BY <2>1 DEF CONNACK, PUBLISH
    <3> QED
      BY <2>1, <3>1, OtherFits, Zenon
  <2>7. unread = rest
    BY <2>1, <2>4, <2>5, <2>6, WholeMessage, Zenon
  <2>8. PICK n : n = 0 /\ n \in 0..Len(sent)
    BY <2>4
  <2>9. Coming(f, n)'
    <3>1. in' \o unread' = f[n]
      BY <2>1, <2>3, <2>5, <2>7, <2>8, ConcatEmptySeq, Zenon
    <3> QED
      BY <2>1, <3>1 DEF Coming
  <2>10. heard' \in Seq(Messages) /\ Len(heard') = n /\ heard' = SubSeq(sent, 1, n)
    BY <2>1, <2>4, <2>8
  <2> QED
    BY <2>1, <2>2, <2>8, <2>9, <2>10, Stands, Zenon
<1> QED
  BY <1>1, <1>2

\* WithData changes the data and nothing else.
LEMMA SameMessage ==
    ASSUME NEW m \in Messages
    PROVE  WithData(m, m.data) = m
BY MessageParts, Zenon DEF WithData

\* A message that is no PUBLISH is whole when it is heard.
LEMMA OtherKeeps ==
    ASSUME SentInv, RInv', AllOrdinary, ProcessOther
    PROVE  SentInv'
<1>1. /\ Complete /\ link = "up" /\ mqtt_get_type(in) # PUBLISH /\ at = "body"
      /\ in' = <<>> /\ at' = "idle"
      /\ UNCHANGED <<link, unread, sent>>
  BY Zenon DEF ProcessOther, Complete
<1>2. RInv /\ at # "data" /\ in # <<>> /\ sent \in Seq(Messages)
  BY <1>1 DEF SentInv, RInv, ReceiveTypeOK
<1>3. PICK f, m, h : Stream(f, sent) /\ NextMessage(f, m, h)
  BY <1>1, <1>2, NextIs, Zenon
<1>4. PICK n, g, rest : n = Len(heard) /\ g = Bytes(m) /\ rest = f[n + 1]
  OBVIOUS
<1>5. /\ n \in 0..Len(sent) /\ n + 1 \in 0..Len(sent) /\ m = sent[n + 1]
      /\ Framed(g, h) /\ rest \in Seq(Byte) /\ Expect(g, rest) /\ m \in Messages
  BY <1>3, <1>4, Zenon DEF NextMessage
<1>6. in = g /\ unread = rest /\ MessageLength = Len(g)
  BY <1>1, <1>2, <1>5, OtherFits, WholeMessage, Zenon
<1>7. Ordinary(m)
  BY <1>5 DEF AllOrdinary
<1>8. m.type # PUBLISH
  <2> SUFFICES ASSUME m.type = PUBLISH PROVE FALSE
    OBVIOUS
  <2> DEFINE j == FixedHeaderLen(g)
  <2>1. /\ Framed(g, j)
        /\ \A read \in j..Len(g) : ReadsPublish(g, j, read, m.topic, m.data, m.qos, m.id)
    BY <1>4, <1>5, <1>7, PublishBytes, Zenon
  <2> HIDE DEF j
  <2>2. Len(g) \in j..Len(g) /\ g \in Seq(Byte)
    BY <2>1 DEF Framed
  <2>3. mqtt_get_type(SubSeq(g, 1, Len(g))) = PUBLISH
    BY <2>1, <2>2, Zenon DEF ReadsPublish
  <2>4. SubSeq(g, 1, Len(g)) = g
    BY <2>2, SubSeqFull, Zenon
  <2> QED
    BY <1>1, <1>6, <2>3, <2>4, Zenon
<1>9. /\ SaysType(g, m.type)
      /\ mqtt_get_id(g, Len(g)) = m.id
      /\ m.type = SUBACK => SubSeq(g, 5, Len(g)) = m.data
  BY <1>4, <1>5, <1>7, <1>8, OtherBytes, Zenon
<1>10. mqtt_get_type(in) = m.type
  BY <1>1, <1>2, <1>5, <1>9, TypeRead, Zenon
<1> DEFINE data == IF mqtt_get_type(in) = SUBACK THEN SubSeq(in, 5, Len(in)) ELSE <<>>
           heardNow == Message(mqtt_get_type(in), 0, mqtt_get_id(in, MessageLength), <<>>, data)
<1>11. heard' = Append(heard, heardNow)
  BY Zenon DEF ProcessOther
<1>12. heardNow = m
  <2>1. data = m.data
    <3>1. CASE m.type = SUBACK
      BY <1>6, <1>9, <1>10, <3>1, Zenon
    <3>2. CASE m.type # SUBACK
      <4>1. m.data = <<>>
        BY <1>7, <1>8, <3>2 DEF Ordinary
      <4> QED
        BY <1>10, <3>2, <4>1, Zenon
    <3> QED
      BY <3>1, <3>2
  <2> HIDE DEF data
  <2>2. m.qos = 0 /\ m.topic = <<>> /\ m.total = Len(m.data)
    BY <1>7, <1>8 DEF Ordinary
  <2>3. mqtt_get_id(in, MessageLength) = m.id
    BY <1>6, <1>9, Zenon
  <2>4. heardNow = [type |-> m.type, qos |-> m.qos, id |-> m.id, topic |-> m.topic,
                    data |-> m.data, total |-> m.total]
    BY <1>10, <2>1, <2>2, <2>3, Zenon DEF Message
  <2> HIDE DEF heardNow
  <2> QED
    BY <1>5, <2>4, MessageParts, Zenon
<1> HIDE DEF heardNow, data
<1>13. heard' = Append(heard, m) /\ unread' = f[n + 1]
  BY <1>1, <1>4, <1>6, <1>11, <1>12, Zenon
<1> QED
  BY <1>1, <1>3, <1>4, <1>5, <1>13, HeardOne, Zenon

---------------------------------------------------------------------------
\* A PUBLISH.

\* What is in the buffer when a PUBLISH is processed: all of it, or as much
\* as the buffer holds.
LEMMA PublishInBuffer ==
    ASSUME RInv, NEW m \in Messages, Ordinary(m), NEW h, Framed(Bytes(m), h),
           NEW rest \in Seq(Byte), Expect(Bytes(m), rest), at = "body",
           mqtt_get_type(in) = PUBLISH
    PROVE  /\ m.type = PUBLISH /\ FixedHeaderLen(Bytes(m)) = h
           /\ Len(in) \in h..Len(Bytes(m)) /\ FixedHeaderLen(in) = h
           /\ MessageLength = Len(Bytes(m))
           /\ HasBody(Bytes(m), h, m.topic, m.data, m.qos, m.id)
           /\ ReadsPublish(Bytes(m), h, Len(in), m.topic, m.data, m.qos, m.id)
           /\ in = SubSeq(Bytes(m), 1, Len(in))
           /\ Complete => \/ Len(in) = Len(Bytes(m))
                          \/ Len(in) = BufferLength /\ Large(m)
<1> DEFINE g == Bytes(m)
<1>1. /\ g \in Seq(Byte) /\ h \in 2..5 /\ h <= Len(g) /\ Len(g) \in Nat
      /\ Len(in) \in 0..Len(g) /\ Len(in) \in Nat /\ Len(in) <= BufferLength
      /\ in = SubSeq(g, 1, Len(in))
      /\ FixedHeaderLen(g) = h
      /\ Len(in) >= h /\ FixedHeaderLen(in) = h /\ MessageLength = Len(g)
  BY BufferIs, Zenon
<1>2. Len(in) \in h..Len(g)
  BY <1>1
<1>3. m.type = PUBLISH
  <2> SUFFICES ASSUME m.type # PUBLISH PROVE FALSE
    OBVIOUS
  <2>1. SaysType(g, m.type)
    BY OtherBytes, Zenon
  <2> QED
    BY <2>1, TypeRead, Zenon
<1>4. /\ HasBody(g, h, m.topic, m.data, m.qos, m.id)
      /\ ReadsPublish(g, h, Len(in), m.topic, m.data, m.qos, m.id)
  <2>1. /\ HasBody(g, FixedHeaderLen(g), m.topic, m.data, m.qos, m.id)
        /\ \A read \in FixedHeaderLen(g)..Len(g) :
              ReadsPublish(g, FixedHeaderLen(g), read, m.topic, m.data, m.qos, m.id)
    BY <1>3, PublishBytes, Zenon
  <2> HIDE DEF g
  <2> QED
    BY <1>1, <1>2, <2>1, Zenon
<1>5. ASSUME Complete PROVE Len(in) = Len(g) \/ (Len(in) = BufferLength /\ Large(m))
  <2>1. Len(in) >= Wanted
    BY <1>5 DEF Complete
  <2>2. CASE DoesNotFit
    <3>1. BufferLength < Len(g) /\ Len(in) >= BufferLength
      BY <1>1, <2>1, <2>2, Zenon DEF Wanted, DoesNotFit
    <3> HIDE DEF g
    <3>2. Len(in) = BufferLength
      <4>1. \A a, b \in Nat : a <= b /\ a >= b => a = b
        OBVIOUS
      <4> QED
        BY <1>1, <3>1, <4>1, AtLeastNine, Zenon
    <3>3. Len(g) > BufferLength
      BY <1>1, <3>1, AtLeastNine
    <3> QED
      BY <3>2, <3>3, Zenon DEF Large, g
  <2>3. CASE ~DoesNotFit
    <3>1. Len(in) >= Len(g)
      BY <1>1, <2>1, <2>3, Zenon DEF Wanted
    <3> HIDE DEF g
    <3> QED
      BY <1>1, <3>1
  <2> QED
    BY <2>2, <2>3
<1> HIDE DEF g
<1> QED
  BY <1>1, <1>2, <1>3, <1>4, <1>5, Zenon DEF g

\* The end of the topic.
LEMMA TopicStopIs ==
    ASSUME NEW m \in Messages, NEW h \in Int, FixedHeaderLen(Bytes(m)) = h
    PROVE  TopicStop(m) = h + 2 + Len(m.topic)
BY Zenon DEF TopicStop

\* The whole topic, and with it the identifier, is in the buffer.
LEMMA StartRead ==
    ASSUME NEW m \in Messages, m.type = PUBLISH, NEW h \in 2..5, FixedHeaderLen(Bytes(m)) = h,
           NEW n \in Nat, HasBody(Bytes(m), h, m.topic, m.data, m.qos, m.id),
           h + 2 + Len(m.topic) <= n,
           n = Len(Bytes(m)) \/ (n = BufferLength /\ Large(m))
    PROVE  h + 2 + Len(m.topic) + IdLen(m.qos) <= n
<1>1. /\ m.qos \in 0..3 /\ Len(m.topic) \in Nat /\ Len(m.data) \in Nat /\ BufferLength \in Nat
      /\ IdLen(m.qos) = IF m.qos > 0 THEN 2 ELSE 0
  <2>1. m.qos \in 0..3 /\ m.topic \in Seq(Byte) /\ m.data \in Seq(Byte)
    BY MessageParts, Zenon
  <2> QED
    BY <2>1, LenProperties, AtLeastNine, Zenon DEF IdLen
<1>2. CASE n = Len(Bytes(m))
  <2>1. n = h + 2 + Len(m.topic) + IdLen(m.qos) + Len(m.data)
    BY <1>2, Zenon DEF HasBody
  <2>2. \A a \in Int : \A t, d \in Nat : \A i \in {0, 2} : a + 2 + t + i <= a + 2 + t + i + d
    OBVIOUS
  <2>3. IdLen(m.qos) \in {0, 2} /\ h \in Int
    BY <1>1
  <2> QED
    BY <1>1, <2>1, <2>2, <2>3, Zenon
<1>3. CASE n = BufferLength /\ Large(m)
  <2>1. TopicStop(m) = h + 2 + Len(m.topic) /\ h \in Int
    <3>1. h \in Int
      OBVIOUS
    <3> QED
      BY <3>1, TopicStopIs, Zenon
  <2>2. ~TooLong(m)
    <3>1. TopicStop(m) <= BufferLength
      BY <1>3, <2>1, Zenon
    <3>2. TopicStop(m) \in Int
      BY <1>1, <2>1
    <3>3. ~(TopicStop(m) > BufferLength)
      BY <1>1, <3>1, <3>2
    <3> QED
      BY <3>3, Zenon DEF TooLong
  <2>3. m.qos > 0 => TopicStop(m) + 2 <= BufferLength
    <3>1. \A x \in Messages : Large(x) /\ ~TooLong(x) /\ x.qos > 0 => TopicStop(x) + 2 <= BufferLength
      BY ReceiveAssumption, SMT
    <3> QED
      BY <1>3, <2>2, <3>1, Zenon
  <2>4. CASE m.qos > 0
    BY <1>1, <1>3, <2>1, <2>3, <2>4
  <2>5. CASE ~(m.qos > 0)
    <3>1. IdLen(m.qos) = 0
      BY <1>1, <2>5, Zenon
    <3>2. \A a \in Int : a + 0 = a
      OBVIOUS
    <3>3. h + 2 + Len(m.topic) \in Int
      BY <1>1, <2>1
    <3> QED
      BY <3>1, <3>2, <3>3, Zenon
  <2> QED
    BY <2>4, <2>5
<1> QED
  BY <1>2, <1>3

\* A sequence is its beginning and its end.
LEMMA Split ==
    ASSUME NEW s \in Seq(Byte), NEW j \in 0..Len(s)
    PROVE  /\ SubSeq(s, 1, j) \in Seq(Byte) /\ Len(SubSeq(s, 1, j)) = j
           /\ SubSeq(s, j + 1, Len(s)) \in Seq(Byte) /\ Len(SubSeq(s, j + 1, Len(s))) = Len(s) - j
           /\ s = SubSeq(s, 1, j) \o SubSeq(s, j + 1, Len(s))
<1>1. SubSeq(s, 1, j) \in Seq(Byte) /\ Len(SubSeq(s, 1, j)) = j
  OBVIOUS
<1>2. SubSeq(s, j + 1, Len(s)) \in Seq(Byte) /\ Len(SubSeq(s, j + 1, Len(s))) = Len(s) - j
  OBVIOUS
<1>3. 1 \in 1..(Len(s) + 1) /\ j \in (1 - 1)..Len(s) /\ Len(s) \in j..Len(s)
  OBVIOUS
<1>4. SubSeq(s, 1, j) \o SubSeq(s, j + 1, Len(s)) = SubSeq(s, 1, Len(s))
  BY <1>3, ConcatAdjacentSubSeq, Zenon
<1>5. SubSeq(s, 1, Len(s)) = s
  BY SubSeqFull, Zenon
<1> QED
  BY <1>1, <1>2, <1>4, <1>5, Zenon

\* The data of a PUBLISH follow byte start.
DataStart(start, h, topic, qos) == start = h + 2 + Len(topic) + IdLen(qos)

\* What follows the first n bytes of g is what follows the first n - start of data.
TailIs(g, n, start, data) ==
    /\ n - start \in 0..Len(data) /\ Len(data) - (n - start) = Len(g) - n
    /\ SubSeq(g, n + 1, Len(g)) = SubSeq(data, (n - start) + 1, Len(data))

\* What follows the n-th byte of a PUBLISH is the end of its data.
LEMMA TailOfBody ==
    ASSUME NEW topic \in Seq(Byte), NEW data \in Seq(Byte), NEW qos, NEW id,
           NEW h \in 2..5, NEW g, HasBody(g, h, topic, data, qos, id),
           NEW start \in Nat, DataStart(start, h, topic, qos),
           NEW n \in Nat, start <= n, n <= Len(g)
    PROVE  TailIs(g, n, start, data)
<1> DEFINE D == Len(data)
           G == Len(g)
<1>1. D \in Nat /\ G = start + D /\ g \in Seq(Byte) /\ G \in Nat
  <2>1. G = start + D /\ g \in Seq(Byte)
    BY Zenon DEF HasBody, DataStart
  <2> QED
    BY <2>1, LenProperties, Zenon
<1>2. \A i \in 1..D : g[start + i] = data[i]
  BY Zenon DEF HasBody, DataStart
<1>3. n <= G /\ D = Len(data) /\ G = Len(g)
  OBVIOUS
<1> HIDE DEF D, G
<1>4. n - start \in 0..D /\ D - (n - start) = G - n
  BY <1>1, <1>3
<1> DEFINE j == n - start
           a == SubSeq(g, n + 1, n + (G - n))
           b == SubSeq(data, j + 1, j + (D - j))
<1>5. j \in Nat /\ G - n \in Nat /\ n + (G - n) <= G /\ j + (D - j) <= D /\ D - j \in Nat
      /\ n + (G - n) = G /\ j + (D - j) = D /\ D - j = G - n
      /\ \A i \in 1..(G - n) : j + i \in 1..D /\ start + (j + i) = n + i
  <2>1. G \in Nat /\ D \in Nat /\ start \in Nat /\ n \in Nat /\ G = start + D
        /\ start <= n /\ n <= G
    BY <1>1, <1>3
  <2>2. /\ j \in Nat /\ G - n \in Nat /\ n + (G - n) <= G /\ j + (D - j) <= D /\ D - j \in Nat
        /\ n + (G - n) = G /\ j + (D - j) = D /\ D - j = G - n
    BY <2>1
  <2>3. \A i \in 1..(G - n) : j + i \in 1..D /\ start + (j + i) = n + i
    BY <2>1
  <2> QED
    BY <2>2, <2>3, Zenon
<1> HIDE DEF j
<1>6. a \in Seq(Byte) /\ Len(a) = G - n /\ \A i \in 1..(G - n) : a[i] = g[n + i]
  <2>1. PICK z \in Nat : z = G - n
    BY <1>5
  <2>2. n + z <= Len(g)
    BY <1>3, <1>5, <2>1, Zenon
  <2>3. /\ SubSeq(g, n + 1, n + z) \in Seq(Byte) /\ Len(SubSeq(g, n + 1, n + z)) = z
        /\ \A i \in 1..z : SubSeq(g, n + 1, n + z)[i] = g[n + i]
    <3> HIDE DEF a, b
    <3> QED
      BY <1>1, <2>2, PartOf
  <2> QED
    BY <2>1, <2>3, Zenon
<1>7. b \in Seq(Byte) /\ Len(b) = D - j /\ \A i \in 1..(D - j) : b[i] = data[j + i]
  <2>1. PICK z \in Nat : z = D - j
    BY <1>5
  <2>2. j + z <= Len(data)
    BY <1>3, <1>5, <2>1, Zenon
  <2>3. /\ SubSeq(data, j + 1, j + z) \in Seq(Byte) /\ Len(SubSeq(data, j + 1, j + z)) = z
        /\ \A i \in 1..z : SubSeq(data, j + 1, j + z)[i] = data[j + i]
    <3> HIDE DEF a, b
    <3> QED
      BY <1>5, <2>2, PartOf, Zenon
  <2> QED
    BY <2>1, <2>3, Zenon
<1> HIDE DEF a, b
<1>8. \A i \in 1..(G - n) : j + i \in 1..D /\ start + (j + i) = n + i
  BY <1>5
<1>9. \A i \in 1..(G - n) : a[i] = b[i]
  <2> TAKE i \in 1..(G - n)
  <2>1. g[start + (j + i)] = data[j + i]
    BY <1>2, <1>8, Zenon
  <2> QED
    BY <1>5, <1>6, <1>7, <1>8, <2>1, Zenon
<1>10. a = b
  BY <1>5, <1>6, <1>7, <1>9, SeqEqual, Zenon
<1>11. SubSeq(g, n + 1, G) = SubSeq(data, j + 1, D)
  BY <1>5, <1>10, Zenon DEF a, b
<1> QED
  BY <1>4, <1>11, Zenon DEF j, D, G, TailIs

\* The first event of a PUBLISH has the beginning of its data, and the rest is unread.
LEMMA PublishKeeps ==
    ASSUME SentInv, RInv', AllOrdinary, ProcessPublish
    PROVE  SentInv'
<1>1. /\ Complete /\ link = "up" /\ mqtt_get_type(in) = PUBLISH /\ at = "body" /\ HasTopic(in)
      /\ UNCHANGED <<link, unread, sent, failures>>
  BY Zenon DEF ProcessPublish, Complete
<1>2. RInv /\ at # "data" /\ in # <<>> /\ sent \in Seq(Messages) /\ in \in Seq(Byte)
      /\ unread \in Seq(Byte) /\ Len(sent) \in Nat
  BY <1>1 DEF SentInv, RInv, ReceiveTypeOK
<1>3. PICK f, m, h : Stream(f, sent) /\ NextMessage(f, m, h)
  BY <1>1, <1>2, NextIs, Zenon
<1>4. PICK k, g, rest, n : k = Len(heard) /\ g = Bytes(m) /\ rest = f[k + 1] /\ n = Len(in)
  OBVIOUS
<1>5. /\ k \in 0..Len(sent) /\ k + 1 \in 0..Len(sent) /\ m = sent[k + 1]
      /\ Framed(g, h) /\ rest \in Seq(Byte) /\ Expect(g, rest) /\ m \in Messages
  BY <1>3, <1>4, Zenon DEF NextMessage
<1>6. Ordinary(m)
  BY <1>5 DEF AllOrdinary
<1>7. /\ m.type = PUBLISH /\ FixedHeaderLen(g) = h
      /\ n \in h..Len(g)
      /\ MessageLength = Len(g)
      /\ HasBody(g, h, m.topic, m.data, m.qos, m.id)
      /\ ReadsPublish(g, h, n, m.topic, m.data, m.qos, m.id)
      /\ in = SubSeq(g, 1, n)
      /\ n = Len(g) \/ (n = BufferLength /\ Large(m))
  BY <1>1, <1>2, <1>4, <1>5, <1>6, PublishInBuffer, Zenon
<1>8. /\ h \in 2..5 /\ g \in Seq(Byte) /\ Len(g) \in Nat /\ n \in Nat /\ n <= Len(g)
      /\ m.qos \in 0..3 /\ m.topic \in Seq(Byte) /\ m.data \in Seq(Byte)
      /\ Len(m.topic) \in Nat /\ Len(m.data) \in Nat
  <2>1. h \in 2..5 /\ g \in Seq(Byte) /\ Len(g) \in Nat
    BY <1>5 DEF Framed
  <2>2. n \in Nat /\ n <= Len(g)
    BY <1>7, <2>1
  <2>3. m.qos \in 0..3 /\ m.topic \in Seq(Byte) /\ m.data \in Seq(Byte)
    BY <1>5, MessageParts, Zenon
  <2> QED
    BY <2>1, <2>2, <2>3, LenProperties, Zenon
<1>9. /\ mqtt_get_qos(in) = m.qos
      /\ n >= h + 2 + Len(m.topic)
      /\ mqtt_get_publish_topic(in) = m.topic
  BY <1>1, <1>7, Zenon DEF ReadsPublish
<1>10. PICK start : start = h + 2 + Len(m.topic) + IdLen(m.qos)
  OBVIOUS
<1>11. start \in Nat /\ start <= n
  <2>1. h + 2 + Len(m.topic) <= n
    BY <1>8, <1>9
  <2>2. start <= n
    BY <1>4, <1>5, <1>7, <1>8, <1>10, <2>1, StartRead, Zenon
  <2>3. IdLen(m.qos) \in {0, 2}
    BY DEF IdLen
  <2>4. start \in Nat
    <3>1. \A a \in 2..5 : \A t \in Nat : \A i \in {0, 2} : a + 2 + t + i \in Nat
      OBVIOUS
    <3> QED
      BY <1>8, <1>10, <2>3, <3>1, Zenon
  <2> QED
    BY <2>2, <2>4
<1> DEFINE d == SubSeq(m.data, 1, n - start)
           tail == SubSeq(m.data, (n - start) + 1, Len(m.data))
<1>12. /\ mqtt_get_id(in, MessageLength) = m.id
       /\ mqtt_get_publish_data(in) = d
  <2>1. n >= start
    BY <1>8, <1>11
  <2>2. /\ mqtt_get_id(in, Len(g)) = (IF m.qos > 0 THEN m.id ELSE 0)
        /\ mqtt_get_publish_data(in) = d
    BY <1>1, <1>7, <1>10, <2>1, Zenon DEF ReadsPublish
  <2>3. m.qos > 0 \/ m.id = 0
    <3>1. m.qos > 0 \/ m.qos = 0
      BY <1>8
    <3> QED
      BY <1>6, <1>7, <3>1 DEF Ordinary
  <2> QED
    BY <1>7, <2>2, <2>3, Zenon
<1>13. /\ n - start \in 0..Len(m.data) /\ Len(m.data) - (n - start) = Len(g) - n
       /\ SubSeq(g, n + 1, Len(g)) = tail
  <2>2. TailIs(g, n, start, m.data)
    <3> HIDE DEF tail, d
    <3>1. n <= Len(g) /\ start <= n /\ start \in Nat /\ n \in Nat
      BY <1>8, <1>11
    <3>2. DataStart(start, h, m.topic, m.qos)
      BY <1>10, Zenon DEF DataStart
    <3>3. HasBody(g, h, m.topic, m.data, m.qos, m.id)
      BY <1>7
    <3>4. m.topic \in Seq(Byte) /\ m.data \in Seq(Byte) /\ h \in 2..5
      BY <1>8
    <3> QED
      BY <3>1, <3>2, <3>3, <3>4, TailOfBody, Zenon
  <2> QED
    BY <2>2, Zenon DEF TailIs
<1>14. /\ d \in Seq(Byte) /\ Len(d) = n - start
       /\ tail \in Seq(Byte) /\ Len(tail) = Len(m.data) - (n - start)
       /\ m.data = d \o tail
  BY <1>8, <1>13, Split, Zenon
<1>15. unread = tail \o rest
  <2>1. in \o unread = g \o rest /\ Len(in) <= Len(g)
    BY <1>5 DEF Expect
  <2>2. unread = SubSeq(g, Len(in) + 1, Len(g)) \o rest
    BY <1>2, <1>5, <1>8, <2>1, PartRead, Zenon
  <2> QED
    BY <1>4, <1>13, <2>2, Zenon
<1> HIDE DEF d, tail
<1> DEFINE left0 == MessageLength - Len(in)
           data0 == mqtt_get_publish_data(in)
           now == [type |-> PUBLISH, qos |-> mqtt_get_qos(in),
                   id |-> mqtt_get_id(in, MessageLength),
                   topic |-> mqtt_get_publish_topic(in), data |-> data0,
                   total |-> Len(data0) + left0]
<1>16. left0 = Len(tail) /\ left0 \in Nat /\ data0 = d
  <2>1. left0 = Len(g) - n
    BY <1>4, <1>7, Zenon
  <2>2. Len(g) - n \in Nat
    BY <1>8
  <2> QED
    BY <1>12, <1>13, <1>14, <2>1, <2>2, Zenon
<1>17. Len(d) + left0 = m.total
  <2>1. m.total = Len(m.data)
    BY <1>6 DEF Ordinary
  <2>2. \A a, b \in Int : a + (b - a) = b
    OBVIOUS
  <2>3. n - start \in Int /\ Len(m.data) \in Int
    BY <1>8, <1>13
  <2>4. (n - start) + (Len(m.data) - (n - start)) = Len(m.data)
    BY <2>2, <2>3, Zenon
  <2> HIDE DEF left0
  <2>5. left0 = Len(m.data) - (n - start)
    BY <1>14, <1>16, Zenon
  <2> QED
    BY <1>14, <2>1, <2>4, <2>5, Zenon
<1>18. now = WithData(m, d)
  BY <1>7, <1>9, <1>12, <1>16, <1>17, Zenon DEF WithData
<1>19. IF left0 > 0
       THEN current' = now /\ left' = left0 /\ at' = "data" /\ UNCHANGED <<in, progress, heard, replies>>
       ELSE Answer(now) /\ UNCHANGED <<current, left>>
  BY Zenon DEF ProcessPublish
<1> HIDE DEF left0, now, data0
<1>20. CASE left0 > 0
  <2>1. current' = WithData(m, d) /\ left' = Len(tail) /\ at' = "data" /\ UNCHANGED heard
    BY <1>16, <1>18, <1>19, <1>20, Zenon
  <2>2. current'.data = d
    BY <2>1 DEF WithData
  <2>3. Delivering(sent[k + 1], f[k + 1])'
    <3>1. /\ unread' = tail \o f[k + 1] /\ Len(tail) = left'
          /\ current' = WithData(m, current'.data)
          /\ m.data = current'.data \o tail
      BY <1>1, <1>4, <1>14, <1>15, <2>1, <2>2, Zenon
    <3>2. m = sent'[k + 1]
      BY <1>1, <1>5
    <3> QED
      BY <1>14, <3>1, <3>2 DEF Delivering
  <2>4. k < Len(sent')
    BY <1>1, <1>2, <1>5
  <2>5. Coming(f, k)'
    BY <2>1, <2>3, <2>4 DEF Coming
  <2>6. heard' \in Seq(Messages) /\ Len(heard') = k /\ heard' = SubSeq(sent, 1, k)
    BY <1>1, <1>4, <2>1, HeardIs, Zenon
  <2> QED
    BY <1>1, <1>3, <1>5, <2>5, <2>6, Stands, Zenon
<1>21. CASE ~(left0 > 0)
  <2>1. Answer(now)
    BY <1>19, <1>21, Zenon
  <2>2. tail = <<>>
    BY <1>14, <1>16, <1>21
  <2>3. d = m.data
    BY <1>14, <2>2, ConcatEmptySeq, Zenon
  <2>4. now = m
    BY <1>5, <1>18, <2>3, SameMessage, Zenon
  <2>5. unread' = f[k + 1]
    BY <1>1, <1>4, <1>5, <1>15, <2>2, ConcatEmptySeq, Zenon
  <2>6. heard' = Append(heard, m) /\ in' = <<>> /\ at' = "idle"
    BY <2>1, <2>4, Zenon DEF Answer
  <2> QED
    BY <1>1, <1>3, <1>4, <1>5, <2>5, <2>6, HeardOne, Zenon
<1> QED
  BY <1>20, <1>21

\* Each further event has the next part of the data, and the last ends the message.
LEMMA DataKeeps ==
    ASSUME SentInv, RInv', ReadData
    PROVE  SentInv'
<1>1. at = "data" /\ UNCHANGED <<link, sent, failures>>
  BY DEF ReadData
<1>2. /\ link = "up" /\ sent \in Seq(Messages) /\ unread \in Seq(Byte)
      /\ current.data \in Seq(Byte) /\ left \in Nat /\ Len(sent) \in Nat
  BY <1>1 DEF SentInv, RInv, ReceiveTypeOK
<1>3. PICK f : Stream(f, sent) /\ Coming(f, Len(heard))
  BY <1>2 DEF SentInv
<1>4. PICK n, m, rest : n = Len(heard) /\ m = sent[n + 1] /\ rest = f[n + 1]
  OBVIOUS
<1>5. n \in 0..Len(sent) /\ n < Len(sent) /\ Delivering(m, rest)
  BY <1>1, <1>2, <1>3, <1>4, HeardIs, Zenon DEF Coming
<1>6. n + 1 \in 0..Len(sent) /\ m \in Messages /\ rest \in Seq(Byte)
  BY <1>2, <1>3, <1>4, <1>5, StreamIs, Zenon
<1>7. PICK tail \in Seq(Byte) :
        /\ unread = tail \o rest /\ Len(tail) = left
        /\ current = WithData(m, current.data)
        /\ m.data = current.data \o tail
  BY <1>5 DEF Delivering
<1>8. PICK k \in 1..Min({left, BufferLength, Len(unread)}) :
        LET x == WithData(current, current.data \o SubSeq(unread, 1, k))
        IN /\ unread' = SubSeq(unread, k + 1, Len(unread))
           /\ IF k = left
              THEN left' = 0 /\ current' = Nothing /\ Answer(x)
              ELSE left' = left - k /\ current' = x /\ UNCHANGED <<in, at, progress, heard, replies>>
  BY Zenon DEF ReadData
<1>9. k \in Nat /\ k > 0 /\ k <= left /\ k <= Len(unread)
  <2> DEFINE S == {left, BufferLength, Len(unread)}
  <2>1. left \in Nat /\ BufferLength \in Nat /\ Len(unread) \in Nat
    BY <1>2, AtLeastNine
  <2>2. Min(S) \in Nat /\ Min(S) <= left /\ Min(S) <= Len(unread)
    BY <2>1, MinOfThree
  <2> QED
    BY <1>8, <2>1, <2>2, SMT
<1> DEFINE a == SubSeq(unread, 1, k)
           b == SubSeq(unread, k + 1, Len(unread))
           t == SubSeq(tail, k + 1, Len(tail))
           now == WithData(current, current.data \o a)
<1>10. /\ a \in Seq(Byte) /\ Len(a) = k /\ b \in Seq(Byte) /\ unread = a \o b
  <2>1. k \in 0..Len(unread)
    BY <1>2, <1>9
  <2> QED
    BY <1>2, <2>1, Split, Zenon
<1>11. /\ a = SubSeq(tail, 1, k) /\ b = t \o rest
       /\ t \in Seq(Byte) /\ Len(t) = left - k /\ tail = a \o t
  <2>1. k \in 0..Len(tail) /\ k <= Len(tail)
    BY <1>2, <1>7, <1>9
  <2>2. a \o b = tail \o rest
    BY <1>7, <1>10, Zenon
  <2> HIDE DEF a, b
  <2>3. a = SubSeq(tail, 1, k) /\ b = SubSeq(tail, k + 1, Len(tail)) \o rest
    <3>1. a = SubSeq(tail, 1, Len(a))
      BY <1>6, <1>10, <2>1, <2>2, Prefix, Zenon
    <3>2. b = SubSeq(tail, Len(a) + 1, Len(tail)) \o rest
      BY <1>6, <1>10, <2>1, <2>2, PartRead, Zenon
    <3> QED
      BY <1>10, <3>1, <3>2, Zenon
  <2>4. /\ SubSeq(tail, k + 1, Len(tail)) \in Seq(Byte)
        /\ Len(SubSeq(tail, k + 1, Len(tail))) = Len(tail) - k
        /\ tail = SubSeq(tail, 1, k) \o SubSeq(tail, k + 1, Len(tail))
    BY <2>1, Split, Zenon
  <2> QED
    BY <1>7, <2>3, <2>4, Zenon
<1> HIDE DEF t
<1>12. m.data = (current.data \o a) \o t
  <2>1. (current.data \o a) \o t = current.data \o (a \o t)
    BY <1>2, <1>10, <1>11, Reassociate, Zenon
  <2> QED
    BY <1>7, <1>11, <2>1, Zenon
<1>13. current.data \o a \in Seq(Byte)
  BY <1>2, <1>10, AppendType, Zenon
<1>14. /\ unread' = b
       /\ IF k = left
          THEN left' = 0 /\ current' = Nothing /\ Answer(now)
          ELSE left' = left - k /\ current' = now /\ UNCHANGED <<in, at, progress, heard, replies>>
  BY <1>8, Zenon
<1>15. now = WithData(m, current.data \o a)
  <2>1. /\ current.type = m.type /\ current.qos = m.qos /\ current.id = m.id
        /\ current.topic = m.topic /\ current.total = m.total
    BY <1>7 DEF WithData
  <2> QED
    BY <2>1, Zenon DEF WithData
<1> HIDE DEF a, b, now
<1>16. CASE k = left
  <2>1. Answer(now)
    BY <1>14, <1>16, Zenon
  <2>2. t = <<>>
    BY <1>2, <1>11, <1>16
  <2>3. m.data = current.data \o a
    BY <1>12, <1>13, <2>2, ConcatEmptySeq, Zenon
  <2>4. now = m
    BY <1>6, <1>15, <2>3, SameMessage, Zenon
  <2>5. unread' = f[n + 1]
    BY <1>4, <1>6, <1>11, <1>14, <2>2, ConcatEmptySeq, Zenon
  <2>6. heard' = Append(heard, m) /\ in' = <<>> /\ at' = "idle"
    BY <2>1, <2>4, Zenon DEF Answer
  <2> QED
    BY <1>1, <1>2, <1>3, <1>4, <1>6, <2>5, <2>6, HeardOne, Zenon
<1>17. CASE k # left
  <2>1. left' = Len(t) /\ current' = WithData(m, current.data \o a) /\ at' = "data" /\ UNCHANGED heard
    BY <1>1, <1>11, <1>14, <1>15, <1>17, Zenon
  <2>2. current'.data = current.data \o a
    BY <2>1 DEF WithData
  <2>3. Delivering(sent[n + 1], f[n + 1])'
    <3>1. /\ unread' = t \o f[n + 1] /\ Len(t) = left'
          /\ current' = WithData(m, current'.data)
          /\ m.data = current'.data \o t
      BY <1>4, <1>11, <1>12, <1>14, <2>1, <2>2, Zenon
    <3>2. m = sent'[n + 1]
      BY <1>1, <1>4
    <3> QED
      BY <1>11, <3>1, <3>2 DEF Delivering
  <2>4. n < Len(sent')
    BY <1>1, <1>5
  <2>5. Coming(f, n)'
    BY <2>1, <2>3, <2>4 DEF Coming
  <2>6. heard' \in Seq(Messages) /\ Len(heard') = n /\ heard' = SubSeq(sent, 1, n)
    BY <1>2, <1>4, <2>1, HeardIs, Zenon
  <2> QED
    BY <1>1, <1>2, <1>3, <1>5, <2>5, <2>6, Stands, Zenon
<1> QED
  BY <1>16, <1>17

\* Nothing is promised any more.
LEMMA DataTimesOutKeeps ==
    ASSUME RInv', DataTimesOut
    PROVE  SentInv'
<1>1. link' = "garbled" /\ at' = "idle"
  BY DEF DataTimesOut, Answer
<1> QED
  BY <1>1 DEF SentInv

---------------------------------------------------------------------------
LEMMA InitSent == Init => SentInv
<1> SUFFICES ASSUME Init PROVE SentInv
  OBVIOUS
<1>1. link = "down" /\ at = "idle" /\ sent = <<>> /\ heard = <<>> /\ RInv
  BY InitType DEF Init
<1> QED
  BY <1>1 DEF SentInv

\* One step for each action.
LEMMA NextSent ==
    ASSUME SentInv, AllOrdinary, Next, RInv'
    PROVE  SentInv'
<1>1. CASE Breaks
  BY <1>1, AbortKeeps DEF Breaks
<1>2. CASE Connect
  BY <1>2, ConnectKeeps
<1>3. CASE \E m \in Messages : BrokerSends(m)
  BY <1>3, SendKeeps
<1>4. CASE Reads
  BY <1>4, ReadsKeep
<1>5. CASE ReadFirstInvalid \/ Refuse \/ PublishWithoutTopic
  <2>1. AbortConnection
    BY <1>5 DEF ReadFirstInvalid, Refuse, PublishWithoutTopic
  <2> QED
    BY <2>1, AbortKeeps
<1>6. CASE ProcessConnAck
  BY <1>6, ConnAckKeeps
<1>7. CASE ProcessPublish
  BY <1>7, PublishKeeps
<1>8. CASE ReadData
  BY <1>8, DataKeeps
<1>9. CASE DataTimesOut
  BY <1>9, DataTimesOutKeeps
<1>10. CASE ProcessOther
  BY <1>10, OtherKeeps
<1>11. Network \/ Receive
  BY DEF Next
<1> QED
  BY <1>1, <1>2, <1>3, <1>4, <1>5, <1>6, <1>7, <1>8, <1>9, <1>10, <1>11, Zenon
     DEF Network, Receive, Reads

LEMMA StepSent == AllOrdinary /\ SentInv /\ [Next]_vars => SentInv'
<1> SUFFICES ASSUME AllOrdinary, SentInv, [Next]_vars PROVE SentInv'
  OBVIOUS
<1>1. RInv'
  BY StepType DEF SentInv
<1>2. CASE Next
  BY <1>1, <1>2, NextSent
<1>3. CASE UNCHANGED vars
  <2>1. UNCHANGED <<link, unread, in, at, current, left, sent, heard>>
    BY <1>3 DEF vars
  <2> QED
    BY <1>1, <2>1 DEF SentInv, Stream, Expect, Coming, Delivering
<1> QED
  BY <1>2, <1>3

\* Whatever reads return, in how many calls of mqtt_message_receive, with whatever
\* timeouts in between, and for every set of ordinary messages, however long: the
\* messages that mqtt_process_receive hands on are those that the broker sent, whole,
\* in order and without a gap, also those of which in_buffer holds only a part
\* (mqtt_client.c:1439, 1252).
THEOREM HearsWhatIsSent ==
    ASSUME AllOrdinary
    PROVE  Spec => []HeardIsSent
<1>1. SentInv => HeardIsSent
  BY DEF SentInv, HeardIsSent
<1> QED
  BY <1>1, InitSent, StepSent, PTL DEF Spec

---------------------------------------------------------------------------
\* Why a connection ends.

\* m is the first of the messages that were not heard.
NextUp(m) ==
    /\ Len(heard) \in 0..Len(sent) /\ Len(heard) + 1 \in 0..Len(sent)
    /\ m = sent[Len(heard) + 1]

\* What the first byte says.
LEMMA FirstByteOnly ==
    ASSUME NEW a, NEW b, a[1] = b[1]
    PROVE  mqtt_has_valid_msg_hdr(a) <=> mqtt_has_valid_msg_hdr(b)
<1>1. mqtt_get_type(a) = mqtt_get_type(b)
  BY Zenon DEF mqtt_get_type
<1>2. mqtt_get_qos(a) = mqtt_get_qos(b)
  BY Zenon DEF mqtt_get_qos
<1>3. mqtt_get_dup(a) = mqtt_get_dup(b)
  BY Zenon DEF mqtt_get_dup
<1> QED
  BY <1>1, <1>2, <1>3, Zenon DEF mqtt_has_valid_msg_hdr

\* The first byte is refused only if it is that of a message with an invalid header.
LEMMA InvalidHeader ==
    ASSUME SentInv, AllOrdinary, link = "up", ReadFirstInvalid
    PROVE  \E m : NextUp(m) /\ ~mqtt_has_valid_msg_hdr(Bytes(m))
<1>1. at = "idle" /\ in = <<>> /\ unread # <<>> /\ ~mqtt_has_valid_msg_hdr(unread)
  BY DEF ReadFirstInvalid
<1>2. PICK f, m, h : Stream(f, sent) /\ NextMessage(f, m, h)
  BY <1>1, NextIs, Zenon
<1>3. PICK g, rest : g = Bytes(m) /\ rest = f[Len(heard) + 1]
  OBVIOUS
<1>4. Framed(g, h) /\ rest \in Seq(Byte) /\ Expect(g, rest)
  BY <1>2, <1>3, Zenon DEF NextMessage
<1>5. unread \in Seq(Byte) /\ g \in Seq(Byte) /\ 1 \in 1..Len(g)
  BY <1>4 DEF SentInv, RInv, ReceiveTypeOK, Framed
<1>6. unread = g \o rest
  <2>1. in \o unread = g \o rest
    BY <1>4 DEF Expect
  <2> QED
    BY <1>1, <1>5, <2>1, ConcatEmptySeq, Zenon
<1>7. unread[1] = g[1]
  BY <1>4, <1>5, <1>6, Joined, Zenon DEF Joins
<1>8. ~mqtt_has_valid_msg_hdr(g)
  BY <1>1, <1>7, FirstByteOnly, Zenon
<1> QED
  BY <1>2, <1>3, <1>8, Zenon DEF NextMessage, NextUp

\* A message is refused only if it does not fit: the code's test of the
\* topic takes it for shorter than it is, never for longer.
LEMMA RefusedIsTooLong ==
    ASSUME SentInv, AllOrdinary, link = "up", Refuse
    PROVE  \E m : NextUp(m) /\ TooLong(m)
<1>1. at = "body" /\ MessageTooLong
  BY DEF Refuse
<1>2. RInv /\ in # <<>> /\ at # "data"
  BY <1>1 DEF SentInv, RInv, ReceiveTypeOK
<1>3. PICK f, m, h : Stream(f, sent) /\ NextMessage(f, m, h)
  BY <1>2, NextIs, Zenon
<1>4. PICK g, rest, n : g = Bytes(m) /\ rest = f[Len(heard) + 1] /\ n = Len(in)
  OBVIOUS
<1>5. Framed(g, h) /\ rest \in Seq(Byte) /\ Expect(g, rest) /\ m \in Messages /\ NextUp(m)
  BY <1>3, <1>4, Zenon DEF NextMessage, NextUp
<1>6. Ordinary(m)
  BY <1>5 DEF AllOrdinary
<1>7. /\ Len(g) \in Nat /\ n \in Nat /\ h \in 2..5
      /\ FixedHeaderLen(in) = h /\ MessageLength = Len(g)
  BY <1>1, <1>2, <1>4, <1>5, BufferIs, Zenon
<1>8. BufferLength < Len(g) /\ ~LacksTopicLen
      /\ (mqtt_get_type(in) = PUBLISH => TopicEnd > BufferLength)
  BY <1>1, <1>7, Zenon DEF MessageTooLong, DoesNotFit
<1>9. Large(m)
  <2>1. Len(g) > BufferLength
    BY <1>7, <1>8, AtLeastNine
  <2> QED
    BY <1>4, <2>1, Zenon DEF Large
<1>10. ASSUME m.type = PUBLISH PROVE TopicStop(m) > BufferLength
  <2>1. mqtt_get_type(in) = PUBLISH
    <3>1. in = SubSeq(g, 1, n) /\ n \in FixedHeaderLen(g)..Len(g)
      <4>1. in = SubSeq(g, 1, n) /\ n >= h /\ FixedHeaderLen(g) = h /\ n \in 0..Len(g)
        BY <1>1, <1>2, <1>4, <1>5, BufferIs, Zenon
      <4>2. n \in h..Len(g)
        BY <1>7, <4>1
      <4> QED
        BY <4>1, <4>2, Zenon
    <3>2. ReadsPublish(g, FixedHeaderLen(g), n, m.topic, m.data, m.qos, m.id)
      BY <1>4, <1>5, <1>6, <1>10, <3>1, PublishBytes, Zenon
    <3> QED
      BY <3>1, <3>2, Zenon DEF ReadsPublish
  <2>2. /\ FixedHeaderLen(g) = h /\ ReadsPublish(g, h, n, m.topic, m.data, m.qos, m.id)
        /\ in = SubSeq(g, 1, n)
    BY <1>1, <1>2, <1>4, <1>5, <1>6, <2>1, PublishInBuffer, Zenon
  <2>3. n >= h + 2
    <3>1. ~(n < h + 2)
      BY <1>4, <1>7, <1>8, <2>1, Zenon DEF LacksTopicLen, DoesNotFit
    <3> QED
      BY <1>7, <3>1
  <2>4. TopicLen(in, h) = Len(m.topic) /\ mqtt_get_qos(in) = m.qos
    BY <2>2, <2>3, Zenon DEF ReadsPublish
  <2>5. TopicEnd = h + Len(m.topic) + IdLen(m.qos)
    BY <1>7, <2>4, Zenon DEF TopicEnd, IdLen
  <2>6. TopicStop(m) = h + 2 + Len(m.topic)
    BY <1>4, <2>2, Zenon DEF TopicStop
  <2>7. Len(m.topic) \in Nat /\ IdLen(m.qos) \in {0, 2}
    <3>1. m.topic \in Seq(Byte)
      BY <1>5, MessageParts, Zenon
    <3> QED
      BY <3>1, LenProperties, Zenon DEF IdLen
  <2>8. \A a \in 2..5 : \A t, b \in Nat : \A i \in {0, 2} : a + t + i > b => a + 2 + t > b
    OBVIOUS
  <2> QED
    BY <1>7, <1>8, <2>1, <2>5, <2>6, <2>7, <2>8, AtLeastNine, Zenon
<1>11. TooLong(m)
  BY <1>9, <1>10, Zenon DEF TooLong
<1> QED
  BY <1>5, <1>11

\* Nor is a topic missing from a PUBLISH that fits.
LEMMA TopicIsTooLong ==
    ASSUME SentInv, AllOrdinary, link = "up", PublishWithoutTopic
    PROVE  \E m : NextUp(m) /\ TooLong(m)
<1>1. at = "body" /\ Complete /\ mqtt_get_type(in) = PUBLISH /\ ~HasTopic(in)
  BY DEF PublishWithoutTopic, Complete
<1>2. RInv /\ in # <<>> /\ at # "data"
  BY <1>1 DEF SentInv, RInv, ReceiveTypeOK
<1>3. PICK f, m, h : Stream(f, sent) /\ NextMessage(f, m, h)
  BY <1>2, NextIs, Zenon
<1>4. PICK g, rest, n : g = Bytes(m) /\ rest = f[Len(heard) + 1] /\ n = Len(in)
  OBVIOUS
<1>5. Framed(g, h) /\ rest \in Seq(Byte) /\ Expect(g, rest) /\ m \in Messages /\ NextUp(m)
  BY <1>3, <1>4, Zenon DEF NextMessage, NextUp
<1>6. Ordinary(m)
  BY <1>5 DEF AllOrdinary
<1>7. /\ m.type = PUBLISH /\ FixedHeaderLen(g) = h
      /\ n \in h..Len(g)
      /\ HasBody(g, h, m.topic, m.data, m.qos, m.id)
      /\ ReadsPublish(g, h, n, m.topic, m.data, m.qos, m.id)
      /\ in = SubSeq(g, 1, n)
      /\ n = Len(g) \/ (n = BufferLength /\ Large(m))
  BY <1>1, <1>2, <1>4, <1>5, <1>6, PublishInBuffer, Zenon
<1>8. PICK T \in Nat : T = Len(m.topic) /\ T > 0
  <2>1. m.topic \in Seq(Byte) /\ m.topic # <<>>
    BY <1>5, <1>6, <1>7, MessageParts, Zenon DEF Ordinary
  <2> QED
    BY <2>1
<1>9. h \in 2..5 /\ Len(g) \in Nat /\ n \in Nat
  <2>1. h \in 2..5 /\ Len(g) \in Nat
    BY <1>5 DEF Framed
  <2> QED
    BY <1>7, <2>1
<1>10. n < h + 2 + T
  <2>1. ~(n > h + 2 /\ n >= h + 2 + T)
    BY <1>1, <1>7, <1>8, Zenon DEF ReadsPublish
  <2>2. \A a \in 2..5 : \A b, t \in Nat : t > 0 /\ ~(b > a + 2 /\ b >= a + 2 + t) => b < a + 2 + t
    OBVIOUS
  <2> QED
    BY <1>8, <1>9, <2>1, <2>2, Zenon
<1>11. n # Len(g)
  <2>1. Len(g) = h + 2 + T + IdLen(m.qos) + Len(m.data)
    BY <1>7, <1>8, Zenon DEF HasBody
  <2>2. IdLen(m.qos) \in {0, 2} /\ Len(m.data) \in Nat
    <3>1. m.data \in Seq(Byte)
      BY <1>5, MessageParts, Zenon
    <3> QED
      BY <3>1, LenProperties, Zenon DEF IdLen
  <2>3. \A a \in 2..5 : \A t, d \in Nat : \A i \in {0, 2} : ~(a + 2 + t + i + d < a + 2 + t)
    OBVIOUS
  <2> QED
    BY <1>8, <1>9, <1>10, <2>1, <2>2, <2>3, Zenon
<1>12. n = BufferLength /\ Large(m)
  BY <1>7, <1>11
<1>13. TopicStop(m) = h + 2 + T
  BY <1>4, <1>7, <1>8, Zenon DEF TopicStop
<1>14. TopicStop(m) > BufferLength
  <2>1. \A a \in 2..5 : \A b, t \in Nat : b < a + 2 + t => a + 2 + t > b
    OBVIOUS
  <2> QED
    BY <1>8, <1>9, <1>10, <1>12, <1>13, <2>1, Zenon
<1>15. TooLong(m)
  BY <1>12, <1>14, Zenon DEF TooLong
<1> QED
  BY <1>5, <1>15

\* What takes the connection down.
LEMMA SoundStep ==
    ASSUME SentInv, AllOrdinary, Next, link = "up", link' = "down"
    PROVE  \/ failures' > failures
           \/ Len(heard) < Len(sent) /\ Unacceptable(sent[Len(heard) + 1])
<1>1. CASE Breaks
  <2>1. failures' = failures + 1 /\ failures \in 0..MaxFailures
    BY <1>1 DEF Breaks, SentInv, RInv, ReceiveTypeOK
  <2> QED
    BY <2>1
<1>2. ASSUME \E m : NextUp(m) /\ (TooLong(m) \/ ~mqtt_has_valid_msg_hdr(Bytes(m)))
      PROVE  Len(heard) < Len(sent) /\ Unacceptable(sent[Len(heard) + 1])
  <2>1. PICK m : NextUp(m) /\ (TooLong(m) \/ ~mqtt_has_valid_msg_hdr(Bytes(m)))
    BY <1>2
  <2>2. m = sent[Len(heard) + 1] /\ Len(heard) \in 0..Len(sent) /\ Len(heard) + 1 \in 0..Len(sent)
    BY <2>1, Zenon DEF NextUp
  <2>3. Len(heard) < Len(sent)
    <3>1. Len(sent) \in Nat
      BY HeardIs, Zenon
    <3> QED
      BY <2>2, <3>1
  <2> QED
    BY <2>1, <2>2, <2>3, Zenon DEF Unacceptable
<1>3. CASE ReadFirstInvalid
  BY <1>2, <1>3, InvalidHeader, Zenon
<1>4. CASE Refuse
  BY <1>2, <1>4, RefusedIsTooLong, Zenon
<1>5. CASE PublishWithoutTopic
  BY <1>2, <1>5, TopicIsTooLong, Zenon
<1>6. CASE Reads
  BY <1>6, ReadsChange
<1>7. CASE Connect \/ \E m \in Messages : BrokerSends(m)
  BY <1>7 DEF Connect, BrokerSends
<1>8. CASE ProcessConnAck \/ ProcessPublish \/ ReadData \/ DataTimesOut \/ ProcessOther
  BY <1>8, Zenon DEF ProcessConnAck, ProcessPublish, ReadData, DataTimesOut, ProcessOther
<1>9. Network \/ Receive
  BY DEF Next
<1> QED
  BY <1>1, <1>3, <1>4, <1>5, <1>6, <1>7, <1>8, <1>9, Zenon DEF Network, Receive, Reads

\* mqtt_message_receive and mqtt_process_receive give up a connection that the network
\* has not failed only if the next message is one that the client has no room for or
\* that has an invalid header: no other message, no way of its bytes to come in and no
\* timeout that finds something read leads to esp_mqtt_abort_connection
\* (mqtt_client.c:1462, 1532, 1587).
THEOREM SoundConnectionIsKept ==
    ASSUME AllOrdinary
    PROVE  Spec => KeepsSoundConnection
<1>1. SentInv /\ AllOrdinary /\ [Next]_vars =>
        [link = "up" /\ link' = "down" =>
          \/ failures' > failures
          \/ Len(heard) < Len(sent) /\ Unacceptable(sent[Len(heard) + 1])]_vars
  BY SoundStep
<1> QED
  BY <1>1, InitSent, StepSent, PTL DEF Spec, KeepsSoundConnection

---------------------------------------------------------------------------
\* The answers.

\* What has been answered are the messages that were heard.  The message that the
\* loop of deliver_publish is in is a PUBLISH, as ExpectedReply wants it.
ReplyInv ==
    /\ \E H : heard \in Seq(H)
    /\ \E R : replies \in Seq(R)
    /\ RepliesMatch
    /\ at = "data" => current.type = PUBLISH

\* The answers to h, message by message.
RepliesTo(h) == [i \in DOMAIN h |-> ExpectedReply(h[i])]

\* Their number and each of them.
LEMMA RepliesToIs ==
    ASSUME NEW H, NEW h \in Seq(H)
    PROVE  /\ Len(RepliesTo(h)) = Len(h) /\ Len(h) \in Nat
           /\ \A i \in 1..Len(h) : RepliesTo(h)[i] = ExpectedReply(h[i])
           /\ Len(h) = 0 => RepliesTo(h) = <<>>
<1> DEFINE s == RepliesTo(h)
           S == {ExpectedReply(h[i]) : i \in 1..Len(h)}
<1>1. Len(h) \in Nat /\ DOMAIN h = 1..Len(h)
  OBVIOUS
<1>2. s = [i \in 1..Len(h) |-> ExpectedReply(h[i])]
  BY <1>1, Zenon DEF RepliesTo
<1>3. s \in [1..Len(h) -> S]
  BY <1>2, Zenon
<1> HIDE DEF s, S
<1>4. s \in Seq(S) /\ Len(s) = Len(h)
  BY <1>1, <1>3
<1>5. \A i \in 1..Len(h) : s[i] = ExpectedReply(h[i])
  BY <1>2, Zenon
<1>6. Len(h) = 0 => s = <<>>
  BY <1>4
<1> QED
  BY <1>1, <1>4, <1>5, <1>6, Zenon DEF s

\* One message more and the answer to it.
LEMMA OneReplyMore ==
    ASSUME NEW H, NEW h \in Seq(H), NEW R, NEW r \in Seq(R), r = FlattenSeq(RepliesTo(h)),
           NEW m, ExpectedReply(m) \in Seq(R)
    PROVE  r \o ExpectedReply(m) = FlattenSeq(RepliesTo(Append(h, m)))
<1> DEFINE n == Len(h)
           k == Append(h, m)
           s == RepliesTo(h)
           t == RepliesTo(k)
<1>1. n \in Nat /\ k \in Seq(H \cup {m}) /\ Len(k) = n + 1 /\ k[n + 1] = m
      /\ \A i \in 1..n : k[i] = h[i]
  <2>1. h \in Seq(H \cup {m})
    OBVIOUS
  <2> QED
    BY <2>1
<1>2. Len(s) = n /\ (\A i \in 1..n : s[i] = ExpectedReply(h[i])) /\ (n = 0 => s = <<>>)
  BY RepliesToIs, Zenon
<1> HIDE DEF k
<1>3. Len(t) = n + 1 /\ \A i \in 1..(n + 1) : t[i] = ExpectedReply(k[i])
  <2>1. Len(t) = Len(k) /\ \A i \in 1..Len(k) : t[i] = ExpectedReply(k[i])
    BY <1>1, RepliesToIs, Zenon
  <2> QED
    BY <1>1, <2>1, Zenon
<1> HIDE DEF s, t, n
<1>4. n + 1 \in 1..(n + 1) /\ \A i \in 1..n : i \in 1..(n + 1)
  BY <1>1
<1>5. t[n + 1] = ExpectedReply(m)
  BY <1>1, <1>3, <1>4, Zenon
<1>6. Agree(s, t, n)
  <2> SUFFICES ASSUME NEW i \in 1..n PROVE s[i] = t[i]
    BY Zenon DEF Agree
  <2>1. s[i] = ExpectedReply(h[i]) /\ i \in 1..(n + 1) /\ k[i] = h[i]
    BY <1>1, <1>2, <1>4, Zenon
  <2>2. t[i] = ExpectedReply(k[i])
    BY <1>3, <2>1, Zenon
  <2> QED
    BY <2>1, <2>2, Zenon
<1>7. /\ n = 0 => FlattenSeq(s) = s /\ FlattenSeq(t) = t[n + 1]
      /\ n # 0 => FlattenSeq(t) = FlattenSeq(s) \o t[n + 1]
  <2>1. Flattens(s, t, n)
    BY <1>1, <1>2, <1>3, <1>6, FlattenOneMore, Zenon
  <2> QED
    BY <2>1, Zenon DEF Flattens
<1>8. r = FlattenSeq(s)
  BY DEF s
<1>9. r \o ExpectedReply(m) = FlattenSeq(t)
  <2>1. CASE n = 0
    <3>1. r = <<>>
      BY <1>2, <1>7, <1>8, <2>1, Zenon
    <3> QED
      BY <1>5, <1>7, <2>1, <3>1, ConcatEmptySeq, Zenon
  <2>2. CASE n # 0
    BY <1>5, <1>7, <1>8, <2>2, Zenon
  <2> QED
    BY <2>1, <2>2
<1> QED
  BY <1>9, Zenon DEF t, k

\* A message is heard and its answer, at most one packet, goes out.
LEMMA Hears ==
    ASSUME ReplyInv, NEW m, heard' = Append(heard, m), replies' = replies \o ExpectedReply(m),
           NEW x, ExpectedReply(m) \in Seq({x}), at' = "idle"
    PROVE  ReplyInv'
<1>1. PICK H, R0 : heard \in Seq(H) /\ replies \in Seq(R0)
  BY DEF ReplyInv
<1>2. PICK R : R = R0 \cup {x}
  OBVIOUS
<1>3. replies \in Seq(R) /\ ExpectedReply(m) \in Seq(R)
  BY <1>1, <1>2
<1>4. replies = FlattenSeq(RepliesTo(heard))
  BY DEF ReplyInv, RepliesMatch, RepliesTo
<1>5. replies' = FlattenSeq(RepliesTo(heard'))
  BY <1>1, <1>3, <1>4, OneReplyMore, Zenon
<1>6. RepliesMatch'
  BY <1>5 DEF RepliesMatch, RepliesTo
<1>7. heard' \in Seq(H \cup {m})
  <2>1. heard \in Seq(H \cup {m})
    BY <1>1
  <2> QED
    BY <2>1
<1>8. replies' \in Seq(R)
  BY <1>3
<1> QED
  BY <1>6, <1>7, <1>8 DEF ReplyInv

\* What answers a PUBLISH.
LEMMA AnswerIs ==
    ASSUME ReplyInv, NEW m, m.type = PUBLISH, Answer(m)
    PROVE  ReplyInv'
<1>1. heard' = Append(heard, m) /\ at' = "idle"
  BY DEF Answer
<1>2. PICK R : replies \in Seq(R)
  BY DEF ReplyInv
<1>3. PUBLISH # PUBREC /\ PUBLISH # PUBREL /\ 1 # 2
  BY DEF PUBLISH, PUBREC, PUBREL
<1>4. CASE m.qos = 1
  <2>0. ~(m.qos = 2)
    BY <1>4
  <2>1. PICK x : x = mqtt_msg_puback(m.id)
    OBVIOUS
  <2>2. ExpectedReply(m) = <<x>>
    <3>1. ~(m.type = PUBLISH /\ m.qos = 2) /\ m.type # PUBREC /\ m.type # PUBREL
      BY <1>3, <2>0
    <3> QED
      BY <1>4, <2>1, <3>1, Zenon DEF ExpectedReply
  <2>3. replies' = Append(replies, x)
    <3>1. PICK q, a, b : /\ q = m.qos /\ a = Append(replies, x)
                         /\ b = Append(replies, mqtt_msg_pubrec(m.id))
      OBVIOUS
    <3>2. PICK c : c = replies
      OBVIOUS
    <3>3. replies' = CASE q = 1 -> a [] q = 2 -> b [] OTHER -> c
      BY <2>1, <3>1, <3>2, Zenon DEF Answer
    <3>4. q = 1
      BY <1>4, <3>1
    <3>5. replies' = a
      BY <3>3, <3>4, SMT
    <3> QED
      BY <3>1, <3>5, Zenon
  <2>4. replies' = replies \o <<x>>
    BY <1>2, <2>3
  <2>5. <<x>> \in Seq({x})
    OBVIOUS
  <2> QED
    BY <1>1, <2>2, <2>4, <2>5, Hears, Zenon
<1>5. CASE m.qos = 2
  <2>0. ~(m.qos = 1)
    BY <1>5
  <2>1. PICK x : x = mqtt_msg_pubrec(m.id)
    OBVIOUS
  <2>2. ExpectedReply(m) = <<x>>
    <3>1. ~(m.type = PUBLISH /\ m.qos = 1) /\ m.type # PUBREC /\ m.type # PUBREL
      BY <1>3, <2>0
    <3> QED
      BY <1>5, <2>1, <3>1, Zenon DEF ExpectedReply
  <2>3. replies' = Append(replies, x)
    <3>1. PICK q, a, b : /\ q = m.qos /\ a = Append(replies, mqtt_msg_puback(m.id))
                         /\ b = Append(replies, x)
      OBVIOUS
    <3>2. PICK c : c = replies
      OBVIOUS
    <3>3. replies' = CASE q = 1 -> a [] q = 2 -> b [] OTHER -> c
      BY <2>1, <3>1, <3>2, Zenon DEF Answer
    <3>4. q = 2
      BY <1>5, <3>1
    <3>5. replies' = b
      BY <3>3, <3>4, SMT
    <3> QED
      BY <3>1, <3>5, Zenon
  <2>4. replies' = replies \o <<x>>
    BY <1>2, <2>3
  <2>5. <<x>> \in Seq({x})
    OBVIOUS
  <2> QED
    BY <1>1, <2>2, <2>4, <2>5, Hears, Zenon
<1>6. CASE m.qos # 1 /\ m.qos # 2
  <2>1. ExpectedReply(m) = <<>>
    BY <1>3, <1>6, Zenon DEF ExpectedReply
  <2>2. replies' = replies
    BY <1>6, Zenon DEF Answer
  <2>3. replies' = replies \o <<>>
    BY <1>2, <2>2, ConcatEmptySeq, Zenon
  <2>4. <<>> \in Seq({0})
    OBVIOUS
  <2> QED
    BY <1>1, <2>1, <2>3, <2>4, Hears, Zenon
<1> QED
  BY <1>4, <1>5, <1>6

\* What answers another message.
LEMMA OtherReplies ==
    ASSUME ReplyInv, ProcessOther
    PROVE  ReplyInv'
<1> DEFINE type == mqtt_get_type(in)
           data == IF type = SUBACK THEN SubSeq(in, 5, Len(in)) ELSE <<>>
           now == Message(type, 0, mqtt_get_id(in, MessageLength), <<>>, data)
<1>1. /\ type # PUBLISH /\ heard' = Append(heard, now) /\ replies' = replies \o ReplyTo(now)
      /\ at' = "idle"
  BY Zenon DEF ProcessOther
<1>2. now.type # PUBLISH
  BY <1>1, Zenon DEF Message
<1> HIDE DEF now
<1>3. ReplyTo(now) = ExpectedReply(now)
  BY <1>2, SMT DEF ReplyTo, ExpectedReply, PUBLISH, PUBREC, PUBREL
<1>4. \E x : ExpectedReply(now) \in Seq({x})
  <2>1. \A x : <<x>> \in Seq({x}) /\ <<>> \in Seq({x})
    OBVIOUS
  <2>2. PICK y : \/ ReplyTo(now) = <<y>> \/ ReplyTo(now) = <<>>
    <3>1. CASE now.type = PUBREC
      <4>1. ReplyTo(now) = <<mqtt_msg_pubrel(now.id)>>
        BY <3>1, SMT DEF ReplyTo, PUBREC, PUBREL
      <4> QED
        BY <4>1
    <3>2. CASE now.type = PUBREL
      <4>1. ReplyTo(now) = <<mqtt_msg_pubcomp(now.id)>>
        BY <3>2, SMT DEF ReplyTo, PUBREC, PUBREL
      <4> QED
        BY <4>1
    <3>3. CASE now.type # PUBREC /\ now.type # PUBREL
      <4>1. ReplyTo(now) = <<>>
        BY <3>3, SMT DEF ReplyTo
      <4> QED
        BY <4>1
    <3> QED
      BY <3>1, <3>2, <3>3
  <2> QED
    BY <1>3, <2>1, <2>2, Zenon
<1> QED
  BY <1>1, <1>3, <1>4, Hears, Zenon

\* One step for each action.
LEMMA StepReplies == ReplyInv /\ [Next]_vars => ReplyInv'
<1> SUFFICES ASSUME ReplyInv, [Next]_vars PROVE ReplyInv'
  OBVIOUS
<1>1. ASSUME UNCHANGED <<heard, replies>>, at' = "data" => current'.type = PUBLISH
      PROVE  ReplyInv'
  BY <1>1 DEF ReplyInv, RepliesMatch
<1>2. ASSUME AbortConnection
      PROVE  ReplyInv'
  <2>1. heard' = <<>> /\ replies' = <<>> /\ at' = "idle"
    BY <1>2 DEF AbortConnection
  <2>2. <<>> \in Seq({0})
    OBVIOUS
  <2>3. RepliesMatch'
    <3>1. [i \in DOMAIN <<>> |-> ExpectedReply(<<>>[i])] = <<>>
      OBVIOUS
    <3>2. FlattenSeq(<<>>) = <<>>
      BY DEF FlattenSeq
    <3> QED
      BY <2>1, <3>1, <3>2 DEF RepliesMatch
  <2> QED
    BY <2>1, <2>2, <2>3 DEF ReplyInv
<1>3. CASE Breaks \/ ReadFirstInvalid \/ Refuse \/ PublishWithoutTopic
  BY <1>2, <1>3 DEF Breaks, ReadFirstInvalid, Refuse, PublishWithoutTopic
<1>4. CASE Connect \/ \E m \in Messages : BrokerSends(m)
  BY <1>1, <1>4 DEF Connect, BrokerSends, ReplyInv
<1>5. CASE Reads
  BY <1>1, <1>5, ReadsChange
<1>6. CASE ProcessConnAck
  BY <1>1, <1>2, <1>6 DEF ProcessConnAck
<1>7. CASE ProcessPublish
  <2> DEFINE left0 == MessageLength - Len(in)
             data0 == mqtt_get_publish_data(in)
             now == [type |-> PUBLISH, qos |-> mqtt_get_qos(in),
                     id |-> mqtt_get_id(in, MessageLength),
                     topic |-> mqtt_get_publish_topic(in), data |-> data0,
                     total |-> Len(data0) + left0]
  <2>1. now.type = PUBLISH
    BY Zenon
  <2>2. \/ current' = now /\ UNCHANGED <<heard, replies>>
        \/ Answer(now)
    BY <1>7, Zenon DEF ProcessPublish
  <2> HIDE DEF now
  <2>3. CASE current' = now /\ UNCHANGED <<heard, replies>>
    BY <1>1, <2>1, <2>3
  <2>4. CASE Answer(now)
    BY <2>1, <2>4, AnswerIs
  <2> QED
    BY <2>2, <2>3, <2>4
<1>8. CASE ReadData
  <2>1. at = "data" /\ current.type = PUBLISH
    BY <1>8 DEF ReadData, ReplyInv
  <2>2. PICK m : m.type = PUBLISH /\ (Answer(m) \/ (current' = m /\ UNCHANGED <<heard, replies>>))
    BY <1>8, <2>1, Zenon DEF ReadData, WithData
  <2>3. CASE Answer(m)
    BY <2>2, <2>3, AnswerIs
  <2>4. CASE current' = m /\ UNCHANGED <<heard, replies>>
    BY <1>1, <2>2, <2>4
  <2> QED
    BY <2>2, <2>3, <2>4
<1>9. CASE DataTimesOut
  <2>1. at = "data" /\ Answer(current)
    BY <1>9 DEF DataTimesOut
  <2>2. PICK m : m = current
    OBVIOUS
  <2>3. m.type = PUBLISH /\ Answer(m)
    BY <2>1, <2>2 DEF ReplyInv
  <2> QED
    BY <2>3, AnswerIs
<1>10. CASE ProcessOther
  BY <1>10, OtherReplies
<1>11. CASE UNCHANGED vars
  BY <1>1, <1>11 DEF vars, ReplyInv
<1>12. Network \/ Receive \/ UNCHANGED vars
  BY DEF Next
<1> QED
  BY <1>3, <1>4, <1>5, <1>6, <1>7, <1>8, <1>9, <1>10, <1>11, <1>12, Zenon
     DEF Network, Receive, Reads

\* For every set of messages, also those on which the client loses the boundaries, and
\* in every order of the steps: what mqtt_process_receive writes is the answer to each
\* message it has processed, in order, once, with the identifier it was read with
\* (mqtt_client.c:1656).
THEOREM AnswersWhatIsHeard == Spec => []RepliesMatch
<1>1. Init => ReplyInv
  <2> SUFFICES ASSUME Init PROVE ReplyInv
    OBVIOUS
  <2>1. heard = <<>> /\ replies = <<>> /\ at = "idle"
    BY DEF Init
  <2>2. <<>> \in Seq({0})
    OBVIOUS
  <2>3. RepliesMatch
    <3>1. [i \in DOMAIN <<>> |-> ExpectedReply(<<>>[i])] = <<>>
      OBVIOUS
    <3>2. FlattenSeq(<<>>) = <<>>
      BY DEF FlattenSeq
    <3> QED
      BY <2>1, <3>1, <3>2 DEF RepliesMatch
  <2> QED
    BY <2>1, <2>2, <2>3 DEF ReplyInv
<1>2. ReplyInv => RepliesMatch
  BY DEF ReplyInv
<1> QED
  BY <1>1, <1>2, StepReplies, PTL DEF Spec

=============================================================================
