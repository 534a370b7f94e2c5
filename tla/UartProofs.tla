----------------------------- MODULE UartProofs -----------------------------
(***************************************************************************)
(* Theorems about UartProtocol, for any commands, any disturbances and any *)
(* size of the ring buffer.                                                *)
(***************************************************************************)
EXTENDS UartProtocol, SequenceTheorems, TLAPS

---------------------------------------------------------------------------
\* The inductive invariant.

\* The byte read j bytes before the last one.
Back(bytes, j) == bytes[Len(bytes) - j]

\* Inside a frame, no delimiter follows the '$', and the last bytes read are
\* those of the frame.
FrameOpen ==
    /\ frame[1] = Dollar
    /\ \A i \in 2..Len(frame) : frame[i] \notin {Dollar, Newline}
    /\ Len(window) < FRAME_LEN_W => Len(frame) <= Len(window)
    /\ \A j \in 0..(Len(frame) - 1) :
          j < Len(window) => Back(window, j) = Back(frame, j)

\* Outside, every '$' among the last bytes was followed by a '\n'.
FrameClosed ==
    \A i \in 0..(Len(window) - 1) :
        Back(window, i) = Dollar =>
            \E j \in 0..(i - 1) : Back(window, j) = Newline

UartInv ==
    /\ UartTypeOK
    /\ at = "publish" => in_frame /\ Checked(frame)
    /\ IF at = "read" /\ in_frame THEN FrameOpen ELSE FrameClosed

---------------------------------------------------------------------------
\* The bytes on the line.

\* One step of the sum, and what the sum of a frame's three or four bytes is.
LEMMA SumStep ==
    ASSUME NEW x \in Byte, NEW b \in Byte
    PROVE  (x + b) % 256 \in Byte
BY DEF Byte

LEMMA ChecksumType ==
    ASSUME NEW body \in Seq(Byte), Len(body) \in {3, 4}
    PROVE  CalculateChecksum(body) \in Byte
<1>1. \A i \in 1..Len(body) : body[i] \in Int
  <2>1. \A i \in 1..Len(body) : body[i] \in Byte
    OBVIOUS
  <2>2. \A b \in Byte : b \in Int
    BY DEF Byte
  <2>3. QED
    BY <2>1, <2>2
<1> DEFINE Meets(g) ==
               g = [i \in 0..Len(body) |->
                       IF i = 0 THEN 0 ELSE (g[i - 1] + body[i]) % 256]
           one == body[1] % 256
           two == (one + body[2]) % 256
           three == (two + body[3]) % 256
           four == (three + body[4]) % 256
           f == [i \in 0..Len(body) |->
                    IF i = 0 THEN 0 ELSE IF i = 1 THEN one ELSE
                    IF i = 2 THEN two ELSE IF i = 3 THEN three ELSE four]
           sum == CHOOSE g : Meets(g)
<1>2. Meets(f)
  <2>1. f[0] = 0 /\ f[1] = one /\ f[2] = two /\ f[3] = three
    OBVIOUS
  <2>2. one = (0 + body[1]) % 256
    BY <1>1
  <2> HIDE DEF one, two, three, four
  <2>3. ASSUME NEW i \in 0..Len(body)
        PROVE  f[i] = IF i = 0 THEN 0 ELSE (f[i - 1] + body[i]) % 256
    <3>1. CASE i = 0
      BY <3>1
    <3>2. CASE i = 1
      BY <3>2, <2>1, <2>2
    <3>3. CASE i = 2
      BY <3>3, <2>1 DEF two
    <3>4. CASE i = 3
      BY <3>4, <2>1 DEF three
    <3>5. CASE i = 4
      BY <3>5, <2>1 DEF four
    <3>6. QED
      BY <3>1, <3>2, <3>3, <3>4, <3>5
  <2> HIDE DEF f
  <2>4. f = [i \in 0..Len(body) |-> f[i]]
    BY DEF f
  <2>5. QED
    BY <2>3, <2>4
<1>3. Meets(sum)
  <2> HIDE DEF Meets, f
  <2>1. QED
    BY <1>2
<1>4. CalculateChecksum(body) = sum[Len(body)]
  BY DEF CalculateChecksum
<1>5. \A i \in 0..Len(body) :
         sum[i] = IF i = 0 THEN 0 ELSE (sum[i - 1] + body[i]) % 256
  <2> HIDE DEF sum
  <2>1. QED
    BY <1>3
<1> HIDE DEF sum, Meets, f, one, two, three, four
<1>6. sum[0] \in Byte
  <2>1. sum[0] = 0
    BY <1>5
  <2>2. QED
    BY <2>1 DEF Byte
<1>7. ASSUME NEW i \in 0..(Len(body) - 1), sum[i] \in Byte
      PROVE  sum[i + 1] \in Byte
  <2>1. sum[i + 1] = (sum[i] + body[i + 1]) % 256
    BY <1>5
  <2>2. body[i + 1] \in Byte
    OBVIOUS
  <2>3. QED
    BY <1>7, <2>1, <2>2, SumStep, SMTT(20)
<1>8. sum[1] \in Byte
  BY <1>6, <1>7, SMTT(20)
<1>9. sum[2] \in Byte
  BY <1>7, <1>8
<1>10. sum[3] \in Byte
  <2>1. 2 \in 0..(Len(body) - 1)
    <3>1. CASE Len(body) = 3
      BY <3>1
    <3>2. CASE Len(body) = 4
      BY <3>2
    <3> QED
      BY <3>1, <3>2
  <2>2. sum[2 + 1] \in Byte
    BY <1>7, <1>9, <2>1, Zenon
  <2>3. QED
    BY <2>2
<1>11. Len(body) = 4 => sum[4] \in Byte
  BY <1>7, <1>10
<1>12. QED
  BY <1>4, <1>10, <1>11

LEMMA EncodeType ==
    ASSUME NEW command \in Commands
    PROVE  Encode(command) \in Seq(Byte)
<1> DEFINE body == <<MY_SLAVE_ID, command.cmd, command.addr>> \o
                       (IF command.cmd = WriteCmd THEN <<command.data>> ELSE <<>>)
<1>1. command \in CommandType
  BY UartAssumption
<1>2. MY_SLAVE_ID \in Byte /\ command.cmd \in Byte /\ command.addr \in Byte
  BY <1>1 DEF CommandType, Byte, WriteCmd, ReadCmd, MY_SLAVE_ID
<1>3. command.cmd = WriteCmd => command.data \in Byte
  BY <1>1 DEF CommandType, WriteCmd, ReadCmd
<1>4. body \in Seq(Byte) /\ Len(body) \in {3, 4}
  BY <1>2, <1>3
<1>5. CalculateChecksum(body) \in Byte
  BY <1>4, ChecksumType
<1> HIDE DEF body
<1>6. QED
  BY <1>4, <1>5 DEF Encode, body, Byte, Dollar, Newline

---------------------------------------------------------------------------
\* The last bytes read.

LEMMA Lengths ==
    ASSUME UartTypeOK
    PROVE  /\ window \in Seq(Byte) /\ Len(window) \in Nat /\ Len(window) <= 7
           /\ frame \in Seq(Byte) /\ Len(frame) \in Nat /\ Len(frame) <= 16
<1>1. window \in Seq(Byte) /\ Len(window) <= 7
  BY DEF UartTypeOK, FRAME_LEN_W
<1>2. frame \in Seq(Byte) /\ Len(frame) <= 16
  BY DEF UartTypeOK, PROTOCOL_BUFFER_SIZE
<1>3. Len(window) \in Nat /\ Len(frame) \in Nat
  BY <1>1, <1>2, LenProperties
<1>4. QED
  BY <1>1, <1>2, <1>3

\* What a read does: the byte goes from the ring buffer into the window, and
\* the bytes before it move back by one.
LEMMA ReadsByte ==
    ASSUME UartTypeOK, Reads
    PROVE  /\ byte \in Byte
           /\ rxBuffer' \in Seq(Byte) /\ Len(rxBuffer') <= RxBufferSize
           /\ window' \in Seq(Byte)
           /\ Len(window') = IF Len(window) < FRAME_LEN_W THEN Len(window) + 1
                             ELSE FRAME_LEN_W
           /\ Back(window', 0) = byte
           /\ \A j \in 1..(Len(window') - 1) :
                 Back(window', j) = Back(window, j - 1)
<1>1. rxBuffer \in Seq(Byte) /\ rxBuffer # <<>> /\ Len(rxBuffer) <= RxBufferSize
  BY DEF UartTypeOK, Reads
<1>2. byte \in Byte /\ rxBuffer' = Tail(rxBuffer)
  BY <1>1 DEF Reads, byte
<1>3. rxBuffer' \in Seq(Byte) /\ Len(rxBuffer') = Len(rxBuffer) - 1
  BY <1>1, <1>2, HeadTailProperties
<1>4. Len(rxBuffer') <= RxBufferSize
  BY <1>1, <1>3, UartAssumption
<1>5. window \in Seq(Byte) /\ Len(window) \in Nat /\ Len(window) <= 7
  BY Lengths
<1> HIDE DEF byte
<1>6. CASE Len(window) < FRAME_LEN_W
  <2>1. window' = Append(window, byte)
    BY <1>6 DEF Reads
  <2>2. /\ window' \in Seq(Byte) /\ Len(window') = Len(window) + 1
        /\ \A i \in 1..Len(window) : window'[i] = window[i]
        /\ window'[Len(window) + 1] = byte
    BY <1>2, <1>5, <2>1, AppendProperties
  <2>3. QED
    BY <1>2, <1>3, <1>4, <1>5, <1>6, <2>2 DEF Back, FRAME_LEN_W
<1>7. CASE ~(Len(window) < FRAME_LEN_W)
  <2>1. window # <<>>
    BY <1>7 DEF FRAME_LEN_W
  <2>2. window' = Append(Tail(window), byte)
    BY <1>7 DEF Reads
  <2>3. /\ Tail(window) \in Seq(Byte)
        /\ Len(Tail(window)) = Len(window) - 1
        /\ \A i \in 1..Len(Tail(window)) : Tail(window)[i] = window[i + 1]
    BY <1>5, <2>1, HeadTailProperties
  <2>4. /\ window' \in Seq(Byte) /\ Len(window') = Len(Tail(window)) + 1
        /\ \A i \in 1..Len(Tail(window)) : window'[i] = Tail(window)[i]
        /\ window'[Len(Tail(window)) + 1] = byte
    BY <1>2, <2>2, <2>3, AppendProperties
  <2>5. /\ Len(window') = Len(window) /\ window'[Len(window)] = byte
        /\ \A i \in 1..(Len(window) - 1) : window'[i] = window[i + 1]
    BY <1>5, <2>3, <2>4
  <2>6. Back(window', 0) = byte
    BY <1>5, <2>5 DEF Back
  <2>7. \A j \in 1..(Len(window') - 1) : Back(window', j) = Back(window, j - 1)
    BY <1>5, <2>5 DEF Back
  <2>8. Len(window') = IF Len(window) < FRAME_LEN_W THEN Len(window) + 1
                       ELSE FRAME_LEN_W
    <3>1. PICK n \in Nat : n = Len(window)
      BY <1>5
    <3>2. QED
      BY <1>5, <1>7, <2>5, <3>1 DEF FRAME_LEN_W
  <2>9. QED
    BY <1>2, <1>3, <1>4, <2>4, <2>6, <2>7, <2>8
<1>8. QED
  BY <1>6, <1>7

LEMMA WindowGrows ==
    ASSUME UartTypeOK, Reads
    PROVE  /\ Len(window) \in Nat /\ Len(window') \in Nat
           /\ Len(window') <= Len(window) + 1
<1>1. /\ window' \in Seq(Byte)
      /\ Len(window') = IF Len(window) < FRAME_LEN_W THEN Len(window) + 1
                        ELSE FRAME_LEN_W
  BY ReadsByte
<1>2. Len(window) \in Nat /\ Len(window) <= 7
  BY Lengths
<1>3. Len(window') <= Len(window) + 1
  BY <1>1, <1>2 DEF FRAME_LEN_W
<1>4. QED
  BY <1>1, <1>2, <1>3, LenProperties

LEMMA BackOfAppend ==
    ASSUME NEW bytes \in Seq(Byte), NEW b \in Byte
    PROVE  /\ Append(bytes, b) \in Seq(Byte)
           /\ Len(Append(bytes, b)) = Len(bytes) + 1
           /\ Back(Append(bytes, b), 0) = b
           /\ \A j \in 1..Len(bytes) :
                 Back(Append(bytes, b), j) = Back(bytes, j - 1)
<1>1. /\ Append(bytes, b) \in Seq(Byte)
      /\ Len(Append(bytes, b)) = Len(bytes) + 1
      /\ \A i \in 1..Len(bytes) : Append(bytes, b)[i] = bytes[i]
      /\ Append(bytes, b)[Len(bytes) + 1] = b
  BY AppendProperties
<1>2. Len(bytes) \in Nat
  OBVIOUS
<1>3. QED
  BY <1>1, <1>2 DEF Back

---------------------------------------------------------------------------
\* Types.

LEMMA CommandIsTyped ==
    ASSUME NEW buffer \in Seq(Byte), Checked(buffer)
    PROVE  Command(buffer) \in CommandType
<1>1. Len(buffer) >= 6
  BY DEF Checked, FRAME_LEN_R
<1>2. buffer[4] \in Byte /\ buffer[5] \in Byte
  BY <1>1
<1>3. buffer[3] = WriteCmd \/ buffer[3] = ReadCmd
  BY DEF Checked
<1>4. QED
  BY <1>2, <1>3 DEF Command, CommandType, WriteCmd, ReadCmd

LEMMA TypesStep ==
    ASSUME UartInv, [Next]_vars
    PROVE  UartTypeOK'
<1> USE DEF UartInv
<1>1. CASE UNCHANGED vars
  BY <1>1 DEF UartTypeOK, vars, lineVars, parserVars
<1>2. ASSUME NEW command \in Commands, MasterSends(command) PROVE UartTypeOK'
  BY <1>2, EncodeType DEF UartTypeOK, MasterSends, parserVars
<1>3. CASE ByteArrives
  <2>1. Head(onLine) \in Byte /\ Tail(onLine) \in Seq(Byte)
    <3>1. onLine \in Seq(Byte)
      BY DEF UartTypeOK
    <3>2. onLine # <<>>
      BY <1>3 DEF ByteArrives
    <3> QED
      BY <3>1, <3>2, SMTT(20)
  <2>2. rxBuffer' \in Seq(Byte) /\ Len(rxBuffer') <= RxBufferSize
    <3>1. rxBuffer \in Seq(Byte) /\ Len(rxBuffer) <= RxBufferSize
      BY SMTT(20) DEF UartTypeOK
    <3>2. RxBufferSize \in Nat
      BY UartAssumption
    <3>3. \/ Len(rxBuffer) < RxBufferSize /\ rxBuffer' = Append(rxBuffer, Head(onLine))
          \/ rxBuffer' = rxBuffer
      BY <1>3 DEF ByteArrives
    <3>4. QED
      BY <2>1, <3>1, <3>2, <3>3, AppendProperties, SMTT(20)
  <2>3. fresh' \in BOOLEAN
    BY <1>3 DEF ByteArrives, UartTypeOK
  <2>4. QED
    BY <1>3, <2>1, <2>2, <2>3 DEF ByteArrives, UartTypeOK, parserVars
<1>4. CASE Disturbance
  <2>1. PICK burst \in Bursts :
            onLine' = burst \o onLine \/ (onLine # <<>> /\ onLine' = burst \o Tail(onLine))
    BY <1>4 DEF Disturbance
  <2>2. burst \in Seq(Byte)
    BY UartAssumption
  <2>3. onLine \in Seq(Byte)
    BY DEF UartTypeOK
  <2>4. onLine # <<>> => Tail(onLine) \in Seq(Byte)
    BY <2>3, HeadTailProperties
  <2>5. onLine' \in Seq(Byte)
    BY <2>1, <2>2, <2>3, <2>4, ConcatProperties
  <2>6. QED
    BY <1>4, <2>5 DEF Disturbance, UartTypeOK, parserVars
<1>5. CASE Reads /\ (Restarts \/ Skips \/ Stores \/ Ends \/ Overflows)
  <2>1. /\ byte \in Byte
        /\ rxBuffer' \in Seq(Byte) /\ Len(rxBuffer') <= RxBufferSize
        /\ window' \in Seq(Byte) /\ Len(window') <= FRAME_LEN_W
    <3>1. UartTypeOK /\ Reads /\ Len(window) \in Nat /\ Len(window) <= 7
      BY <1>5, Lengths
    <3>2. Len(window') = IF Len(window) < FRAME_LEN_W THEN Len(window) + 1
                         ELSE FRAME_LEN_W
      BY <3>1, ReadsByte
    <3>3. Len(window') <= FRAME_LEN_W
      BY <3>1, <3>2 DEF FRAME_LEN_W
    <3>4. QED
      BY <3>1, <3>3, ReadsByte
  <2>2. /\ frame' \in Seq(Byte) /\ Len(frame') <= PROTOCOL_BUFFER_SIZE
        /\ in_frame' \in BOOLEAN
        /\ in_frame' <=> frame' # <<>>
        /\ at' \in {"read", "publish"}
    <3> frame \in Seq(Byte) /\ Len(frame) \in Nat /\ Len(frame) <= 16
      BY Lengths
    <3> in_frame \in BOOLEAN /\ (in_frame <=> frame # <<>>) /\ at \in {"read", "publish"}
      BY DEF UartTypeOK
    <3> <<>> \in Seq(Byte) /\ Len(<<>>) = 0
      OBVIOUS
    <3>0. ASSUME frame' = <<>>, in_frame' = FALSE, at' = at
          PROVE  /\ frame' \in Seq(Byte) /\ Len(frame') <= PROTOCOL_BUFFER_SIZE
                 /\ in_frame' \in BOOLEAN
                 /\ in_frame' <=> frame' # <<>>
                 /\ at' \in {"read", "publish"}
      <4>1. <<>> \in Seq(Byte) /\ Len(<<>>) <= PROTOCOL_BUFFER_SIZE
        BY DEF PROTOCOL_BUFFER_SIZE
      <4>2. frame' \in Seq(Byte) /\ Len(frame') <= PROTOCOL_BUFFER_SIZE
        BY <3>0, <4>1, Zenon
      <4>3. in_frame' <=> frame' # <<>>
        BY <3>0, Zenon
      <4>4. in_frame' \in BOOLEAN /\ at' \in {"read", "publish"}
        BY <3>0, Zenon
      <4>5. QED
        BY <4>2, <4>3, <4>4, Zenon
    <3>1. CASE Restarts
      <4>1. <<Dollar>> \in Seq(Byte) /\ Len(<<Dollar>>) = 1 /\ <<Dollar>> # <<>>
        BY DEF Byte, Dollar
      <4>2. QED
        BY <3>1, <4>1 DEF Restarts, PROTOCOL_BUFFER_SIZE
    <3>2. CASE Skips
      BY <3>2 DEF Skips, PROTOCOL_BUFFER_SIZE
    <3>3. CASE Stores
      <4>1. /\ Append(frame, byte) \in Seq(Byte)
            /\ Len(Append(frame, byte)) = Len(frame) + 1
            /\ Append(frame, byte) # <<>>
        BY <2>1, AppendProperties
      <4>2. QED
        BY <3>3, <4>1 DEF Stores, PROTOCOL_BUFFER_SIZE
    <3>4. CASE Ends
      <4>1. Newline \in Byte
        BY DEF Newline, Byte
      <4>2. /\ Append(frame, Newline) \in Seq(Byte)
            /\ Len(Append(frame, Newline)) = Len(frame) + 1
            /\ Append(frame, Newline) # <<>>
        BY <4>1, AppendProperties
      <4>3. \/ /\ at' = "publish" /\ frame' = Append(frame, Newline)
               /\ in_frame' = in_frame
            \/ at' = at /\ frame' = <<>> /\ in_frame' = FALSE
        BY <3>4 DEF Ends
      <4>4. Len(frame) + 1 <= PROTOCOL_BUFFER_SIZE /\ in_frame
        BY <3>4 DEF Ends, PROTOCOL_BUFFER_SIZE
      <4>5. CASE at' = "publish" /\ frame' = Append(frame, Newline) /\ in_frame' = in_frame
        BY <4>2, <4>4, <4>5
      <4>6. CASE at' = at /\ frame' = <<>> /\ in_frame' = FALSE
        BY <3>0, <4>6
      <4>7. QED
        BY <4>3, <4>5, <4>6, Zenon
    <3>5. CASE Overflows
      BY <3>0, <3>5 DEF Overflows
    <3>6. QED
      BY <1>5, <3>1, <3>2, <3>3, <3>4, <3>5, Zenon
  <2>3. UNCHANGED <<onLine, fresh, g_device_registers, published>>
    BY <1>5 DEF Reads, lineVars
  <2>4. QED
    BY <2>1, <2>2, <2>3 DEF UartTypeOK
<1>6. CASE Publishes
  <2>1. Command(frame) \in CommandType
    BY <1>6, CommandIsTyped DEF Publishes, UartTypeOK
  <2>2. Command(frame).cmd = WriteCmd => Command(frame).data \in Byte
    BY <2>1 DEF CommandType, WriteCmd, ReadCmd
  <2>3. g_device_registers' \in [0..15 -> Byte]
    BY <1>6, <2>2 DEF Publishes, UartTypeOK
  <2>4. published' \in Seq(CommandType)
    <3>1. published \in Seq(CommandType)
      BY DEF UartTypeOK
    <3>2. published' = published \/ published' = Append(published, Command(frame))
      BY <1>6 DEF Publishes
    <3>3. QED
      BY <2>1, <3>1, <3>2, AppendProperties
  <2>5. QED
    <3>1. <<>> \in Seq(Byte) /\ Len(<<>>) <= PROTOCOL_BUFFER_SIZE
      BY DEF PROTOCOL_BUFFER_SIZE
    <3>2. UNCHANGED <<onLine, rxBuffer, window>> /\ fresh' \in BOOLEAN
      BY <1>6 DEF Publishes, UartTypeOK
    <3>3. at' = "read" /\ in_frame' = FALSE /\ frame' = <<>>
      BY <1>6 DEF Publishes
    <3>4. QED
      BY <2>3, <2>4, <3>1, <3>2, <3>3 DEF UartTypeOK
<1>7. QED
  BY <1>1, <1>2, <1>3, <1>4, <1>5, <1>6
     DEF Next, RxTask, Restarts, Skips, Stores, Ends, Overflows

---------------------------------------------------------------------------
\* The frame and the last bytes.

\* A '\n' closes whatever was open.
LEMMA NewlineCloses ==
    ASSUME UartTypeOK, Reads, byte = Newline
    PROVE  FrameClosed'
<1> HIDE DEF byte, Back
<1>1. /\ Back(window', 0) = byte
      /\ window' \in Seq(Byte)
  BY ReadsByte
<1>2. Len(window') \in Nat
  BY <1>1, LenProperties
<1>3. ASSUME NEW i \in 0..(Len(window') - 1), Back(window', i) = Dollar
      PROVE  \E j \in 0..(i - 1) : Back(window', j) = Newline
  <2>1. i # 0
    BY <1>1, <1>3 DEF Dollar, Newline
  <2>2. 0 \in 0..(i - 1)
    BY <1>2, <2>1
  <2>3. QED
    BY <1>1, <2>2
<1>4. QED
  BY <1>3 DEF FrameClosed, Back

\* Outside a frame, a byte other than '$' opens none.
LEMMA StaysClosed ==
    ASSUME UartTypeOK, Reads, byte # Dollar, FrameClosed
    PROVE  FrameClosed'
<1> HIDE DEF byte
<1>1. /\ Back(window', 0) = byte
      /\ window' \in Seq(Byte)
      /\ \A j \in 1..(Len(window') - 1) : Back(window', j) = Back(window, j - 1)
  BY ReadsByte
<1>2. Len(window') \in Nat /\ Len(window) \in Nat /\ Len(window') <= Len(window) + 1
  BY WindowGrows
<1>3. \A i \in 0..(Len(window) - 1) :
         Back(window, i) = Dollar => \E j \in 0..(i - 1) : Back(window, j) = Newline
  BY DEF FrameClosed
<1> HIDE DEF Back
<1>4. ASSUME NEW i \in 0..(Len(window') - 1), Back(window', i) = Dollar
      PROVE  \E j \in 0..(i - 1) : Back(window', j) = Newline
  <2>1. i # 0
    BY <1>1, <1>4
  <2>2. i - 1 \in 0..(Len(window) - 1) /\ Back(window, i - 1) = Dollar
    BY <1>1, <1>2, <1>4, <2>1
  <2>3. PICK j \in 0..(i - 1 - 1) : Back(window, j) = Newline
    BY <1>3, <2>2
  <2>4. j + 1 \in 1..(Len(window') - 1) /\ (j + 1) - 1 = j /\ j + 1 \in 0..(i - 1)
    BY <1>2, <2>1, <2>3
  <2>5. Back(window', j + 1) = Newline
    BY <1>1, <2>3, <2>4
  <2>6. QED
    BY <2>4, <2>5
<1>5. QED
  BY <1>4 DEF FrameClosed, Back

\* A '$' opens a frame, whatever came before.
LEMMA DollarOpens ==
    ASSUME UartTypeOK, Restarts
    PROVE  FrameOpen'
<1>1. /\ Back(window', 0) = Dollar
      /\ frame' = <<Dollar>>
  BY ReadsByte DEF Restarts
<1>2. /\ Len(frame') = 1 /\ frame'[1] = Dollar
      /\ Back(frame', 0) = Dollar
  BY <1>1 DEF Back
<1>3. Len(window') = (IF Len(window) < FRAME_LEN_W THEN Len(window) + 1 ELSE FRAME_LEN_W)
  BY ReadsByte DEF Restarts
<1>4. Len(frame') <= Len(window')
  BY <1>2, <1>3, Lengths DEF FRAME_LEN_W
<1> HIDE DEF Back
<1>5. \A i \in 2..Len(frame') : frame'[i] \notin {Dollar, Newline}
  BY <1>2
<1>6. \A j \in 0..(Len(frame') - 1) :
          j < Len(window') => Back(window', j) = Back(frame', j)
  BY <1>1, <1>2
<1>7. QED
  BY <1>2, <1>4, <1>5, <1>6 DEF FrameOpen, Back

\* A byte of the frame is the last byte read, and the others move back with
\* those of the window.
LEMMA StaysOpen ==
    ASSUME UartTypeOK, Stores, FrameOpen
    PROVE  FrameOpen'
<1> DEFINE w == Len(window)
           f == Len(frame)
<1>1. /\ UartTypeOK /\ Reads /\ byte \notin {Dollar, Newline}
      /\ frame' = Append(frame, byte) /\ in_frame
  BY DEF Stores
<1> HIDE DEF byte
<1>2. w \in Nat /\ w <= 7 /\ f \in Nat /\ frame \in Seq(Byte) /\ byte \in Byte
  BY <1>1, Lengths, ReadsByte
<1>3. frame # <<>>
  BY <1>1 DEF UartTypeOK
<1>4. f >= 1
  BY <1>2, <1>3, EmptySeq
<1>5. /\ Len(frame') = f + 1 /\ Back(frame', 0) = byte
      /\ \A j \in 1..f : Back(frame', j) = Back(frame, j - 1)
  BY <1>1, <1>2, BackOfAppend
<1>6. \A i \in 1..f : frame'[i] = frame[i]
  BY <1>1, <1>2, AppendProperties
<1>7. frame'[f + 1] = byte
  BY <1>1, <1>2, AppendProperties
<1>8. /\ Len(window') = (IF w < FRAME_LEN_W THEN w + 1 ELSE FRAME_LEN_W)
      /\ Back(window', 0) = byte
      /\ \A j \in 1..(Len(window') - 1) : Back(window', j) = Back(window, j - 1)
  BY <1>1, ReadsByte
<1>9. /\ frame[1] = Dollar
      /\ \A i \in 2..f : frame[i] \notin {Dollar, Newline}
      /\ w < FRAME_LEN_W => f <= w
      /\ \A j \in 0..(f - 1) : j < w => Back(window, j) = Back(frame, j)
  BY DEF FrameOpen
<1> HIDE DEF Back, w, f
<1>10. frame'[1] = Dollar
  BY <1>2, <1>4, <1>6, <1>9
<1>11. \A i \in 2..Len(frame') : frame'[i] \notin {Dollar, Newline}
  <2>1. ASSUME NEW i \in 2..Len(frame') PROVE frame'[i] \notin {Dollar, Newline}
    <3>1. CASE i = f + 1
      BY <1>1, <1>7, <3>1
    <3>2. CASE i # f + 1
      BY <1>2, <1>5, <1>6, <1>9, <2>1, <3>2
    <3>3. QED
      BY <3>1, <3>2
  <2>2. QED
    BY <2>1
<1>12. Len(window') < FRAME_LEN_W => Len(frame') <= Len(window')
  <2>1. CASE w < FRAME_LEN_W
    <3>1. f <= w /\ Len(window') = w + 1
      BY <1>8, <1>9, <2>1
    <3>2. QED
      BY <1>2, <1>5, <3>1
  <2>2. CASE ~(w < FRAME_LEN_W)
    BY <1>8, <2>2 DEF FRAME_LEN_W
  <2>3. QED
    BY <2>1, <2>2
<1>13. Len(window') \in Nat /\ Len(window') <= w + 1
  BY <1>2, <1>8 DEF FRAME_LEN_W
<1>14. ASSUME NEW j \in 0..(Len(frame') - 1), j < Len(window')
       PROVE  Back(window', j) = Back(frame', j)
  <2>1. CASE j = 0
    BY <1>5, <1>8, <2>1
  <2>2. CASE j # 0
    <3>1. j \in 1..f /\ j \in 1..(Len(window') - 1)
      BY <1>2, <1>5, <1>13, <1>14, <2>2
    <3>2. j - 1 \in 0..(f - 1) /\ j - 1 < w
      BY <1>2, <1>13, <3>1
    <3>3. Back(window, j - 1) = Back(frame, j - 1)
      BY <1>9, <3>2
    <3>4. QED
      BY <1>5, <1>8, <3>1, <3>3
  <2>3. QED
    BY <2>1, <2>2
<1>15. QED
  BY <1>10, <1>11, <1>12, <1>14 DEF FrameOpen, Back

\* A frame that fills the buffer is longer than the window, and its '$' is no
\* longer in it.
LEMMA OverlongIsClosed ==
    ASSUME UartTypeOK, FrameOpen, Len(frame) = PROTOCOL_BUFFER_SIZE
    PROVE  FrameClosed
<1>1. /\ Len(window) \in Nat /\ Len(window) <= 7
      /\ Len(frame) \in Nat /\ Len(frame) >= 16 /\ Len(frame) <= 16
  BY Lengths DEF PROTOCOL_BUFFER_SIZE
<1>2. ASSUME NEW i \in 0..(Len(window) - 1) PROVE Back(window, i) # Dollar
  <2>1. i \in 0..(Len(frame) - 1) /\ i < Len(window)
    BY <1>1, <1>2
  <2>2. Back(window, i) = Back(frame, i)
    BY <2>1 DEF FrameOpen
  <2>3. Len(frame) - i \in 2..Len(frame)
    BY <1>1, <1>2
  <2>4. frame[Len(frame) - i] \notin {Dollar, Newline}
    BY <2>3 DEF FrameOpen
  <2>5. QED
    BY <2>2, <2>4 DEF Back
<1>3. QED
  BY <1>2 DEF FrameClosed

LEMMA FramesStep ==
    ASSUME UartInv, [Next]_vars
    PROVE  /\ at' = "publish" => in_frame' /\ Checked(frame')
           /\ IF at' = "read" /\ in_frame' THEN FrameOpen' ELSE FrameClosed'
<1> DEFINE Goal == /\ at' = "publish" => in_frame' /\ Checked(frame')
                   /\ IF at' = "read" /\ in_frame' THEN FrameOpen' ELSE FrameClosed'
<1>1. /\ UartTypeOK
      /\ at = "publish" => in_frame /\ Checked(frame)
      /\ IF at = "read" /\ in_frame THEN FrameOpen ELSE FrameClosed
  BY DEF UartInv
<1>2. ASSUME UNCHANGED <<at, in_frame, frame, window>> PROVE Goal
  BY <1>1, <1>2 DEF Checked, FrameOpen, FrameClosed, Back
<1>3. CASE UNCHANGED parserVars \/ UNCHANGED vars
  BY <1>2, <1>3 DEF parserVars, vars
<1>4. CASE Restarts
  <2>1. FrameOpen' /\ at' = "read" /\ in_frame'
    BY <1>1, <1>4, DollarOpens DEF Restarts, Reads
  <2>2. QED
    BY <2>1
<1>5. CASE Skips
  <2>1. FrameClosed' /\ at' = "read" /\ ~in_frame'
    BY <1>1, <1>5, StaysClosed DEF Skips, Reads
  <2>2. QED
    BY <2>1
<1>6. CASE Stores
  <2>1. FrameOpen' /\ at' = "read" /\ in_frame'
    BY <1>1, <1>6, StaysOpen DEF Stores, Reads
  <2>2. QED
    BY <2>1
<1>7. CASE Ends
  <2>1. FrameClosed'
    BY <1>1, <1>7, NewlineCloses DEF Ends
  <2>2. \/ at' = "publish" /\ in_frame' /\ Checked(frame')
        \/ at' = "read" /\ ~in_frame'
    BY <1>7 DEF Ends, Reads
  <2>3. QED
    BY <2>1, <2>2
<1>8. CASE Overflows
  <2>1. FrameClosed' /\ at' = "read" /\ ~in_frame'
    BY <1>1, <1>8, OverlongIsClosed, StaysClosed DEF Overflows, Reads
  <2>2. QED
    BY <2>1
<1>9. CASE Publishes
  <2>1. FrameClosed
    BY <1>1, <1>9 DEF Publishes
  <2>2. FrameClosed' /\ at' = "read" /\ ~in_frame'
    BY <1>9, <2>1 DEF Publishes, FrameClosed, Back
  <2>3. QED
    BY <2>2
<1>10. QED
  BY <1>3, <1>4, <1>5, <1>6, <1>7, <1>8, <1>9
     DEF Next, RxTask, MasterSends, ByteArrives, Disturbance

LEMMA UartInvInductive == Spec => []UartInv
<1>1. Init => UartInv
  <2> SUFFICES ASSUME Init PROVE UartInv
    OBVIOUS
  <2>1. UartTypeOK
    <3>1. /\ Len(<<>>) <= RxBufferSize
          /\ Len(<<>>) <= PROTOCOL_BUFFER_SIZE /\ Len(<<>>) <= FRAME_LEN_W
          /\ <<>> \in Seq(Byte) /\ <<>> \in Seq(CommandType)
      BY UartAssumption DEF PROTOCOL_BUFFER_SIZE, FRAME_LEN_W
    <3>2. [addr \in 0..15 |-> 0] \in [0..15 -> Byte]
      BY DEF Byte
    <3>3. QED
      BY <3>1, <3>2 DEF Init, UartTypeOK
  <2>2. QED
    BY <2>1 DEF Init, UartInv, FrameClosed
<1>2. UartInv /\ [Next]_vars => UartInv'
  BY TypesStep, FramesStep DEF UartInv
<1>3. QED
  BY <1>1, <1>2, PTL DEF Spec

\* uart_rx_task keeps its index inside the buffer of PROTOCOL_BUFFER_SIZE
\* bytes, whatever bytes arrive, and the registers hold bytes
\* (protocol.c:98-178, 207-248).
THEOREM UartTypes == Spec => []UartTypeOK
<1>1. UartInv => UartTypeOK
  BY DEF UartInv
<1>2. QED
  BY <1>1, UartInvInductive, PTL

---------------------------------------------------------------------------
\* What the receiver acts on.

LEMMA LastIsBack ==
    ASSUME NEW bytes \in Seq(Byte), NEW n \in Nat, n >= 1, n <= Len(bytes)
    PROVE  /\ Last(bytes, n) \in Seq(Byte)
           /\ Len(Last(bytes, n)) = n
           /\ \A i \in 1..n : Last(bytes, n)[i] = Back(bytes, n - i)
<1> DEFINE m == Len(bytes) - n + 1
<1>1. Len(bytes) \in Nat
  BY LenProperties
<1>2. m \in 1..(Len(bytes) + 1) /\ Len(bytes) \in (m - 1)..Len(bytes)
  BY <1>1
<1>3. m \in Int /\ Len(bytes) \in Int /\ \A i \in m..Len(bytes) : bytes[i] \in Byte
  BY <1>1, <1>2
<1>4. /\ SubSeq(bytes, m, Len(bytes)) \in Seq(Byte)
      /\ Len(SubSeq(bytes, m, Len(bytes))) =
            IF m <= Len(bytes) THEN Len(bytes) - m + 1 ELSE 0
      /\ \A i \in 1..(Len(bytes) - m + 1) :
            SubSeq(bytes, m, Len(bytes))[i] = bytes[m + i - 1]
  BY <1>2, SubSeqProperties
<1>5. Last(bytes, n) = SubSeq(bytes, m, Len(bytes))
  BY DEF Last
<1>6. Len(bytes) - m + 1 = n /\ m <= Len(bytes)
  BY <1>1
<1>7. \A i \in 1..n : Last(bytes, n)[i] = bytes[m + i - 1]
  BY <1>4, <1>5, <1>6
<1>8. \A i \in 1..n : m + i - 1 = Len(bytes) - (n - i)
  BY <1>1
<1> HIDE DEF m
<1>9. QED
  BY <1>4, <1>5, <1>6, <1>7, <1>8 DEF Back

\* A valid frame ends in a '\n', and between its '$' and that there is no
\* delimiter.
LEMMA ValidFrameInWindow ==
    ASSUME NEW bytes \in Seq(Byte), NEW n \in {FRAME_LEN_R, FRAME_LEN_W},
           n <= Len(bytes),
           Last(bytes, n)[1] = Dollar, Last(bytes, n)[n] = Newline,
           \A i \in 2..(n - 1) : Last(bytes, n)[i] \notin {Dollar, Newline}
    PROVE  /\ Back(bytes, 0) = Newline
           /\ Back(bytes, n - 1) = Dollar
           /\ \A j \in 1..(n - 2) : Back(bytes, j) \notin {Dollar, Newline}
<1>1. n \in Nat /\ n >= 6
  BY DEF FRAME_LEN_R, FRAME_LEN_W
<1>2. \A i \in 1..n : Last(bytes, n)[i] = Back(bytes, n - i)
  BY <1>1, LastIsBack
<1> HIDE DEF Back
<1>3. ASSUME NEW j \in 1..(n - 2)
      PROVE  Back(bytes, j) \notin {Dollar, Newline}
  <2>1. n - j \in 2..(n - 1) /\ n - j \in 1..n /\ n - (n - j) = j
    BY <1>1, <1>3
  <2>2. QED
    BY <1>2, <2>1
<1>4. n \in 1..n /\ 1 \in 1..n /\ n - n = 0
  BY <1>1
<1>5. QED
  BY <1>2, <1>3, <1>4

LEMMA ClosedEndsNoFrame ==
    ASSUME UartTypeOK, Reads, FrameClosed
    PROVE  ~EndsValidFrame(window')
<1> SUFFICES ASSUME EndsValidFrame(window') PROVE FALSE
  OBVIOUS
<1>1. /\ window' \in Seq(Byte)
      /\ \A j \in 1..(Len(window') - 1) : Back(window', j) = Back(window, j - 1)
  BY ReadsByte
<1>2. Len(window') \in Nat /\ Len(window) \in Nat /\ Len(window') <= Len(window) + 1
  BY WindowGrows
<1>3. PICK n \in {FRAME_LEN_R, FRAME_LEN_W} :
          /\ n <= Len(window')
          /\ Back(window', n - 1) = Dollar
          /\ \A j \in 1..(n - 2) : Back(window', j) \notin {Dollar, Newline}
  BY <1>1, ValidFrameInWindow DEF EndsValidFrame
<1>4. n \in Nat /\ n >= 6
  BY DEF FRAME_LEN_R, FRAME_LEN_W
<1>5. \A i \in 0..(Len(window) - 1) :
         Back(window, i) = Dollar => \E j \in 0..(i - 1) : Back(window, j) = Newline
  BY DEF FrameClosed
<1> HIDE DEF Back
<1>6. /\ n - 1 \in 1..(Len(window') - 1) /\ (n - 1) - 1 = n - 2
      /\ n - 2 \in 0..(Len(window) - 1)
  BY <1>2, <1>3, <1>4
<1>7. Back(window, n - 2) = Dollar
  BY <1>1, <1>3, <1>6
<1>8. PICK j \in 0..(n - 2 - 1) : Back(window, j) = Newline
  BY <1>5, <1>6, <1>7
<1>9. /\ j + 1 \in 1..(n - 2) /\ j + 1 \in 1..(Len(window') - 1)
      /\ (j + 1) - 1 = j
  BY <1>2, <1>3, <1>4, <1>8
<1>10. Back(window', j + 1) = Newline
  BY <1>1, <1>8, <1>9
<1>11. QED
  BY <1>3, <1>9, <1>10

LEMMA OnlyNewlineEnds ==
    ASSUME UartTypeOK, Reads, byte # Newline
    PROVE  ~EndsValidFrame(window')
<1> HIDE DEF byte
<1>1. window' \in Seq(Byte) /\ Back(window', 0) = byte
  BY ReadsByte
<1>2. ASSUME NEW n \in {FRAME_LEN_R, FRAME_LEN_W}, n <= Len(window'),
             Last(window', n)[n] = Newline
      PROVE  FALSE
  <2>1. n \in Nat /\ n >= 1 /\ n - n = 0 /\ n \in 1..n
    BY DEF FRAME_LEN_R, FRAME_LEN_W
  <2>2. Last(window', n)[n] = Back(window', n - n)
    BY <1>1, <1>2, <2>1, LastIsBack
  <2>3. QED
    BY <1>1, <1>2, <2>1, <2>2
<1>3. QED
  BY <1>2 DEF EndsValidFrame

\* At the '\n', the frame is what the window ends in.
LEMMA FrameIsInWindow ==
    ASSUME UartTypeOK, Reads, in_frame, byte = Newline, FrameOpen,
           Len(frame) + 1 <= Len(window')
    PROVE  Last(window', Len(frame) + 1) = Append(frame, Newline)
<1> DEFINE f == Len(frame)
           n == f + 1
           whole == Append(frame, Newline)
<1> HIDE DEF byte
<1>1. frame \in Seq(Byte) /\ f \in Nat /\ Newline \in Byte
  BY Lengths DEF Newline, Byte
<1>2. /\ window' \in Seq(Byte) /\ Back(window', 0) = Newline
      /\ \A j \in 1..(Len(window') - 1) : Back(window', j) = Back(window, j - 1)
  BY ReadsByte
<1>3. Len(window') \in Nat /\ Len(window) \in Nat /\ Len(window') <= Len(window) + 1
  BY WindowGrows
<1>4. /\ Last(window', n) \in Seq(Byte)
      /\ Len(Last(window', n)) = n
      /\ \A i \in 1..n : Last(window', n)[i] = Back(window', n - i)
  BY <1>1, <1>2, LastIsBack
<1>5. /\ whole \in Seq(Byte) /\ Len(whole) = n
      /\ \A i \in 1..f : whole[i] = frame[i]
      /\ whole[n] = Newline
  BY <1>1, AppendProperties
<1>6. ASSUME NEW i \in 1..n PROVE Last(window', n)[i] = whole[i]
  <2>1. CASE i = n
    BY <1>1, <1>2, <1>4, <1>5, <2>1
  <2>2. CASE i # n
    <3>1. i \in 1..f /\ n - i \in 1..(Len(window') - 1) /\ (n - i) - 1 = f - i
      BY <1>1, <1>3, <1>6, <2>2
    <3>2. f - i \in 0..(f - 1) /\ f - i < Len(window)
      BY <1>1, <1>3, <3>1
    <3>3. Back(window, f - i) = Back(frame, f - i)
      BY <3>2 DEF FrameOpen
    <3>4. Back(frame, f - i) = frame[i]
      BY <1>1, <3>1 DEF Back
    <3>5. Last(window', n)[i] = Back(window, f - i)
      BY <1>2, <1>4, <3>1
    <3>6. QED
      BY <1>5, <3>1, <3>3, <3>4, <3>5
  <2>3. QED
    BY <2>1, <2>2
<1> HIDE DEF whole, n
<1>7. Last(window', n) = whole
  BY <1>4, <1>5, <1>6, SeqEqual
<1>8. QED
  BY <1>7 DEF whole, n

\* process_packet lets through what is a valid frame.
LEMMA CheckedIsValid ==
    ASSUME UartTypeOK, Reads, in_frame, byte = Newline, FrameOpen,
           Checked(Append(frame, Newline))
    PROVE  EndsValidFrame(window')
<1> DEFINE n == Len(frame) + 1
           whole == Append(frame, Newline)
<1> HIDE DEF byte
<1>1. /\ frame \in Seq(Byte) /\ Len(frame) \in Nat /\ Newline \in Byte
      /\ frame # <<>>
  BY Lengths DEF UartTypeOK, Newline, Byte
<1>2. /\ Len(whole) = n /\ whole[n] = Newline
      /\ \A i \in 1..Len(frame) : whole[i] = frame[i]
  BY <1>1, AppendProperties
<1>3. /\ Len(whole) >= FRAME_LEN_R /\ whole[2] = MY_SLAVE_ID
      /\ \/ whole[3] = WriteCmd /\ Len(whole) = FRAME_LEN_W
         \/ whole[3] = ReadCmd /\ Len(whole) = FRAME_LEN_R
      /\ whole[Len(whole) - 1] = CalculateChecksum(SubSeq(whole, 2, Len(whole) - 2))
  BY DEF Checked
<1>4. n \in {FRAME_LEN_R, FRAME_LEN_W}
  BY <1>2, <1>3
<1>5. n <= Len(window')
  <2>1. Len(window') = IF Len(window) < FRAME_LEN_W THEN Len(window) + 1
                       ELSE FRAME_LEN_W
    BY ReadsByte
  <2>2. Len(window) < FRAME_LEN_W => Len(frame) <= Len(window)
    BY DEF FrameOpen
  <2>3. Len(window) \in Nat /\ Len(window) <= 7
    BY Lengths
  <2>4. CASE Len(window) < FRAME_LEN_W
    BY <1>1, <2>1, <2>2, <2>3, <2>4
  <2>5. CASE ~(Len(window) < FRAME_LEN_W)
    BY <1>4, <2>1, <2>5 DEF FRAME_LEN_R, FRAME_LEN_W
  <2>6. QED
    BY <2>4, <2>5
<1>6. Last(window', n) = whole
  BY <1>5, FrameIsInWindow
<1>7. n = FRAME_LEN_W <=> whole[3] = WriteCmd
  BY <1>2, <1>3 DEF FRAME_LEN_R, FRAME_LEN_W, WriteCmd, ReadCmd
<1>8. Len(frame) >= 1
  BY <1>2, <1>3 DEF FRAME_LEN_R
<1>9. whole[1] = Dollar /\ \A i \in 2..(n - 1) : whole[i] \notin {Dollar, Newline}
  BY <1>1, <1>2, <1>8 DEF FrameOpen
<1> HIDE DEF whole, n
<1>10. whole[3] = (IF n = FRAME_LEN_W THEN WriteCmd ELSE ReadCmd)
  BY <1>3, <1>7
<1>11. QED
  BY <1>2, <1>3, <1>4, <1>5, <1>6, <1>9, <1>10 DEF EndsValidFrame

\* A valid frame at the end of the window is the frame in the buffer: its '$'
\* is the one that opened it.
LEMMA ValidIsChecked ==
    ASSUME UartTypeOK, Reads, in_frame, byte = Newline, FrameOpen,
           EndsValidFrame(window')
    PROVE  Checked(Append(frame, Newline))
<1> DEFINE f == Len(frame)
           whole == Append(frame, Newline)
<1> HIDE DEF byte
<1>1. frame \in Seq(Byte) /\ f \in Nat /\ Newline \in Byte /\ frame # <<>>
  BY Lengths DEF UartTypeOK, Newline, Byte
<1>2. f >= 1
  BY <1>1, EmptySeq
<1>3. /\ window' \in Seq(Byte)
      /\ \A j \in 1..(Len(window') - 1) : Back(window', j) = Back(window, j - 1)
  BY ReadsByte
<1>4. Len(window') \in Nat /\ Len(window) \in Nat /\ Len(window') <= Len(window) + 1
  BY WindowGrows
<1>5. PICK n \in {FRAME_LEN_R, FRAME_LEN_W} :
          /\ n <= Len(window')
          /\ LET g == Last(window', n)
             IN /\ g[1] = Dollar
                /\ g[n] = Newline
                /\ \A i \in 2..(n - 1) : g[i] \notin {Dollar, Newline}
                /\ g[2] = MY_SLAVE_ID
                /\ g[3] = IF n = FRAME_LEN_W THEN WriteCmd ELSE ReadCmd
                /\ g[n - 1] = CalculateChecksum(SubSeq(g, 2, n - 2))
  BY DEF EndsValidFrame
<1>6. /\ Back(window', n - 1) = Dollar
      /\ \A j \in 1..(n - 2) : Back(window', j) \notin {Dollar, Newline}
  BY <1>3, <1>5, ValidFrameInWindow
<1>7. n \in Nat /\ n >= 6
  BY DEF FRAME_LEN_R, FRAME_LEN_W
<1>8. ~(f < n - 1)
  <2> SUFFICES ASSUME f < n - 1 PROVE FALSE
    OBVIOUS
  <2>1. /\ f \in 1..(n - 2) /\ f \in 1..(Len(window') - 1)
        /\ f - 1 \in 0..(f - 1) /\ f - 1 < Len(window)
    BY <1>1, <1>2, <1>4, <1>5, <1>7
  <2>2. Back(window', f) = Back(window, f - 1)
    BY <1>3, <2>1
  <2>3. Back(window, f - 1) = Back(frame, f - 1)
    BY <2>1 DEF FrameOpen
  <2>4. Back(frame, f - 1) = frame[1]
    BY <1>1 DEF Back
  <2>5. QED
    BY <1>6, <2>1, <2>2, <2>3, <2>4 DEF FrameOpen
<1>9. ~(f > n - 1)
  <2> SUFFICES ASSUME f > n - 1 PROVE FALSE
    OBVIOUS
  <2>1. /\ n - 1 \in 1..(Len(window') - 1) /\ (n - 1) - 1 = n - 2
        /\ n - 2 \in 0..(f - 1) /\ n - 2 < Len(window)
        /\ f - (n - 2) \in 2..f
    BY <1>1, <1>2, <1>4, <1>5, <1>7
  <2>2. Back(window', n - 1) = Back(window, n - 2)
    BY <1>3, <2>1
  <2>3. Back(window, n - 2) = Back(frame, n - 2)
    BY <2>1 DEF FrameOpen
  <2>4. Back(frame, n - 2) = frame[f - (n - 2)]
    BY DEF Back
  <2>5. frame[f - (n - 2)] # Dollar
    BY <2>1 DEF FrameOpen
  <2>6. QED
    BY <1>6, <2>2, <2>3, <2>4, <2>5
<1>10. n = f + 1
  BY <1>1, <1>7, <1>8, <1>9
<1>11. Last(window', n) = whole
  BY <1>5, <1>10, FrameIsInWindow
<1>12. Len(whole) = n
  BY <1>1, <1>10, AppendProperties
<1> HIDE DEF whole, f
<1>13. /\ whole[2] = MY_SLAVE_ID
       /\ whole[3] = (IF n = FRAME_LEN_W THEN WriteCmd ELSE ReadCmd)
       /\ whole[n - 1] = CalculateChecksum(SubSeq(whole, 2, n - 2))
  BY <1>5, <1>11
<1>14. n >= FRAME_LEN_R /\ (n = FRAME_LEN_R \/ n = FRAME_LEN_W)
  BY DEF FRAME_LEN_R, FRAME_LEN_W
<1>15. Checked(whole)
  BY <1>12, <1>13, <1>14 DEF Checked
<1>16. QED
  BY <1>15 DEF whole

\* Only the task reads.
LEMMA OnlyTheTaskReads ==
    ASSUME UartTypeOK, Reads, [Next]_vars
    PROVE  Restarts \/ Skips \/ Stores \/ Ends \/ Overflows
<1>1. rxBuffer \in Seq(Byte) /\ rxBuffer # <<>> /\ onLine \in Seq(Byte)
  BY DEF UartTypeOK, Reads
<1>2. rxBuffer' # rxBuffer
  <2>1. Len(Tail(rxBuffer)) = Len(rxBuffer) - 1 /\ Len(rxBuffer) \in Nat
    BY <1>1, HeadTailProperties
  <2>2. Len(Tail(rxBuffer)) # Len(rxBuffer)
    BY <2>1
  <2>3. rxBuffer' = Tail(rxBuffer)
    BY DEF Reads
  <2>4. QED
    BY <2>2, <2>3
<1>3. onLine' = onLine
  BY DEF Reads, lineVars
<1>4. ~ByteArrives
  <2> SUFFICES ASSUME ByteArrives PROVE FALSE
    OBVIOUS
  <2>1. onLine # <<>> /\ onLine' = Tail(onLine)
    BY DEF ByteArrives
  <2>2. Len(Tail(onLine)) = Len(onLine) - 1 /\ Len(onLine) \in Nat
    BY <1>1, <2>1, HeadTailProperties
  <2>3. Len(Tail(onLine)) # Len(onLine)
    BY <2>2
  <2>4. QED
    BY <1>3, <2>1, <2>3
<1>5. QED
  BY <1>2, <1>4 DEF Next, RxTask, MasterSends, Disturbance, Publishes, vars

LEMMA Decides ==
    ASSUME UartInv, [Next]_vars, Reads
    PROVE  at' = "publish" <=> EndsValidFrame(window')
<1>1. UartTypeOK /\ at = "read" /\ (in_frame => FrameOpen) /\ (~in_frame => FrameClosed)
  BY DEF UartInv, Reads
<1>2. CASE Restarts
  <2>1. byte # Newline /\ at' = "read"
    BY <1>2 DEF Restarts, Reads, Dollar, Newline
  <2>2. QED
    BY <1>1, <2>1, OnlyNewlineEnds
<1>3. CASE Skips
  <2>1. ~in_frame /\ at' = "read"
    BY <1>3 DEF Skips, Reads
  <2>2. QED
    BY <1>1, <2>1, ClosedEndsNoFrame
<1>4. CASE Stores
  <2>1. byte # Newline /\ at' = "read"
    BY <1>4 DEF Stores, Reads
  <2>2. QED
    BY <1>1, <2>1, OnlyNewlineEnds
<1>5. CASE Ends
  <2>1. at' = "publish" <=> Checked(Append(frame, Newline))
    BY <1>1, <1>5 DEF Ends
  <2>2. in_frame /\ byte = Newline /\ FrameOpen
    BY <1>1, <1>5 DEF Ends
  <2>3. QED
    BY <1>1, <2>1, <2>2, CheckedIsValid, ValidIsChecked
<1>6. CASE Overflows
  <2>1. in_frame /\ Len(frame) = PROTOCOL_BUFFER_SIZE /\ at' = "read"
    BY <1>6 DEF Overflows, Reads
  <2>2. FrameClosed
    BY <1>1, <2>1, OverlongIsClosed
  <2>3. QED
    BY <1>1, <2>1, <2>2, ClosedEndsNoFrame
<1>7. QED
  BY <1>1, <1>2, <1>3, <1>4, <1>5, <1>6, OnlyTheTaskReads

\* The receiver acts on a byte exactly if that byte ends a valid frame,
\* whatever noise, half frames and overlong frames came before: process_packet
\* is entered for it, and for no other byte (protocol.c:98-178, 207-236).
THEOREM FramesDecide == Spec => ActsOnValidFrames
<1>1. UartInv /\ [Next]_vars =>
          [Reads => (at' = "publish" <=> EndsValidFrame(window'))]_vars
  BY Decides
<1>2. QED
  BY <1>1, UartInvInductive, PTL DEF Spec, ActsOnValidFrames

---------------------------------------------------------------------------
\* The link over a perfect line, for commands without delimiters.

\* Nothing disturbs the line, MQTT takes what it is given, and the commands
\* are plain.
PerfectLine ==
    /\ MaxNoise = 0 /\ ~MqttMayFail
    /\ \A command \in Commands : Plain(command)

\* f[k] is what comes after the frames of the first k commands.
Remaining(f, commands) ==
    /\ f \in [0..Len(commands) -> Seq(Byte)]
    /\ f[Len(commands)] = <<>>
    /\ \A k \in 1..Len(commands) : f[k - 1] = Encode(commands[k]) \o f[k]

\* The commands published are the first ones sent; the bytes in the task's
\* buffer, in the ring buffer and on the line are the frames of the others;
\* and a frame is published as soon as it is whole.
LinkInv ==
    /\ sent \in Seq(Commands)
    /\ Len(published) <= Len(sent)
    /\ \A i \in 1..Len(published) : published[i] = sent[i]
    /\ \E f : /\ Remaining(f, sent)
              /\ frame \o (rxBuffer \o onLine) = f[Len(published)]
    /\ in_frame => Len(published) < Len(sent)
    /\ at = "read" /\ in_frame => Len(frame) < Len(Encode(sent[Len(published) + 1]))
    /\ at = "publish" => in_frame /\ frame = Encode(sent[Len(published) + 1])

\* r is s and u one after the other.
Joins(r, s, u) ==
    /\ r \in Seq(Int) /\ Len(r) = Len(s) + Len(u)
    /\ \A i \in 1..Len(s) : r[i] = s[i]
    /\ \A i \in 1..Len(u) : r[Len(s) + i] = u[i]

\* The concatenation of sequences of bytes is one.
LEMMA Joined ==
    ASSUME NEW s \in Seq(Int), NEW u \in Seq(Int)
    PROVE  Joins(s \o u, s, u)
BY DEF Joins

\* What the concatenation holds, and how long it is.
LEMMA JoinedBytes ==
    ASSUME NEW s \in Seq(Byte), NEW u \in Seq(Byte)
    PROVE  s \o u \in Seq(Byte) /\ Joins(s \o u, s, u)
<1>1. s \o u \in Seq(Byte)
  OBVIOUS
<1>2. Byte \subseteq Int
  BY DEF Byte
<1>3. s \in Seq(Int) /\ u \in Seq(Int)
  <2>1. \A i \in 1..Len(s) : s[i] \in Byte
    OBVIOUS
  <2>2. \A i \in 1..Len(u) : u[i] \in Byte
    OBVIOUS
  <2>3. \A i \in 1..Len(s) : s[i] \in Int
    BY <1>2, <2>1
  <2>4. \A i \in 1..Len(u) : u[i] \in Int
    BY <1>2, <2>2
  <2> QED
    BY <2>3, <2>4
<1> QED
  BY <1>1, <1>3, Joined, Zenon

\* The bytes of a frame, whose body has three or four.
LEMMA FrameBytes ==
    ASSUME NEW body \in Seq(Int), NEW sum \in Int, Len(body) \in {3, 4}, NEW g,
           g = <<Dollar>> \o body \o <<sum, Newline>>
    PROVE  /\ g \in Seq(Int) /\ Len(g) = Len(body) + 3
           /\ g[1] = Dollar /\ g[Len(g) - 1] = sum /\ g[Len(g)] = Newline
           /\ \A i \in 1..Len(body) : g[i + 1] = body[i]
           /\ SubSeq(g, 2, Len(g) - 2) = body
<1> DEFINE start == <<Dollar>>
           end == <<sum, Newline>>
           n == Len(body)
<1>1. start \in Seq(Int) /\ Len(start) = 1 /\ start[1] = Dollar
  BY DEF Dollar
<1>2. end \in Seq(Int) /\ Len(end) = 2 /\ end[1] = sum /\ end[2] = Newline
  BY DEF Newline
<1> HIDE DEF start, end
<1> DEFINE front == start \o body
<1> HIDE DEF front
<1>0. Joins(front, start, body)
  BY <1>1, Joined, Zenon DEF front
<1>3. /\ front \in Seq(Int) /\ Len(front) = 1 + n /\ front[1] = Dollar
      /\ \A i \in 1..n : front[1 + i] = body[i]
  <2>1. \A i \in 1..1 : front[i] = start[i]
    BY <1>0, <1>1 DEF Joins
  <2> QED
    BY <1>0, <1>1, <2>1 DEF Joins
<1>4. g = front \o end
  BY DEF front, start, end
<1>10. Joins(g, front, end)
  BY <1>2, <1>3, <1>4, Joined, Zenon
<1>5. /\ g \in Seq(Int) /\ Len(g) = 1 + n + 2
      /\ \A i \in 1..(1 + n) : g[i] = front[i]
      /\ \A i \in 1..2 : g[1 + n + i] = end[i]
  BY <1>2, <1>3, <1>10 DEF Joins
<1>6. n \in {3, 4}
  OBVIOUS
<1> HIDE DEF n
<1>7. g[1] = Dollar /\ \A i \in 1..n : g[i + 1] = body[i]
  <2>1. 1 \in 1..(1 + n)
    BY <1>6
  <2>2. ASSUME NEW i \in 1..n PROVE g[i + 1] = body[i]
    <3>1. i + 1 = 1 + i /\ 1 + i \in 1..(1 + n)
      BY <1>6
    <3> QED
      BY <1>3, <1>5, <3>1, Zenon
  <2> QED
    BY <1>3, <1>5, <2>1, <2>2, Zenon
<1>8. g[n + 2] = sum /\ g[n + 3] = Newline
  <2>0. 1 \in 1..2 /\ 2 \in 1..2
    OBVIOUS
  <2>1. g[1 + n + 1] = end[1] /\ g[1 + n + 2] = end[2]
    BY <1>5, <2>0, Zenon
  <2>2. 1 + n + 1 = n + 2 /\ 1 + n + 2 = n + 3
    BY <1>6
  <2> QED
    BY <1>2, <2>1, <2>2, Zenon
<1>9. SubSeq(g, 2, Len(g) - 2) = body
  <2>1. Len(g) - 2 = n + 1
    BY <1>5, <1>6
  <2>2. \A i \in 2..(n + 1) : g[i] \in Int
    BY <1>5, <1>6, SMTT(20)
  <2>3. /\ SubSeq(g, 2, n + 1) \in Seq(Int) /\ Len(SubSeq(g, 2, n + 1)) = n
        /\ \A i \in 1..n : SubSeq(g, 2, n + 1)[i] = g[i + 1]
    BY <1>5, <1>6, SMTT(20)
  <2> QED
    BY <1>7, <2>1, <2>3, SeqEqual DEF n
<1> QED
  BY <1>5, <1>6, <1>7, <1>8, <1>9 DEF n

\* A frame has the delimiters around it, and is what process_packet lets through.
LEMMA FrameOfCommand ==
    ASSUME NEW command \in Commands
    PROVE  /\ Encode(command) \in Seq(Byte)
           /\ Len(Encode(command)) = 6 \/ Len(Encode(command)) = 7
           /\ Encode(command)[1] = Dollar
           /\ Encode(command)[Len(Encode(command))] = Newline
           /\ Checked(Encode(command))
           /\ Command(Encode(command)) = command
<1> DEFINE write == command.cmd = WriteCmd
           body == <<MY_SLAVE_ID, command.cmd, command.addr>> \o
                       (IF command.cmd = WriteCmd THEN <<command.data>> ELSE <<>>)
           sum == CalculateChecksum(body)
           g == Encode(command)
<1>1. g \in Seq(Byte)
  BY EncodeType
<1>2. command \in CommandType
  BY UartAssumption
<1>3. /\ command.cmd \in {WriteCmd, ReadCmd} /\ command.addr \in Int
      /\ command.cmd = WriteCmd => command.data \in Byte
      /\ command.cmd # WriteCmd => command.data = NoData
      /\ command = [cmd |-> command.cmd, addr |-> command.addr, data |-> command.data]
  BY <1>2 DEF CommandType, Byte, WriteCmd, ReadCmd
<1>4. /\ body \in Seq(Int) /\ Len(body) = (IF write THEN 4 ELSE 3)
      /\ body[1] = MY_SLAVE_ID /\ body[2] = command.cmd /\ body[3] = command.addr
      /\ write => body[4] = command.data
  <2> DEFINE first == <<MY_SLAVE_ID, command.cmd, command.addr>>
             more == IF command.cmd = WriteCmd THEN <<command.data>> ELSE <<>>
  <2>1. /\ first \in Seq(Int) /\ Len(first) = 3 /\ first[1] = MY_SLAVE_ID
        /\ first[2] = command.cmd /\ first[3] = command.addr
    BY <1>3 DEF MY_SLAVE_ID, WriteCmd, ReadCmd
  <2>2. /\ more \in Seq(Int) /\ Len(more) = (IF write THEN 1 ELSE 0)
        /\ write => more[1] = command.data
    <3>1. CASE write
      <4>1. more = <<command.data>> /\ command.data \in Int
        BY <1>3, <3>1 DEF Byte
      <4> QED
        BY <3>1, <4>1
    <3>2. CASE ~write
      BY <3>2
    <3> QED
      BY <3>1, <3>2
  <2> HIDE DEF first, more
  <2>5. body = first \o more
    BY DEF first, more
  <2> HIDE DEF body, write
  <2>6. Joins(body, first, more)
    BY <2>1, <2>2, <2>5, Joined, Zenon
  <2>3. /\ body \in Seq(Int) /\ Len(body) = 3 + Len(more)
        /\ \A i \in 1..3 : body[i] = first[i]
        /\ \A i \in 1..Len(more) : body[3 + i] = more[i]
    BY <2>1, <2>6 DEF Joins
  <2>4. write => body[3 + 1] = more[1]
    BY <2>2, <2>3
  <2> QED
    BY <2>1, <2>2, <2>3, <2>4, <2>5
<1>5. body \in Seq(Byte) /\ Len(body) \in {3, 4}
  <2>1. command.addr \in Byte
    BY <1>2 DEF CommandType
  <2> QED
    <3>1. body[1] \in Byte /\ body[2] \in Byte /\ body[3] \in Byte
      BY <1>3, <1>4, <2>1 DEF Byte, WriteCmd, ReadCmd, MY_SLAVE_ID
    <3>2. write => body[4] \in Byte
      BY <1>3, <1>4
    <3>3. Len(body) \in {3, 4} /\ body \in Seq(Int)
      BY <1>4
    <3>4. \A i \in 1..Len(body) : body[i] \in Byte
      BY <1>4, <3>1, <3>2, <3>3
    <3> HIDE DEF body
    <3> QED
      BY <3>3, <3>4
<1>6. sum \in Int
  <2> HIDE DEF body
  <2>1. sum \in Byte
    BY <1>5, ChecksumType
  <2> QED
    BY <2>1 DEF Byte
<1>7. g = <<Dollar>> \o body \o <<sum, Newline>>
  BY DEF Encode
<1> HIDE DEF body, g, sum
<1>8. /\ Len(g) = Len(body) + 3
      /\ g[1] = Dollar /\ g[Len(g) - 1] = sum /\ g[Len(g)] = Newline
      /\ \A i \in 1..Len(body) : g[i + 1] = body[i]
      /\ SubSeq(g, 2, Len(g) - 2) = body
  <2>1. body \in Seq(Int) /\ Len(body) \in {3, 4}
    BY <1>4, <1>5
  <2> QED
    BY <1>6, <1>7, <2>1, FrameBytes
<1>9. /\ g[2] = MY_SLAVE_ID /\ g[3] = command.cmd /\ g[4] = command.addr
      /\ write => g[5] = command.data
  <2>1. g[1 + 1] = body[1] /\ g[2 + 1] = body[2] /\ g[3 + 1] = body[3]
    BY <1>5, <1>8
  <2>2. write => g[4 + 1] = body[4]
    BY <1>4, <1>8
  <2> QED
    BY <1>4, <2>1, <2>2
<1>10. Checked(g)
  <2>1. g[Len(g) - 1] = CalculateChecksum(SubSeq(g, 2, Len(g) - 2))
    BY <1>8, Zenon DEF sum
  <2>2. Len(g) = IF write THEN 7 ELSE 6
    BY <1>4, <1>8
  <2> QED
    BY <1>3, <1>9, <2>1, <2>2 DEF Checked, FRAME_LEN_R, FRAME_LEN_W
<1>11. Command(g) = command
  BY <1>3, <1>9 DEF Command
<1>12. Len(g) = 6 \/ Len(g) = 7
  <2>1. Len(g) = IF write THEN 7 ELSE 6
    BY <1>4, <1>8
  <2> HIDE DEF write
  <2> QED
    BY <2>1, Zenon
<1>13. g[1] = Dollar /\ g[Len(g)] = Newline
  BY <1>8
<1> QED
  BY <1>1, <1>10, <1>11, <1>12, <1>13, Zenon DEF g

\* Frames one after the other.
LEMMA Regroup ==
    ASSUME NEW r \in Seq(Byte), NEW s \in Seq(Byte), NEW u \in Seq(Byte)
    PROVE  (r \o s) \o u = r \o (s \o u)
BY ConcatAssociative

\* What comes after the same bytes is the same.
LEMMA ConcatCancel ==
    ASSUME NEW r \in Seq(Byte), NEW s \in Seq(Byte), NEW u \in Seq(Byte), r \o s = r \o u
    PROVE  s = u
<1>1. Joins(r \o s, r, s) /\ Joins(r \o u, r, u)
  BY JoinedBytes, Zenon
<1> DEFINE x == r \o s
<1>2. Joins(x, r, s) /\ Joins(x, r, u)
  BY <1>1, Zenon
<1> HIDE DEF x
<1>3. Len(r) \in Nat /\ Len(s) \in Nat /\ Len(u) \in Nat
  OBVIOUS
<1>4. Len(s) = Len(u)
  BY <1>2, <1>3 DEF Joins
<1>5. \A i \in 1..Len(s) : s[i] = u[i]
  BY <1>2, <1>4, Zenon DEF Joins
<1> QED
  BY <1>4, <1>5, SeqEqual

\* One more command, and its frame comes after all the others.
LEMMA RemainingGrows ==
    ASSUME NEW s \in Seq(Commands), NEW command \in Commands, NEW f, Remaining(f, s)
    PROVE  \E h : /\ Remaining(h, Append(s, command))
                  /\ \A k \in 0..Len(s) : h[k] = f[k] \o Encode(command)
<1> DEFINE g == Encode(command)
           n == Len(s)
           h == [k \in 0..(n + 1) |-> IF k = n + 1 THEN <<>> ELSE f[k] \o g]
           t == Append(s, command)
<1>1. n \in Nat /\ f \in [0..n -> Seq(Byte)] /\ f[n] = <<>> /\ g \in Seq(Byte)
  BY EncodeType DEF Remaining
<1>2. /\ Len(t) = n + 1 /\ t[n + 1] = command
      /\ \A k \in 1..n : t[k] = s[k]
  BY AppendProperties
<1>3. \A k \in 1..n : s[k] \in Commands
  OBVIOUS
<1>4. \A k \in 1..n : Encode(s[k]) \in Seq(Byte)
  BY <1>3, EncodeType
<1>5. \A k \in 1..n : f[k - 1] = Encode(s[k]) \o f[k]
  BY DEF Remaining
<1> HIDE DEF g, n, t
<1>6. \A k \in 0..n : h[k] = f[k] \o g
  <2>1. \A k \in 0..n : k \in 0..(n + 1) /\ k # n + 1
    BY <1>1
  <2> QED
    BY <2>1
<1>7. h[n + 1] = <<>>
  BY <1>1
<1>8. \A k \in 0..n : f[k] \in Seq(Byte)
  BY <1>1
<1>9. h \in [0..(n + 1) -> Seq(Byte)]
  <2>1. \A k \in 0..n : f[k] \o g \in Seq(Byte)
    BY <1>1, <1>8
  <2> QED
    BY <1>1, <2>1
<1>10. h[n] = g
  BY <1>1, <1>6
<1> HIDE DEF h
<1>11. ASSUME NEW k \in 1..(n + 1) PROVE h[k - 1] = Encode(t[k]) \o h[k]
  <2>1. CASE k = n + 1
    <3>1. Encode(t[k]) = g /\ h[k] = <<>> /\ h[k - 1] = g
      BY <1>1, <1>2, <1>7, <1>10, <2>1 DEF g
    <3> QED
      BY <1>1, <3>1
  <2>2. CASE k # n + 1
    <3>1. k \in 1..n /\ k \in 0..n /\ k - 1 \in 0..n
      BY <1>1, <2>2
    <3>2. h[k - 1] = (Encode(s[k]) \o f[k]) \o g /\ h[k] = f[k] \o g /\ t[k] = s[k]
      BY <1>2, <1>5, <1>6, <3>1
    <3>3. Encode(s[k]) \in Seq(Byte) /\ f[k] \in Seq(Byte)
      BY <1>4, <1>8, <3>1
    <3>4. (Encode(s[k]) \o f[k]) \o g = Encode(s[k]) \o (f[k] \o g)
      BY <1>1, <3>3, Regroup
    <3> QED
      BY <3>2, <3>4, Zenon
  <2> QED
    BY <2>1, <2>2
<1> QED
  BY <1>2, <1>6, <1>7, <1>9, <1>11 DEF Remaining, t, n, g

\* A byte at the front, and one at the end.
LEMMA FrontByte ==
    ASSUME NEW s \in Seq(Byte), s # <<>>
    PROVE  /\ Head(s) \in Byte /\ Head(s) = s[1] /\ Tail(s) \in Seq(Byte)
           /\ Len(s) >= 1 /\ s = <<Head(s)>> \o Tail(s)
<1>1. Head(s) \in Byte /\ Head(s) = s[1] /\ Len(s) >= 1
  OBVIOUS
<1>2. /\ Tail(s) \in Seq(Byte) /\ Len(Tail(s)) = Len(s) - 1
      /\ \A i \in 1..Len(Tail(s)) : Tail(s)[i] = s[i + 1]
  BY HeadTailProperties
<1> DEFINE h == <<Head(s)>>
           u == Tail(s)
<1>3. h \in Seq(Byte) /\ Len(h) = 1 /\ h[1] = s[1]
  BY <1>1
<1> HIDE DEF h, u
<1>4. h \o u \in Seq(Byte) /\ Joins(h \o u, h, u)
  BY <1>2, <1>3, JoinedBytes, Zenon DEF u
<1>5. Len(h \o u) = Len(s) /\ \A i \in 1..Len(s) : (h \o u)[i] = s[i]
  <2> DEFINE r == h \o u
  <2> HIDE DEF r
  <2>1. Len(s) \in Nat /\ Joins(r, h, u) /\ Len(u) = Len(s) - 1
    BY <1>2, <1>4 DEF r, u
  <2>2. Len(r) = Len(s) /\ \A i \in 1..(Len(s) - 1) : r[1 + i] = u[i]
    BY <1>3, <2>1 DEF Joins
  <2>3. \A i \in 1..1 : r[i] = h[i]
    BY <1>3, <2>1 DEF Joins
  <2>4. \A i \in 1..(Len(s) - 1) : u[i] = s[i + 1]
    BY <1>2 DEF u
  <2>5. ASSUME NEW i \in 1..Len(s) PROVE r[i] = s[i]
    <3>1. CASE i = 1
      BY <1>3, <2>3, <3>1
    <3>2. CASE i # 1
      <4>1. i - 1 \in 1..(Len(s) - 1) /\ 1 + (i - 1) = i /\ (i - 1) + 1 = i
        BY <2>1, <3>2
      <4> QED
        BY <2>2, <2>4, <4>1, Zenon
    <3> QED
      BY <3>1, <3>2
  <2> QED
    BY <2>2, <2>5 DEF r
<1> QED
  BY <1>1, <1>2, <1>4, <1>5, SeqEqual DEF h, u

\* Appending a byte is concatenating it.
LEMMA EndByte ==
    ASSUME NEW s \in Seq(Byte), NEW b \in Byte
    PROVE  Append(s, b) = s \o <<b>> /\ <<b>> \in Seq(Byte)
<1>1. <<b>> \in Seq(Byte)
  OBVIOUS
<1>2. Append(s, b) = s \o <<b>>
  BY AppendIsConcat
<1> QED
  BY <1>1, <1>2

\* A frame has six or seven bytes.
LEMMA SixOrSeven ==
    ASSUME NEW m, m = 6 \/ m = 7
    PROVE  m \in Nat /\ m >= 6 /\ m <= 7 /\ 0 < m
OBVIOUS

\* The byte that is read is the next one of the first command that is not
\* published.
LEMMA ByteIsNext ==
    ASSUME UartTypeOK, LinkInv, Reads, NEW f, Remaining(f, sent),
           frame \o (rxBuffer \o onLine) = f[Len(published)]
    PROVE  LET next == Encode(sent[Len(published) + 1])
           IN /\ Len(published) < Len(sent)
              /\ sent[Len(published) + 1] \in Commands
              /\ Len(frame) < Len(next) /\ byte = next[Len(frame) + 1]
              /\ \A i \in 1..Len(frame) : frame[i] = next[i]
              /\ Append(frame, byte) \o (rxBuffer' \o onLine') = f[Len(published)]
<1> DEFINE p == Len(published)
           n == Len(sent)
           next == Encode(sent[p + 1])
           k == Len(frame)
           rest == rxBuffer \o onLine
           all == f[p]
<1>1. /\ frame \in Seq(Byte) /\ rxBuffer \in Seq(Byte) /\ onLine \in Seq(Byte)
      /\ rxBuffer # <<>> /\ (in_frame <=> frame # <<>>)
      /\ rxBuffer' = Tail(rxBuffer) /\ onLine' = onLine /\ at = "read"
  BY DEF UartTypeOK, Reads, lineVars
<1>2. /\ p \in Nat /\ n \in Nat /\ p <= n /\ k \in Nat
  <2>1. published \in Seq(CommandType) /\ sent \in Seq(Commands) /\ p <= n
    BY Zenon DEF UartTypeOK, LinkInv
  <2>2. frame \in Seq(Byte)
    BY <1>1
  <2> QED
    BY <2>1, <2>2
<1>3. /\ byte \in Byte /\ byte = rxBuffer[1] /\ rxBuffer' \in Seq(Byte)
      /\ rxBuffer = <<byte>> \o rxBuffer' /\ Len(rxBuffer) >= 1
  <2>1. rxBuffer \in Seq(Byte) /\ rxBuffer # <<>>
    BY <1>1
  <2> QED
    BY <1>1, <2>1, FrontByte, Zenon DEF byte
<1>4. rest \in Seq(Byte) /\ Joins(rest, rxBuffer, onLine)
  BY <1>1, JoinedBytes, Zenon
<1>5. rest[1] = byte /\ Len(rest) >= 1
  <2>1. Len(rxBuffer) \in Nat /\ Len(onLine) \in Nat
    BY <1>1
  <2> QED
    BY <1>3, <1>4, <2>1 DEF Joins
<1>6. Joins(all, frame, rest) /\ all \in Seq(Byte)
  BY <1>1, <1>4, JoinedBytes, Zenon
<1> HIDE DEF rest
<1>7. /\ all[k + 1] = byte /\ Len(all) >= k + 1
      /\ \A i \in 1..k : all[i] = frame[i]
  <2>1. Len(rest) \in Nat /\ k \in Nat
    BY <1>1, <1>4
  <2>2. /\ Len(all) = k + Len(rest)
        /\ \A i \in 1..k : all[i] = frame[i]
        /\ \A i \in 1..Len(rest) : all[k + i] = rest[i]
    BY <1>6, Zenon DEF Joins
  <2> HIDE DEF k, all
  <2>3. all[k + 1] = rest[1]
    BY <1>5, <2>1, <2>2
  <2> QED
    BY <1>5, <2>1, <2>2, <2>3
<1>8. p < n
  <2>1. SUFFICES ASSUME p = n PROVE FALSE
    BY <1>2
  <2>2. all = <<>>
    BY <2>1 DEF Remaining
  <2> QED
    BY <1>2, <1>7, <2>2
<1>9. sent[p + 1] \in Commands
  <2>1. sent \in Seq(Commands)
    BY DEF LinkInv
  <2> QED
    BY <1>2, <1>8, <2>1
<1>10. next \in Seq(Byte) /\ (Len(next) = 6 \/ Len(next) = 7)
  BY <1>9, FrameOfCommand, Zenon
<1>11. f[p + 1] \in Seq(Byte) /\ all = next \o f[p + 1]
  <2>1. p + 1 \in 1..n /\ p + 1 \in 0..n /\ (p + 1) - 1 = p
    BY <1>2, <1>8
  <2> QED
    BY <2>1, Zenon DEF Remaining
<1>12. k < Len(next)
  <2>1. CASE in_frame
    <3>1. at = "read" /\ in_frame => Len(frame) < Len(Encode(sent[Len(published) + 1]))
      BY Zenon DEF LinkInv
    <3>2. at = "read"
      BY <1>1
    <3> QED
      BY <2>1, <3>1, <3>2, Zenon
  <2>2. CASE ~in_frame
    <3>1. frame = <<>>
      BY <1>1, <2>2
    <3>2. k = 0
      BY <3>1
    <3>3. 0 < Len(next)
      BY <1>10, SixOrSeven, Zenon
    <3> QED
      BY <3>2, <3>3, Zenon
  <2> QED
    BY <2>1, <2>2
<1>13. Joins(all, next, f[p + 1])
  BY <1>10, <1>11, JoinedBytes, Zenon
<1> HIDE DEF all, next
<1>14. byte = next[k + 1] /\ \A i \in 1..k : frame[i] = next[i]
  <2>1. Len(next) \in Nat
    BY <1>10
  <2>2. k + 1 \in 1..Len(next) /\ \A i \in 1..k : i \in 1..Len(next)
    BY <1>2, <1>12, <2>1
  <2>3. \A i \in 1..Len(next) : all[i] = next[i]
    BY <1>13, Zenon DEF Joins
  <2> QED
    BY <1>7, <2>2, <2>3, Zenon
<1>15. Append(frame, byte) \o (rxBuffer' \o onLine') = all
  <2>1. Append(frame, byte) = frame \o <<byte>> /\ <<byte>> \in Seq(Byte)
    BY <1>1, <1>3, EndByte, Zenon
  <2>2. rxBuffer' \o onLine \in Seq(Byte)
    BY <1>1, <1>3
  <2>3. (frame \o <<byte>>) \o (rxBuffer' \o onLine)
            = frame \o (<<byte>> \o (rxBuffer' \o onLine))
    <3>1. frame \in Seq(Byte)
      BY <1>1
    <3> QED
      BY <2>1, <2>2, <3>1, Regroup, Zenon
  <2>4. <<byte>> \o (rxBuffer' \o onLine) = (<<byte>> \o rxBuffer') \o onLine
    BY <1>1, <1>3, <2>1, Regroup, Zenon
  <2>5. (<<byte>> \o rxBuffer') \o onLine = rest
    BY <1>3, Zenon DEF rest
  <2> QED
    BY <1>1, <2>1, <2>3, <2>4, <2>5, Zenon DEF all, rest
<1> QED
  BY <1>8, <1>9, <1>12, <1>14, <1>15 DEF next, all

\* The same, without the bytes.
LEMMA LinkKept ==
    ASSUME LinkInv, UNCHANGED <<sent, published, at, in_frame, frame>>,
           rxBuffer' \o onLine' = rxBuffer \o onLine
    PROVE  LinkInv'
BY DEF LinkInv

\* The master sends a command: its frame comes after everything that is on the way.
LEMMA LinkSends ==
    ASSUME UartTypeOK, LinkInv, NEW command \in Commands, MasterSends(command)
    PROVE  LinkInv'
<1> DEFINE n == Len(sent)
           p == Len(published)
           g == Encode(command)
<1>1. /\ frame \in Seq(Byte) /\ rxBuffer \in Seq(Byte) /\ onLine = <<>>
      /\ onLine' = g /\ sent' = Append(sent, command) /\ g \in Seq(Byte)
      /\ UNCHANGED <<at, in_frame, frame, rxBuffer, published>>
  <2>1. frame \in Seq(Byte) /\ rxBuffer \in Seq(Byte)
    BY DEF UartTypeOK
  <2>2. onLine = <<>> /\ onLine' = g /\ sent' = Append(sent, command)
    BY Zenon DEF MasterSends
  <2>3. UNCHANGED <<at, in_frame, frame, rxBuffer, published>>
    BY DEF MasterSends, parserVars
  <2>4. g \in Seq(Byte)
    BY EncodeType, Zenon
  <2> QED
    BY <2>1, <2>2, <2>3, <2>4
<1>2. sent \in Seq(Commands) /\ p <= n /\ p \in Nat /\ n \in Nat
  <2>1. published \in Seq(CommandType)
    BY DEF UartTypeOK
  <2>2. sent \in Seq(Commands) /\ p <= n
    BY DEF LinkInv
  <2> QED
    BY <2>1, <2>2
<1>3. /\ sent' \in Seq(Commands) /\ Len(sent') = n + 1
      /\ \A i \in 1..n : sent'[i] = sent[i]
  BY <1>1, <1>2, AppendProperties
<1>4. PICK f : Remaining(f, sent) /\ frame \o (rxBuffer \o onLine) = f[p]
  BY Zenon DEF LinkInv
<1>5. PICK h : /\ Remaining(h, sent')
               /\ \A k \in 0..n : h[k] = f[k] \o g
  <2>1. \E h : /\ Remaining(h, Append(sent, command))
               /\ \A k \in 0..n : h[k] = f[k] \o g
    BY <1>2, <1>4, RemainingGrows, Zenon
  <2> QED
    BY <1>1, <2>1, Zenon
<1>6. frame' \o (rxBuffer' \o onLine') = h[Len(published')]
  <2>1. rxBuffer \o onLine = rxBuffer
    BY <1>1
  <2>2. frame \o (rxBuffer \o g) = (frame \o rxBuffer) \o g
    BY <1>1, Regroup
  <2>3. p \in 0..n
    BY <1>2
  <2> QED
    BY <1>1, <1>4, <1>5, <2>1, <2>2, <2>3, Zenon
<1>7. /\ in_frame => p + 1 \in 1..n
      /\ \A i \in 1..p : i \in 1..n
      /\ p <= n + 1 /\ (p < n => p < n + 1)
  BY <1>2 DEF LinkInv
<1>8. in_frame => sent'[p + 1] = sent[p + 1]
  BY <1>3, <1>7
<1>9. at = "publish" => in_frame
  BY DEF LinkInv
<1> HIDE DEF g
<1>10. \E w : Remaining(w, sent') /\ frame' \o (rxBuffer' \o onLine') = w[Len(published')]
  BY <1>5, <1>6, Zenon
<1> QED
  BY <1>1, <1>3, <1>7, <1>8, <1>9, <1>10 DEF LinkInv

\* What the task reads.
LEMMA LinkReads ==
    ASSUME UartTypeOK, LinkInv, PerfectLine, Reads, RxTask
    PROVE  LinkInv'
<1> DEFINE p == Len(published)
           n == Len(sent)
           next == Encode(sent[p + 1])
           k == Len(frame)
<1>1. PICK f : Remaining(f, sent) /\ frame \o (rxBuffer \o onLine) = f[p]
  BY DEF LinkInv
<1>2. /\ p < n /\ sent[p + 1] \in Commands
      /\ k < Len(next) /\ byte = next[k + 1]
      /\ \A i \in 1..k : frame[i] = next[i]
      /\ Append(frame, byte) \o (rxBuffer' \o onLine') = f[p]
  BY <1>1, ByteIsNext, Zenon
<1>3. /\ frame \in Seq(Byte) /\ k \in Nat /\ byte \in Byte
      /\ (in_frame <=> frame # <<>>) /\ at = "read" /\ k <= 16
      /\ sent' = sent /\ published' = published
  BY ReadsByte DEF UartTypeOK, Reads, lineVars, PROTOCOL_BUFFER_SIZE
<1>4. /\ next \in Seq(Byte) /\ (Len(next) = 6 \/ Len(next) = 7)
      /\ next[1] = Dollar /\ next[Len(next)] = Newline /\ Checked(next)
  BY <1>2, FrameOfCommand, Zenon
<1>5. \A i \in 2..(Len(next) - 1) : next[i] \notin {Dollar, Newline}
  BY <1>2, Zenon DEF PerfectLine, Plain
<1>6. Append(frame, byte) \in Seq(Byte) /\ Len(Append(frame, byte)) = k + 1
  BY <1>3
<1> HIDE DEF next
\* The state after the byte has gone into the frame.
<1>7. ASSUME frame' = Append(frame, byte), in_frame',
             at' = "read" => k + 1 < Len(next),
             at' = "publish" => frame' = next
      PROVE  LinkInv'
  <2>1. /\ Remaining(f, sent') /\ frame' \o (rxBuffer' \o onLine') = f[Len(published')]
    BY <1>1, <1>2, <1>3, <1>7, Zenon
  <2>2. Len(published') < Len(sent')
    BY <1>2, <1>3
  <2>3. at' = "read" /\ in_frame' => Len(frame') < Len(Encode(sent'[Len(published') + 1]))
    BY <1>3, <1>6, <1>7 DEF next
  <2>4. at' = "publish" => in_frame' /\ frame' = Encode(sent'[Len(published') + 1])
    BY <1>3, <1>7, Zenon DEF next
  <2>5. /\ sent' \in Seq(Commands) /\ Len(published') <= Len(sent')
        /\ \A i \in 1..Len(published') : published'[i] = sent'[i]
    BY <1>3, Zenon DEF LinkInv
  <2> QED
    BY <2>1, <2>2, <2>3, <2>4, <2>5, Zenon DEF LinkInv
<1>8. Len(next) \in Nat /\ Len(next) >= 6 /\ Len(next) <= 7
  <2>1. Len(next) = 6 \/ Len(next) = 7
    BY <1>4, Zenon
  <2> QED
    BY <2>1, SixOrSeven, Zenon
\* Only the first byte of a frame is '$', and only the last is '\n'.
<1>9. byte = Dollar => k = 0
  <2>1. SUFFICES ASSUME byte = Dollar, k # 0 PROVE FALSE
    OBVIOUS
  <2>2. CASE k + 1 = Len(next)
    <3>1. byte = next[Len(next)] /\ next[Len(next)] = Newline
      BY <1>2, <1>4, <2>2, Zenon
    <3> QED
      BY <2>1, <3>1 DEF Dollar, Newline
  <2>3. CASE k + 1 # Len(next)
    <3>1. k + 1 \in 2..(Len(next) - 1)
      BY <1>2, <1>3, <1>8, <2>1, <2>3
    <3> QED
      BY <1>2, <1>5, <2>1, <3>1
  <2> QED
    BY <2>2, <2>3
<1>10. byte = Newline => k + 1 = Len(next)
  <2>1. SUFFICES ASSUME byte = Newline, k + 1 # Len(next) PROVE FALSE
    OBVIOUS
  <2>2. CASE k = 0
    <3>0. k + 1 = 1
      BY <2>2
    <3>1. byte = next[1] /\ next[1] = Dollar
      BY <1>2, <1>4, <3>0, Zenon
    <3> QED
      BY <2>1, <3>1 DEF Dollar, Newline
  <2>3. CASE k # 0
    <3>1. k + 1 \in 2..(Len(next) - 1)
      BY <1>2, <1>3, <1>8, <2>1, <2>3
    <3> QED
      BY <1>2, <1>5, <2>1, <3>1
  <2> QED
    BY <2>2, <2>3
<1>11. k = 0 => byte = Dollar
  BY <1>2, <1>4
<1>12. k + 1 = Len(next) => byte = Newline
  BY <1>2, <1>4
<1>13. k = 0 => frame = <<>>
  BY <1>3
<1>14. CASE Restarts
  <2>1. k = 0 /\ frame = <<>> /\ frame' = <<Dollar>> /\ in_frame' /\ at' = at
    BY <1>9, <1>13, <1>14 DEF Restarts
  <2>2. frame' = Append(frame, byte)
    BY <1>14, <2>1 DEF Restarts
  <2>3. k + 1 < Len(next)
    BY <1>8, <2>1
  <2> QED
    BY <1>3, <1>7, <2>1, <2>2, <2>3
<1>15. CASE Skips
  <2>1. k = 0 /\ byte # Dollar
    BY <1>3, <1>15 DEF Skips
  <2> QED
    BY <1>11, <2>1
<1>16. CASE Stores
  <2>1. /\ byte \notin {Dollar, Newline} /\ frame' = Append(frame, byte)
        /\ in_frame' /\ at' = "read"
    BY <1>3, <1>16 DEF Stores
  <2>2. k + 1 < Len(next)
    BY <1>2, <1>3, <1>8, <1>12, <2>1
  <2> QED
    BY <1>7, <2>1, <2>2
<1>17. CASE Ends
  <2>1. byte = Newline /\ in_frame
    BY <1>17 DEF Ends
  <2>2. k + 1 = Len(next)
    BY <1>10, <2>1
  <2>3. \A i \in 1..Len(next) : Append(frame, byte)[i] = next[i]
    <3>1. /\ \A i \in 1..k : Append(frame, byte)[i] = frame[i]
          /\ Append(frame, byte)[k + 1] = byte
      BY <1>3
    <3> QED
      BY <1>2, <1>3, <2>2, <3>1
  <2>4. Append(frame, byte) = next
    BY <1>4, <1>6, <2>2, <2>3, SeqEqual
  <2>5. Checked(Append(frame, Newline))
    BY <1>4, <2>1, <2>4, Zenon
  <2>6. at' = "publish" /\ frame' = Append(frame, byte) /\ in_frame'
    BY <1>17, <2>1, <2>5 DEF Ends
  <2> QED
    BY <1>7, <2>4, <2>6
<1>18. CASE Overflows
  <2>1. k = 16
    BY <1>18 DEF Overflows, PROTOCOL_BUFFER_SIZE
  <2> QED
    BY <1>2, <1>8, <2>1
<1>19. CASE Publishes
  BY <1>3, <1>19 DEF Publishes
<1> QED
  BY <1>14, <1>15, <1>16, <1>17, <1>18, <1>19 DEF RxTask

\* A whole frame is the next command.
LEMMA LinkPublishes ==
    ASSUME UartTypeOK, LinkInv, PerfectLine, Publishes
    PROVE  LinkInv' /\ Link!Deliver
<1> DEFINE p == Len(published)
           n == Len(sent)
           c == sent[p + 1]
<1>1. at = "publish" /\ in_frame /\ frame = Encode(c) /\ p < n
  BY DEF Publishes, LinkInv
<1>2. sent \in Seq(Commands) /\ p \in Nat /\ n \in Nat /\ published \in Seq(CommandType)
  <2>1. sent \in Seq(Commands) /\ published \in Seq(CommandType)
    BY Zenon DEF LinkInv, UartTypeOK
  <2> QED
    BY <2>1
<1>3. c \in Commands /\ c \in CommandType
  BY <1>1, <1>2, UartAssumption
<1>4. Command(frame) = c
  BY <1>1, <1>3, FrameOfCommand, Zenon
<1>5. /\ published' = Append(published, c) /\ at' = "read" /\ ~in_frame' /\ frame' = <<>>
      /\ UNCHANGED <<onLine, sent, rxBuffer>>
  BY <1>4 DEF Publishes, PerfectLine
<1> HIDE DEF c
<1>6. /\ Len(published') = p + 1 /\ published'[p + 1] = c
      /\ \A i \in 1..p : published'[i] = published[i]
  BY <1>2, <1>3, <1>5
<1>7. PICK f : Remaining(f, sent) /\ frame \o (rxBuffer \o onLine) = f[p]
  BY DEF LinkInv
<1>8. p + 1 \in 1..n /\ p + 1 \in 0..n /\ (p + 1) - 1 = p
  BY <1>1, <1>2
<1>9. f[p] = frame \o f[p + 1] /\ f[p + 1] \in Seq(Byte)
  BY <1>1, <1>7, <1>8, Zenon DEF Remaining, c
<1>10. /\ frame \in Seq(Byte) /\ rxBuffer \o onLine \in Seq(Byte)
  BY DEF UartTypeOK
<1>11. rxBuffer \o onLine = f[p + 1]
  <2>1. frame \o (rxBuffer \o onLine) = frame \o f[p + 1]
    BY <1>7, <1>9, Zenon
  <2> QED
    BY <1>9, <1>10, <2>1, ConcatCancel, Zenon
<1>12. frame' \o (rxBuffer' \o onLine') = f[Len(published')]
  <2>1. <<>> \o (rxBuffer \o onLine) = rxBuffer \o onLine
    BY <1>10
  <2> QED
    BY <1>5, <1>6, <1>11, <2>1, Zenon
<1>13. \A i \in 1..Len(published') : published'[i] = sent'[i]
  <2>1. \A i \in 1..p : published[i] = sent[i]
    BY DEF LinkInv
  <2> QED
    BY <1>2, <1>5, <1>6, <2>1 DEF c
<1>14. \E w : Remaining(w, sent') /\ frame' \o (rxBuffer' \o onLine') = w[Len(published')]
  BY <1>5, <1>7, <1>12, Zenon
<1>15. Len(published') <= Len(sent')
  BY <1>1, <1>2, <1>5, <1>6
<1>16. LinkInv'
  BY <1>2, <1>5, <1>13, <1>14, <1>15 DEF LinkInv
<1>17. Link!Deliver
  BY <1>1, <1>5 DEF Link!Deliver, c
<1> QED
  BY <1>16, <1>17

\* A byte goes from the line into the ring buffer; on a perfect line none is lost.
LEMMA LinkCarries ==
    ASSUME UartTypeOK, LinkInv, PerfectLine, noise = 0, ByteArrives
    PROVE  LinkInv' /\ UNCHANGED <<sent, published, noise>>
<1>1. /\ onLine \in Seq(Byte) /\ rxBuffer \in Seq(Byte) /\ onLine # <<>>
      /\ onLine' = Tail(onLine)
      /\ UNCHANGED <<sent, published, at, in_frame, frame>>
  BY DEF UartTypeOK, ByteArrives, parserVars
<1>2. rxBuffer' = Append(rxBuffer, Head(onLine)) /\ noise' = noise
  BY DEF ByteArrives, PerfectLine
<1> DEFINE b == Head(onLine)
<1>3. b \in Byte /\ Tail(onLine) \in Seq(Byte) /\ onLine = <<b>> \o Tail(onLine)
  BY <1>1, FrontByte, Zenon
<1>4. Append(rxBuffer, b) = rxBuffer \o <<b>> /\ <<b>> \in Seq(Byte)
  BY <1>1, <1>3, EndByte, Zenon
<1> HIDE DEF b
<1>5. (rxBuffer \o <<b>>) \o Tail(onLine) = rxBuffer \o (<<b>> \o Tail(onLine))
  BY <1>1, <1>3, <1>4, Regroup, Zenon
<1>6. rxBuffer' \o onLine' = rxBuffer \o onLine
  BY <1>1, <1>2, <1>3, <1>4, <1>5, Zenon DEF b
<1>7. LinkInv'
  BY <1>1, <1>6, LinkKept
<1> QED
  BY <1>1, <1>2, <1>7

\* Every step of the receiver is a step of the link or a stutter.
LEMMA LinkStep ==
    ASSUME UartTypeOK, LinkInv, PerfectLine, noise = 0, [Next]_vars
    PROVE  LinkInv' /\ noise' = 0 /\ [Link!LinkNext]_(Link!linkVars)
<1>1. CASE UNCHANGED vars
  <2>1. UNCHANGED <<sent, published, at, in_frame, frame, rxBuffer, onLine, noise>>
    BY <1>1 DEF vars, lineVars, parserVars
  <2>2. LinkInv'
    BY <2>1, LinkKept
  <2> QED
    BY <2>1, <2>2 DEF Link!linkVars
<1>2. ASSUME NEW command \in Commands, MasterSends(command)
      PROVE  LinkInv' /\ noise' = 0 /\ [Link!LinkNext]_(Link!linkVars)
  <2>1. LinkInv'
    BY <1>2, LinkSends
  <2>2. sent' = Append(sent, command) /\ UNCHANGED <<published, noise>>
    BY <1>2 DEF MasterSends, parserVars
  <2> QED
    BY <2>1, <2>2 DEF Link!LinkNext, Link!Send
<1>3. CASE ByteArrives
  <2>1. LinkInv' /\ UNCHANGED <<sent, published, noise>>
    BY <1>3, LinkCarries
  <2> QED
    BY <2>1 DEF Link!linkVars
<1>4. CASE Disturbance
  <2>1. noise < MaxNoise /\ MaxNoise = 0
    BY <1>4 DEF Disturbance, PerfectLine
  <2> QED
    BY <2>1
<1>5. CASE RxTask /\ Reads
  <2>1. LinkInv'
    BY <1>5, LinkReads
  <2>2. UNCHANGED <<sent, published, noise>>
    BY <1>5 DEF Reads, lineVars
  <2> QED
    BY <2>1, <2>2 DEF Link!linkVars
<1>6. CASE Publishes
  <2>1. LinkInv' /\ Link!Deliver
    BY <1>6, LinkPublishes
  <2>2. noise' = noise
    BY <1>6 DEF Publishes
  <2> QED
    BY <2>1, <2>2 DEF Link!LinkNext
<1> QED
  <2>1. RxTask => Publishes \/ (RxTask /\ Reads)
    BY DEF RxTask, Restarts, Skips, Stores, Ends, Overflows
  <2> QED
    BY <1>1, <1>2, <1>3, <1>4, <1>5, <1>6, <2>1 DEF Next

\* Nothing is on the way at the start.
LEMMA LinkStarts == Init => LinkInv /\ noise = 0 /\ Link!LinkInit
<1> SUFFICES ASSUME Init PROVE LinkInv /\ noise = 0 /\ Link!LinkInit
  OBVIOUS
<1>1. /\ sent = <<>> /\ published = <<>> /\ frame = <<>> /\ rxBuffer = <<>>
      /\ onLine = <<>> /\ ~in_frame /\ at = "read" /\ noise = 0
  BY DEF Init
<1> DEFINE f == [k \in 0..0 |-> <<>>]
<1>2. Remaining(f, sent)
  <2>1. <<>> \in Seq(Byte) /\ Len(<<>>) = 0
    OBVIOUS
  <2>2. f \in [0..0 -> Seq(Byte)] /\ f[0] = <<>>
    BY <2>1
  <2> HIDE DEF f
  <2> QED
    BY <1>1, <2>1, <2>2 DEF Remaining
<1>3. frame \o (rxBuffer \o onLine) = f[Len(published)]
  BY <1>1
<1> HIDE DEF f
<1>4. LinkInv
  BY <1>1, <1>2, <1>3 DEF LinkInv
<1> QED
  BY <1>1, <1>4 DEF Link!LinkInit

\* Over a perfect line, uart_rx_task and process_packet are the link of README.md
\* section 3: the commands of the master come to MQTT as they were sent, each
\* once, in order, however many are in the ring buffer while the task publishes
\* (protocol.c:98-178, 207-248).
THEOREM DeliversInOrder ==
    ASSUME PerfectLine
    PROVE  Spec => Link!LinkSafety
<1>1. Init => LinkInv /\ noise = 0 /\ Link!LinkInit
  BY LinkStarts
<1>2. UartTypeOK /\ (LinkInv /\ noise = 0) /\ [Next]_vars
          => (LinkInv /\ noise = 0)' /\ [Link!LinkNext]_(Link!linkVars)
  BY LinkStep
<1>3. Spec => []UartTypeOK
  BY UartTypes
<1> QED
  BY <1>1, <1>2, <1>3, PTL DEF Spec, Link!LinkSafety

=============================================================================
