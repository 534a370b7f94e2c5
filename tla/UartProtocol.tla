---------------------------- MODULE UartProtocol ----------------------------
(***************************************************************************)
(* main/protocol.c: uart_rx_task cuts the byte stream of the UART into     *)
(* frames, process_packet checks one and hands it to MQTT.                 *)
(*                                                                         *)
(* The master, the line and the UART driver's ring buffer are around it:   *)
(* while the task is inside the MQTT publish, bytes pile up in the buffer  *)
(* and are lost once it is full.  uart_tx_task is never created            *)
(* (protocol.c:273).                                                       *)
(***************************************************************************)
EXTENDS Integers, Sequences

CONSTANTS
    Commands,       \* what the master may ask: [cmd, addr, data]
    Bursts,         \* the bytes a disturbance may put on the line
    RxBufferSize,   \* the ring buffer of uart_driver_install
    MaxSent,        \* bound on the commands sent
    MaxNoise,       \* bound on the disturbances; 0: a perfect line
    MqttMayFail     \* TRUE: esp_mqtt_client_publish may return an error

Byte == 0..255

\* protocol.h
Dollar == 36
Newline == 10
WriteCmd == 87
ReadCmd == 82
MY_SLAVE_ID == 1
PROTOCOL_BUFFER_SIZE == 16
FRAME_LEN_W == 7
FRAME_LEN_R == 6

\* A read has no data; MQTT is told -1.
NoData == -1
CommandType == [cmd : {WriteCmd}, addr : Byte, data : Byte]
                   \cup [cmd : {ReadCmd}, addr : Byte, data : {NoData}]

ASSUME UartAssumption ==
    /\ Commands \subseteq CommandType
    /\ Bursts \subseteq Seq(Byte)
    /\ RxBufferSize \in Nat \ {0}
    /\ MaxSent \in Nat
    /\ MaxNoise \in Nat
    /\ MqttMayFail \in BOOLEAN

VARIABLES
    onLine,             \* the bytes of a frame the master is still sending
    rxBuffer,           \* the driver's ring buffer
    at,                 \* uart_rx_task: in "read", or in "publish"
    in_frame,
    frame,              \* frame[0 .. idx - 1]
    g_device_registers,
    published,          \* the commands given to MQTT, oldest first
    \* History.
    sent,               \* the commands the master sent, oldest first
    noise,              \* disturbances so far
    fresh,              \* nothing was disturbed or lost since the last command
    window              \* the last bytes read, as many as a frame may have

lineVars == <<onLine, sent, noise, fresh>>
parserVars == <<at, in_frame, frame, g_device_registers, published, window>>
vars == <<lineVars, rxBuffer, parserVars>>

UartTypeOK ==
    /\ onLine \in Seq(Byte)
    /\ rxBuffer \in Seq(Byte) /\ Len(rxBuffer) <= RxBufferSize
    /\ at \in {"read", "publish"}
    /\ in_frame \in BOOLEAN
    /\ frame \in Seq(Byte) /\ Len(frame) <= PROTOCOL_BUFFER_SIZE
    /\ in_frame <=> frame # <<>>
    /\ g_device_registers \in [0..15 -> Byte]
    /\ published \in Seq(CommandType)
    /\ fresh \in BOOLEAN
    /\ window \in Seq(Byte) /\ Len(window) <= FRAME_LEN_W

Init ==
    /\ onLine = <<>>
    /\ rxBuffer = <<>>
    /\ at = "read"
    /\ in_frame = FALSE
    /\ frame = <<>>
    /\ g_device_registers = [addr \in 0..15 |-> 0]
    /\ published = <<>>
    /\ sent = <<>>
    /\ noise = 0
    /\ fresh = TRUE
    /\ window = <<>>

\* The sum of the bytes, kept in eight bits.
CalculateChecksum(bytes) ==
    LET sum[i \in 0..Len(bytes)] ==
            IF i = 0 THEN 0 ELSE (sum[i - 1] + bytes[i]) % 256
    IN sum[Len(bytes)]

\* The last n bytes.
Last(bytes, n) == SubSeq(bytes, Len(bytes) - n + 1, Len(bytes))

---------------------------------------------------------------------------
\* The master, the line and the driver.

\* A frame as send_response builds it; a read has no data byte.
Encode(command) ==
    LET body == <<MY_SLAVE_ID, command.cmd, command.addr>> \o
                (IF command.cmd = WriteCmd THEN <<command.data>> ELSE <<>>)
    IN <<Dollar>> \o body \o <<CalculateChecksum(body), Newline>>

MasterSends(command) ==
    /\ onLine = <<>>
    /\ Len(sent) < MaxSent
    /\ onLine' = Encode(command)
    /\ sent' = Append(sent, command)
    /\ fresh' = TRUE
    /\ UNCHANGED <<noise, rxBuffer, parserVars>>

\* A byte that finds the ring buffer full is lost, which is a disturbance too.
ByteArrives ==
    /\ onLine # <<>>
    /\ onLine' = Tail(onLine)
    /\ \/ /\ Len(rxBuffer) < RxBufferSize
          /\ rxBuffer' = Append(rxBuffer, Head(onLine))
          /\ UNCHANGED <<noise, fresh>>
       \/ /\ Len(rxBuffer) = RxBufferSize
          /\ noise < MaxNoise
          /\ noise' = noise + 1
          /\ fresh' = FALSE
          /\ UNCHANGED rxBuffer
    /\ UNCHANGED <<sent, parserVars>>

\* Bytes come from nowhere, or instead of the next one.
Disturbance ==
    /\ noise < MaxNoise
    /\ noise' = noise + 1
    /\ fresh' = FALSE
    /\ \E burst \in Bursts :
          \/ onLine' = burst \o onLine
          \/ onLine # <<>> /\ onLine' = burst \o Tail(onLine)
    /\ UNCHANGED <<sent, rxBuffer, parserVars>>

---------------------------------------------------------------------------
\* uart_rx_task.

\* What process_packet lets through; buffer is '$' ... '\n'.
Checked(buffer) ==
    /\ Len(buffer) >= FRAME_LEN_R
    /\ buffer[2] = MY_SLAVE_ID
    /\ \/ buffer[3] = WriteCmd /\ Len(buffer) = FRAME_LEN_W
       \/ buffer[3] = ReadCmd /\ Len(buffer) = FRAME_LEN_R
    /\ buffer[Len(buffer) - 1] =
           CalculateChecksum(SubSeq(buffer, 2, Len(buffer) - 2))

\* uart_read_bytes returns one byte.
byte == Head(rxBuffer)

Reads ==
    /\ at = "read"
    /\ rxBuffer # <<>>
    /\ rxBuffer' = Tail(rxBuffer)
    /\ window' = IF Len(window) < FRAME_LEN_W THEN Append(window, byte)
                 ELSE Append(Tail(window), byte)
    /\ UNCHANGED <<lineVars, g_device_registers, published>>

\* Seeded fault: a '$' inside a frame is taken for data.
Restarts_OnlyOutside ==
    /\ Reads
    /\ byte = Dollar
    /\ in_frame' = TRUE
    /\ frame' = IF in_frame /\ Len(frame) < PROTOCOL_BUFFER_SIZE
                THEN Append(frame, Dollar) ELSE <<Dollar>>
    /\ UNCHANGED at

Restarts ==
    /\ Reads
    /\ byte = Dollar
    /\ in_frame' = TRUE
    /\ frame' = <<Dollar>>
    /\ UNCHANGED at

Skips ==
    /\ Reads
    /\ ~in_frame
    /\ byte # Dollar
    /\ UNCHANGED <<in_frame, frame, at>>

\* Seeded fault: the index may reach one past the buffer.
Stores_OneMore ==
    /\ Reads
    /\ in_frame
    /\ byte \notin {Dollar, Newline}
    /\ Len(frame) <= PROTOCOL_BUFFER_SIZE
    /\ frame' = Append(frame, byte)
    /\ UNCHANGED <<in_frame, at>>

Stores ==
    /\ Reads
    /\ in_frame
    /\ byte \notin {Dollar, Newline}
    /\ Len(frame) < PROTOCOL_BUFFER_SIZE
    /\ frame' = Append(frame, byte)
    /\ UNCHANGED <<in_frame, at>>

\* process_packet, up to the call of mqtt_cam_publish_uart.
Ends ==
    /\ Reads
    /\ in_frame
    /\ byte = Newline
    /\ Len(frame) < PROTOCOL_BUFFER_SIZE
    /\ \/ /\ Checked(Append(frame, Newline))
          /\ at' = "publish"
          /\ frame' = Append(frame, Newline)
          /\ UNCHANGED in_frame
       \/ /\ ~Checked(Append(frame, Newline))
          /\ in_frame' = FALSE
          /\ frame' = <<>>
          /\ UNCHANGED at

Overflows ==
    /\ Reads
    /\ in_frame
    /\ byte # Dollar
    /\ Len(frame) = PROTOCOL_BUFFER_SIZE
    /\ in_frame' = FALSE
    /\ frame' = <<>>
    /\ UNCHANGED at

\* Seeded fault: a read is given its checksum for data.
Command_ReadHasData(buffer) ==
    [cmd |-> buffer[3], addr |-> buffer[4], data |-> buffer[5]]

\* The command in a frame, as MQTT is told.
Command(buffer) ==
    [cmd |-> buffer[3], addr |-> buffer[4],
     data |-> IF buffer[3] = WriteCmd THEN buffer[5] ELSE NoData]

\* mqtt_cam_publish_uart returns, whatever became of the message, and the
\* rest of process_packet runs.
Publishes ==
    /\ at = "publish"
    /\ LET command == Command(frame)
       IN /\ \/ published' = Append(published, command) /\ UNCHANGED fresh
             \/ MqttMayFail /\ fresh' = FALSE /\ UNCHANGED published
          /\ g_device_registers' =
                 IF command.cmd = WriteCmd /\ command.addr < 16
                 THEN [g_device_registers EXCEPT ![command.addr] = command.data]
                 ELSE g_device_registers
    /\ at' = "read"
    /\ in_frame' = FALSE
    /\ frame' = <<>>
    /\ UNCHANGED <<onLine, sent, noise, rxBuffer, window>>

RxTask == Restarts \/ Skips \/ Stores \/ Ends \/ Overflows \/ Publishes

Next ==
    \/ \E command \in Commands : MasterSends(command)
    \/ ByteArrives
    \/ Disturbance
    \/ RxTask

\* The line carries what was sent and the task runs; esp_mqtt_client_publish
\* returns sooner or later.
Spec == Init /\ [][Next]_vars /\ WF_vars(ByteArrives) /\ WF_vars(RxTask)

---------------------------------------------------------------------------
\* Properties.

\* README.md section 3, over the bytes themselves: a valid frame ends here.
EndsValidFrame(bytes) ==
    \E n \in {FRAME_LEN_R, FRAME_LEN_W} :
        /\ n <= Len(bytes)
        /\ LET f == Last(bytes, n)
           IN /\ f[1] = Dollar
              /\ f[n] = Newline
              /\ \A i \in 2..(n - 1) : f[i] \notin {Dollar, Newline}
              /\ f[2] = MY_SLAVE_ID
              /\ f[3] = IF n = FRAME_LEN_W THEN WriteCmd ELSE ReadCmd
              /\ f[n - 1] = CalculateChecksum(SubSeq(f, 2, n - 2))

\* Whatever came before - noise, half frames, overlong frames - the receiver
\* acts on a byte exactly if that byte ends a valid frame
\* (protocol.c:98-178, 207-236).
ActsOnValidFrames ==
    [][Reads => (at' = "publish" <=> EndsValidFrame(window'))]_vars

\* The receiver finds back into step: whatever noise, half frames and lost
\* bytes came before, a command that itself arrives undisturbed is published,
\* and as it was sent (protocol.c:98-178, 207-248).
Resynchronises ==
    fresh /\ sent # <<>> ~>
        \/ ~fresh
        \/ published # <<>> /\ Last(published, 1) = Last(sent, 1)

\* No byte inside the frame of a command is a delimiter.
Plain(command) ==
    \A i \in 2..(Len(Encode(command)) - 1) :
        Encode(command)[i] \notin {Dollar, Newline}

\* Over a perfect line the receiver is a FIFO link for commands.
Link == INSTANCE FrameLink WITH delivered <- published
Delivers == Link!LinkSpec

=============================================================================
