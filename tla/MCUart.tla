------------------------------- MODULE MCUart -------------------------------
\* Instances of UartProtocol for TLC.
EXTENDS UartProtocol

Write(addr, data) == [cmd |-> WriteCmd, addr |-> addr, data |-> data]
Read(addr) == [cmd |-> ReadCmd, addr |-> addr, data |-> NoData]

\* Addresses on both sides of the register file's end; no byte of a frame
\* is 36 or 10.
PlainCommands == {Write(1, 5), Write(16, 255), Read(1)}
ASSUME CommandsArePlain == \A command \in PlainCommands : Plain(command)

\* A data byte or a checksum that is one of the delimiters.
AnyCommands == PlainCommands \cup {Write(1, 10), Write(1, 36), Read(183)}

\* Nothing (a byte is lost), the delimiters, another slave, and more than
\* the frame buffer holds.
SomeBursts == {<<>>, <<Dollar>>, <<Newline>>, <<2, ReadCmd, 1, 85>>,
               [i \in 1..PROTOCOL_BUFFER_SIZE |-> 99]}

=============================================================================
