------------------------------ MODULE WsFrames ------------------------------
(***************************************************************************)
(* The frames a WebSocket client sends, and mg_websocket_incoming_frame,   *)
(* which decodes them from blocks of bytes that may end anywhere and sends *)
(* the messages in them to the DB Server.  The blocks are those of         *)
(* mg_websocket_read_block: NGINX and IIS read the head of a frame and then*)
(* its payload, Apache takes whatever has arrived.                         *)
(***************************************************************************)
EXTENDS Integers, Sequences, FiniteSetsExt

CONSTANTS
    Streams,    \* what clients may send: sequences of frames
    Hosts,      \* web servers: a subset of {"nginx", "iis", "apache"}
    BlockSize,  \* MG_WS_BLOCK_DATA_SIZE
    Pieces,     \* bytes of a read that gives less than there will be, under Apache
    Lost,       \* how many of the last bytes of a client may never arrive
    Faults      \* "refuse": the DB Server may refuse the connection
                \* "reset":  the connection to it may break, "memory": realloc fails

Text == 1
Binary == 2
CloseOp == 8
PingOp == 9
PongOp == 10
Byte == 0..255

\* form: how many bytes more the length takes.  huge: more than payload_limit,
\* and then nothing of the payload is sent.  zero: the mask is 0.
FrameRecord == [fin : BOOLEAN, rsv : BOOLEAN, op : 0..15, masked : BOOLEAN, zero : BOOLEAN,
                form : {0, 2, 8}, huge : BOOLEAN, data : Seq(Byte)]

\* The length fits its form; a bound of the model is that it takes two bytes when
\* the frame is not huge.
WellFormed(f) ==
    /\ f \in FrameRecord
    /\ Len(f.data) < (IF f.form = 0 THEN 126 ELSE 65536)
    /\ f.huge => f.form = 8 /\ f.data = <<>>

ASSUME WsFramesAssumption ==
    /\ \A s \in Streams : s \in Seq(FrameRecord) /\ \A i \in 1..Len(s) : WellFormed(s[i])
    /\ Hosts \subseteq {"nginx", "iis", "apache"}
    /\ BlockSize \in Nat /\ BlockSize > 15
    /\ Pieces \subseteq 1..BlockSize /\ Lost \subseteq Nat
    /\ Faults \subseteq {"refuse", "reset", "memory"}

---------------------------------------------------------------------------
(* The bytes of a frame, each named for its part in it.  A byte of payload *)
(* is masked by the byte key of the mask.                                  *)

LowByte(n) == n % 256
HighByte(n) == n \div 256

Digits(f) ==
    IF f.huge THEN <<0, 0, 0, 0, 2, 0, 0, 1>>
    ELSE [i \in 1..f.form |-> CASE i = f.form     -> LowByte(Len(f.data))
                                [] i = f.form - 1 -> HighByte(Len(f.data))
                                [] OTHER          -> 0]

Bytes(f) ==
    LET digits == Digits(f)
        code == CASE f.form = 0 -> Len(f.data) [] f.form = 2 -> 126 [] f.form = 8 -> 127
    IN  <<[is |-> "first", fin |-> f.fin, rsv |-> f.rsv, op |-> f.op],
          [is |-> "length", masked |-> f.masked, code |-> code]>>
        \o [i \in 1..Len(digits) |-> [is |-> "ext", digit |-> digits[i]]]
        \o [i \in 1..(IF f.masked THEN 4 ELSE 0) |-> [is |-> "mask", zero |-> f.zero]]
        \o [i \in 1..Len(f.data) |-> [is |-> "data", byte |-> f.data[i], key |-> (i - 1) % 4]]

\* Each stream up to and with its frame i.
Wires ==
    [s \in Streams |->
        LET upTo[i \in 0..Len(s)] == IF i = 0 THEN <<>> ELSE upTo[i - 1] \o Bytes(s[i])
        IN  upTo]

VARIABLES
    host,       \* the web server
    stream,     \* the frames of this client
    arrived,    \* how many bytes of them reach the web server
    left,       \* the client has closed its connection
    taken,      \* bytes mg_websocket_read_block has read
    remaining_length, \* bytes of the current frame still to be read (NGINX, IIS)
    decoded,    \* and how many of these have been decoded
    state,      \* read_state
    frames,     \* control_frame and message_frame
    heard       \* history: what the DB Server has received

client == <<host, stream, arrived>>
reading == <<taken, remaining_length>>
decoding == <<decoded, state, frames, heard>>

\* Byte i of the client.
Wire(i) == Wires[stream][Len(stream)][i]

---------------------------------------------------------------------------
(* validate_utf8: what is still missing of a character: S0 nothing, T1, T2 *)
(* and T3 so many bytes, S1..S4 as much with a limit on the next, ER it is *)
(* not UTF-8.                                                              *)

Utf8(s, c) ==
    CASE s = "S0" /\ c < 128                        -> "S0"
      [] s = "S0" /\ c \in 194..223                 -> "T1"
      [] s = "S0" /\ c = 224                        -> "S1"
      [] s = "S0" /\ c = 237                        -> "S2"
      [] s = "S0" /\ c \in (225..239) \ {237}       -> "T2"
      [] s = "S0" /\ c = 240                        -> "S3"
      [] s = "S0" /\ c \in 241..243                 -> "T3"
      [] s = "S0" /\ c = 244                        -> "S4"
      [] s = "T1" /\ c \in 128..191                 -> "S0"
      [] s = "T2" /\ c \in 128..191                 -> "T1"
      [] s = "S1" /\ c \in 160..191                 -> "T1"
      [] s = "S2" /\ c \in 128..159                 -> "T1"
      [] s = "T3" /\ c \in 128..191                 -> "T2"
      [] s = "S3" /\ c \in 144..191                 -> "T2"
      [] s = "S4" /\ c \in 128..143                 -> "T2"
      [] OTHER                                      -> "ER"

Utf8After(s, bytes) ==
    LET after[i \in 0..Len(bytes)] == IF i = 0 THEN s ELSE Utf8(after[i - 1], bytes[i])
    IN  after[Len(bytes)]

---------------------------------------------------------------------------
(* mg_websocket_read_block *)

Arrived(n) == taken + n <= arrived

\* The head of a frame as NGINX and IIS read it: six bytes, and those of a
\* longer length.
HeadLength == 6 + (IF ~Arrived(2) THEN 0
                   ELSE CASE Wire(taken + 2).code = 126 -> 2
                          [] Wire(taken + 2).code = 127 -> 8
                          [] OTHER -> 0)
Digit(i) == Wire(taken + 2 + i).digit
PayloadLength ==
    CASE HeadLength = 6  -> Wire(taken + 2).code
      [] HeadLength = 8  -> Digit(1) * 256 + Digit(2)
      [] HeadLength = 14 -> ((Digit(5) * 256 + Digit(6)) * 256 + Digit(7)) * 256 + Digit(8)

\* What is read with a block that begins with offs bytes, of a frame of which
\* so many bytes remain.
Get(remaining, offs) ==
    IF remaining + offs + 1 < BlockSize THEN remaining ELSE BlockSize - (offs + 1)

\* Reads wait for all they ask for.  When the client has left, one that waits
\* gives nothing, whatever it had before.
ReadHeadAndPayload ==
    LET more == Get(PayloadLength, HeadLength)
        n == HeadLength + (IF Arrived(HeadLength + more) THEN more ELSE 0)
    IN  /\ remaining_length = 0
        /\ Arrived(HeadLength)
        /\ Arrived(HeadLength + more) \/ left
        /\ taken' = taken + n
        /\ remaining_length' = PayloadLength - (n - HeadLength)

ReadPayload ==
    LET n == Get(remaining_length, 0)
    IN  /\ remaining_length > 0
        /\ Arrived(n)
        /\ taken' = taken + n
        /\ remaining_length' = remaining_length - n

\* Apache: what there is, some bytes of a frame or of several.
ReadSome ==
    \E n \in (Pieces \cup {Min({BlockSize, arrived - taken})}) \ {0} :
        /\ Arrived(n)
        /\ taken' = taken + n
        /\ UNCHANGED remaining_length

ReadBlock == IF host = "apache" THEN ReadSome ELSE ReadHeadAndPayload \/ ReadPayload

\* Nothing can be read, and nothing will come any more.
ReadNothing ==
    /\ left
    /\ IF host = "apache" THEN ~Arrived(1)
       ELSE IF remaining_length = 0 THEN ~Arrived(HeadLength)
       ELSE ~Arrived(Get(remaining_length, 0))

---------------------------------------------------------------------------
(* mg_websocket_incoming_frame *)

EmptyFrame(op) == [opcode |-> op, fin |-> TRUE, utf8 |-> "S0", data |-> <<>>]

InitDecoder ==
    /\ state = [framing |-> "START", fin |-> FALSE, opcode |-> 255, length |-> 0, ext |-> 0,
                masking |-> FALSE, index |-> 0, offset |-> 0, frame |-> "control",
                status |-> "OK"]
    /\ frames = [control |-> EmptyFrame(CloseOp), message |-> EmptyFrame(0)]
    /\ heard = <<>>
    /\ decoded = 0 /\ taken = 0 /\ remaining_length = 0

\* The session is to be closed: what is left of the block is dropped.
CloseFrom(s, why) == [s EXCEPT !.framing = "CLOSE", !.status = why]

\* block_size - block_offset, and the byte at block_offset.
Left == taken - decoded
next == Wire(decoded + 1)
Consume(n) == decoded' = decoded + n
DropBlock == decoded' = taken

\* A new message before the last one is complete, or more of one that is.
Misplaced(f) ==
    /\ f.op < 8
    /\ IF f.op # 0 THEN ~frames.message.fin
       ELSE frames.message.fin \/ frames.message.opcode = 0

\* The first byte of a frame.  A continuation has the opcode of the message.
Start ==
    /\ state.framing = "START" /\ Left > 0
    /\ LET f == next
           which == IF f.op >= 8 THEN "control" ELSE "message"
           new == f.op # 0
       IN  IF f.rsv \/ (f.op >= 8 /\ ~f.fin) \/ Misplaced(f)
           THEN /\ state' = CloseFrom(state, "PROTOCOL_ERROR")
                /\ DropBlock
                /\ UNCHANGED frames
           ELSE /\ state' = [state EXCEPT !.fin = f.fin, !.frame = which,
                                !.opcode = IF new THEN f.op ELSE frames.message.opcode,
                                !.framing = "PAYLOAD_LENGTH", !.length = 0, !.ext = 0]
                /\ frames' = [frames EXCEPT
                                ![which].fin = IF f.op >= 8 THEN @ ELSE f.fin,
                                ![which].opcode = IF new THEN f.op ELSE @,
                                ![which].utf8 = IF new THEN "S0" ELSE @]
                /\ Consume(1)
    /\ UNCHANGED heard

\* MUTANT of ExtSize: no length takes more than four bytes.
ExtSizeFour(code) == CASE code = 126 -> 2 [] code = 127 -> 4 [] OTHER -> 0

\* How many bytes more the length takes.
ExtSize(code) == CASE code = 126 -> 2 [] code = 127 -> 8 [] OTHER -> 0

\* The second byte: the mask bit, and the length or the size of it.
LengthByte ==
    /\ state.framing = "PAYLOAD_LENGTH" /\ Left > 0
    /\ LET b == next
           ext == ExtSize(b.code)
       IN  IF ~b.masked \/ (state.opcode >= 8 /\ ext # 0)
           THEN state' = CloseFrom(state, "PROTOCOL_ERROR") /\ DropBlock
           ELSE /\ state' = [state EXCEPT !.masking = TRUE, !.ext = ext,
                                !.length = IF ext = 0 THEN b.code ELSE 0,
                                !.framing = "PAYLOAD_LENGTH_EXT"]
                /\ Consume(1)
    /\ UNCHANGED <<frames, heard>>

PayloadLimit == 32 * 1024 * 1024

\* What the length comes to with n bytes more of it.
LengthAfter(n) ==
    LET length[i \in 0..n] ==
            IF i = 0 THEN state.length ELSE length[i - 1] * 256 + Wire(decoded + i).digit
    IN  length[n]

\* As many bytes of a longer length as the block has; a length of one byte is
\* only looked at.
LengthExt ==
    LET n == Min({state.ext, Left})
    IN  /\ state.framing = "PAYLOAD_LENGTH_EXT" /\ Left > 0
        /\ IF n = state.ext /\ LengthAfter(n) > PayloadLimit
           THEN state' = CloseFrom(state, "TOO_LARGE") /\ DropBlock
           ELSE /\ state' = [state EXCEPT !.length = LengthAfter(n), !.ext = @ - n,
                                !.framing = IF n = state.ext THEN "MASK" ELSE @]
                /\ Consume(n)
        /\ UNCHANGED <<frames, heard>>

\* The same for the mask, which is no mask when it is 0.
MaskBytes ==
    LET n == Min({4 - state.index, Left})
    IN  /\ state.framing = "MASK" /\ Left > 0
        /\ state' = IF state.index + n < 4 THEN [state EXCEPT !.index = @ + n]
                    ELSE [state EXCEPT !.index = 0, !.offset = 0, !.masking = ~next.zero,
                                       !.framing = "APPLICATION_DATA"]
        /\ Consume(n)
        /\ UNCHANGED <<frames, heard>>

\* The memory for the payload cannot be had.
OutOfMemory ==
    /\ "memory" \in Faults
    /\ state.framing = "APPLICATION_DATA" /\ state.offset = 0 /\ state.length > 0
    /\ state' = CloseFrom(state, "INTERNAL_ERROR")
    /\ frames' = [frames EXCEPT ![state.frame].data = <<>>]
    /\ DropBlock
    /\ UNCHANGED heard

\* MUTANT of Unmasked: the place in the mask starts again with every block.
UnmaskedAnew(i) == IF state.masking /\ Wire(decoded + i).key # (i - 1) % 4 THEN 0
                   ELSE Wire(decoded + i).byte

\* Byte i of the block without its mask, which takes the right place in it.
Unmasked(i) ==
    IF state.masking /\ Wire(decoded + i).key # (state.offset + i - 1) % 4 THEN 0 ELSE Wire(decoded + i).byte

\* What there is of the payload of the frame.
Chunk == [i \in 1..Min({state.length, Left}) |-> Unmasked(i)]
Data == frames[state.frame].data \o Chunk
Checked == IF state.opcode = Text THEN Utf8After(frames[state.frame].utf8, Chunk) ELSE "S0"

Invalid == state.opcode = Text /\ Checked = "ER"
Complete == Len(Chunk) = state.length

\* Some of the payload, not all of it, and no fault in it.
Payload ==
    /\ state.framing = "APPLICATION_DATA" /\ Chunk # <<>>
    /\ ~Complete /\ ~Invalid
    /\ state' = [state EXCEPT !.length = @ - Len(Chunk), !.offset = @ + Len(Chunk)]
    /\ frames' = [frames EXCEPT ![state.frame].data = Data, ![state.frame].utf8 = Checked]
    /\ Consume(Len(Chunk))
    /\ UNCHANGED heard

\* A frame that ends the session: no UTF-8, an opcode nobody knows, or CLOSE.
FrameCloses ==
    LET why == CASE Invalid \/ (Complete /\ state.opcode = Text /\ state.fin /\ Checked # "S0")
                        -> "INVALID_UTF8"
                 [] ~Invalid /\ Complete /\ state.opcode = CloseOp -> "OK"
                 [] ~Invalid /\ Complete
                        /\ state.opcode \notin {Text, Binary, CloseOp, PingOp, PongOp}
                        -> "PROTOCOL_ERROR"
                 [] OTHER -> "none"
    IN  /\ state.framing = "APPLICATION_DATA"
        /\ why # "none"
        /\ state' = CloseFrom(state, why)
        /\ DropBlock
        /\ UNCHANGED <<frames, heard>>

Ended == [state EXCEPT !.framing = "START", !.length = 0]

\* A frame of a message.  The last one sends the message, unless it is empty:
\* netx_tcp_write, which does nothing when the connection is known to be closed;
\* its result is not looked at.
MessageFrame(connected, up) ==
    /\ state.framing = "APPLICATION_DATA" /\ Complete /\ ~Invalid
    /\ \/ state.opcode = Text /\ (state.fin => Checked = "S0")
       \/ state.opcode = Binary
    /\ heard' = IF state.fin /\ Data # <<>> /\ connected /\ up THEN Append(heard, Data) ELSE heard
    /\ state' = Ended
    /\ frames' = [frames EXCEPT ![state.frame].data = IF state.fin THEN <<>> ELSE Data,
                                ![state.frame].utf8 = Checked]
    /\ Consume(Len(Chunk))

\* MUTANT of ControlFrame: the payload stays where it is.
ControlFrameKept(op) ==
    /\ state.framing = "APPLICATION_DATA" /\ Complete
    /\ state.opcode = op
    /\ state' = Ended
    /\ frames' = [frames EXCEPT ![state.frame].data = Data]
    /\ Consume(Len(Chunk))
    /\ UNCHANGED heard

\* A PING or a PONG.  The caller answers a PING with its payload.
ControlFrame(op) ==
    /\ state.framing = "APPLICATION_DATA" /\ Complete
    /\ state.opcode = op
    /\ state' = Ended
    /\ frames' = [frames EXCEPT ![state.frame].data = <<>>]
    /\ Consume(Len(Chunk))
    /\ UNCHANGED heard
=============================================================================
