----------------------------- MODULE WebSocket -----------------------------
(***************************************************************************)
(* A WebSocket: mg_websocket_connection and mg_websocket_disconnect with   *)
(* their two threads.  The one that served the request decodes what the    *)
(* client sends (mg_websocket_data_framing); the other passes what the DB  *)
(* Server sends to the client (mg_websocket_dbserver_read).  Both write to *)
(* the client, without a lock.  What reaches it is modelled for PONGs only.*)
(***************************************************************************)
EXTENDS WsFrames, SequencesExt

CONSTANT MaxSent  \* how often the DB Server sends something

ASSUME WebSocketAssumption == MaxSent \in Nat

VARIABLES
    framer,     \* where the thread of the request is
    reader,     \* where the other thread is
    out,        \* the frame the thread of the request is about to write
    answer,     \* the type of that of the other thread
    closing,    \* pwsock->closing
    connected,  \* pcon->connected
    pipe,       \* pcon->int_pipe: "none", "open", "exit" (written to) or "closed"
    dbUp,       \* the DB Server has not closed its side
    sent,       \* how often it has sent something
    unread,     \* and how much of that is still to be read
    pongs       \* history: the payloads of the PONGs the client has been sent

session == <<closing, connected, pipe>>
db == <<dbUp, sent, unread>>
vars == <<client, left, reading, decoding, framer, reader, out, answer, session, db, pongs>>

NoFrame == [type |-> "none", data |-> <<>>]
Out(type, data) == [type |-> type, data |-> data]

FramerStages == {"start", "read", "decode", "check", "header", "payload", "release", "signal",
                 "join", "leave", "crashed", "done"}
ReaderStages == {"none", "read", "check", "write", "ended"}

Init ==
    /\ host \in Hosts /\ stream \in Streams
    /\ \E n \in Lost : arrived = Max({0, Len(Wires[stream][Len(stream)]) - n})
    /\ left = FALSE
    /\ InitDecoder
    /\ framer = "start" /\ reader = "none"
    /\ out = NoFrame /\ answer = "none"
    /\ closing = FALSE /\ connected = TRUE /\ pipe = "none"
    /\ dbUp = TRUE /\ sent = 0 /\ unread = 0
    /\ pongs = <<>>

---------------------------------------------------------------------------
(* mg_websocket_connection, mg_websocket_data_framing                      *)

\* The DB Server accepts: a pipe, a thread, and on with the frames.
Connect ==
    /\ framer = "start"
    /\ pipe' = "open" /\ reader' = "read" /\ framer' = "read"
    /\ UNCHANGED <<client, left, reading, decoding, out, answer, closing, connected, db, pongs>>

\* It does not, or there is no pipe: mg_websocket_disconnect all the same.
Refused ==
    /\ framer = "start" /\ "refuse" \in Faults
    /\ framer' = "release"
    /\ UNCHANGED <<client, left, reading, decoding, reader, out, answer, session, db, pongs>>

\* mg_websocket_frame_read: a block, and after it the next one.
ReadFrames ==
    /\ framer = "read" /\ ReadBlock
    /\ framer' = "decode"
    /\ UNCHANGED <<client, left, decoding, reader, out, answer, session, db, pongs>>

\* The server-side closing handshake, with two bytes of status.
SayClose == out' = Out("CLOSE", <<0, 0>>) /\ framer' = "check"

ReadFails ==
    /\ framer = "read" /\ ReadNothing
    /\ state' = CloseFrom(state, "PROTOCOL_ERROR")
    /\ SayClose
    /\ UNCHANGED <<client, left, reading, decoded, frames, heard, reader, answer, session, db,
                   pongs>>

Decode ==
    /\ framer = "decode"
    /\ \/ Start \/ LengthByte \/ LengthExt \/ MaskBytes \/ OutOfMemory
       \/ Payload \/ FrameCloses \/ MessageFrame(connected, dbUp) \/ ControlFrame(PongOp)
    /\ UNCHANGED <<client, left, reading, framer, reader, out, answer, session, db, pongs>>

Ping ==
    /\ framer = "decode" /\ ControlFrame(PingOp)
    /\ out' = Out("PONG", Data) /\ framer' = "check"
    /\ UNCHANGED <<client, left, reading, reader, answer, session, db, pongs>>

\* The block is used up: the next one, unless the session is to be closed.
BlockDone ==
    /\ framer = "decode" /\ Left = 0
    /\ ~(state.framing = "APPLICATION_DATA" /\ state.length = 0)
    /\ IF state.framing = "CLOSE" THEN SayClose ELSE framer' = "read" /\ UNCHANGED out
    /\ UNCHANGED <<client, left, reading, decoding, reader, answer, session, db, pongs>>

---------------------------------------------------------------------------
(* mg_websocket_write_block, the same in both threads: is the session being*)
(* closed?  No: write a header, which closes it when it is that of a CLOSE,*)
(* and then the payload.                                                   *)

Thread == <<client, left, reading, decoding>>

\* The frame is written, or there is no need to.
FramerGoesOn ==
    /\ framer' = IF state.framing = "CLOSE" THEN "release" ELSE "decode"
    /\ out' = NoFrame

FramerChecks ==
    /\ framer = "check"
    /\ IF closing THEN FramerGoesOn ELSE framer' = "header" /\ UNCHANGED out
    /\ UNCHANGED <<Thread, reader, answer, session, db, pongs>>

FramerHeader ==
    /\ framer = "header"
    /\ closing' = (closing \/ out.type = "CLOSE")
    /\ IF out.data = <<>> THEN FramerGoesOn ELSE framer' = "payload" /\ UNCHANGED out
    /\ UNCHANGED <<Thread, reader, answer, connected, pipe, db, pongs>>

\* A client that has left receives nothing more.
FramerPayload ==
    /\ framer = "payload"
    /\ pongs' = IF out.type = "PONG" /\ ~left THEN Append(pongs, out.data) ELSE pongs
    /\ FramerGoesOn
    /\ UNCHANGED <<Thread, reader, answer, session, db>>

\* The thread that reads from the DB Server ends after its CLOSE.
ReaderGoesOn ==
    /\ reader' = IF answer = "CLOSE" THEN "ended" ELSE "read"
    /\ answer' = "none"

ReaderChecks ==
    /\ reader = "check"
    /\ IF closing THEN ReaderGoesOn ELSE reader' = "write" /\ UNCHANGED answer
    /\ UNCHANGED <<Thread, framer, out, session, db, pongs>>

ReaderWrites ==
    /\ reader = "write"
    /\ closing' = (closing \/ answer = "CLOSE")
    /\ ReaderGoesOn
    /\ UNCHANGED <<Thread, framer, out, connected, pipe, db, pongs>>

---------------------------------------------------------------------------
(* mg_websocket_dbserver_read; a timeout only makes it read again          *)

Says(frame) == answer' = frame /\ reader' = "check"

ReadData ==
    /\ reader = "read" /\ pipe = "open" /\ connected /\ unread > 0
    /\ unread' = unread - 1
    /\ Says("DATA")
    /\ UNCHANGED <<Thread, framer, out, session, dbUp, sent, pongs>>

\* MUTANT of ReadEof: the end of the DB Server is not passed on.
ReadEofSilent ==
    /\ reader = "read" /\ pipe = "open" /\ connected /\ unread = 0 /\ ~dbUp
    /\ connected' = FALSE /\ reader' = "ended"
    /\ UNCHANGED <<Thread, framer, out, answer, closing, pipe, db, pongs>>

\* NETX_READ_EOF, or NETX_READ_ERROR when the connection breaks.
ReadEof ==
    /\ reader = "read" /\ pipe = "open" /\ connected /\ unread = 0 /\ ~dbUp
    /\ connected' = FALSE
    /\ Says("CLOSE")
    /\ UNCHANGED <<Thread, framer, out, closing, pipe, db, pongs>>

\* MUTANT of ReadExit: the pipe is only looked at while there is a connection.
ReadExitConnected ==
    /\ reader = "read" /\ pipe = "exit" /\ connected
    /\ Says("CLOSE")
    /\ UNCHANGED <<Thread, framer, out, session, db, pongs>>

\* Told to exit: the pipe is looked at before the socket.
ReadExit ==
    /\ reader = "read" /\ pipe = "exit"
    /\ Says("CLOSE")
    /\ UNCHANGED <<Thread, framer, out, session, db, pongs>>

\* The socket is closed under its select.
ReadClosed ==
    /\ reader = "read" /\ pipe = "open" /\ framer = "signal"
    /\ Says("CLOSE")
    /\ UNCHANGED <<Thread, framer, out, session, db, pongs>>

---------------------------------------------------------------------------
(* mg_websocket_disconnect                                                 *)

\* The connection is closed and given back to the pool.
Release ==
    /\ framer = "release"
    /\ connected' = FALSE
    /\ framer' = "signal"
    /\ UNCHANGED <<Thread, reader, out, answer, closing, pipe, db, pongs>>

\* "exit" into the pipe, which is descriptor 0 when it was never made.
Signal ==
    /\ framer = "signal"
    /\ pipe' = IF pipe = "open" THEN "exit" ELSE pipe
    /\ framer' = "join"
    /\ UNCHANGED <<Thread, reader, out, answer, closing, connected, db, pongs>>

\* pthread_join has returned.
Joined == reader \in {"none", "ended"}

Join ==
    /\ framer = "join" /\ Joined
    /\ framer' = "leave"
    /\ UNCHANGED <<Thread, reader, out, answer, session, db, pongs>>

\* Of a thread that was never created: undefined, and it may be the end of the
\* process.
JoinNothing ==
    /\ framer = "join" /\ reader = "none"
    /\ framer' = "crashed"
    /\ UNCHANGED <<Thread, reader, out, answer, session, db, pongs>>

Leave ==
    /\ framer = "leave"
    /\ pipe' = "closed" /\ framer' = "done"
    /\ UNCHANGED <<Thread, reader, out, answer, closing, connected, db, pongs>>

---------------------------------------------------------------------------
(* The client and the DB Server                                            *)

\* The thread of the request is through with the client and the DB Server.
Over == framer \in {"release", "signal", "join", "leave", "crashed", "done"}

ClientLeaves ==
    /\ ~left /\ framer \notin {"done", "crashed"}
    /\ left' = TRUE
    /\ UNCHANGED <<client, reading, decoding, framer, reader, out, answer, session, db, pongs>>

DbSends ==
    /\ dbUp /\ sent < MaxSent /\ reader # "ended"
    /\ sent' = sent + 1 /\ unread' = unread + 1
    /\ UNCHANGED <<Thread, framer, reader, out, answer, session, dbUp, pongs>>

DbLeaves ==
    /\ dbUp /\ "reset" \in Faults /\ ~Over
    /\ dbUp' = FALSE
    /\ \E n \in {0, unread} : unread' = n
    /\ UNCHANGED <<Thread, framer, reader, out, answer, session, sent, pongs>>

Framer ==
    Connect \/ Refused \/ ReadFrames \/ ReadFails \/ Decode \/ Ping \/ BlockDone
    \/ FramerChecks \/ FramerHeader \/ FramerPayload
    \/ Release \/ Signal \/ Join \/ JoinNothing \/ Leave

Reader ==
    ReadData \/ ReadEof \/ ReadExit \/ ReadClosed
    \/ ReaderChecks \/ ReaderWrites

Next == Framer \/ Reader \/ ClientLeaves \/ DbSends \/ DbLeaves

\* Each thread goes on when it can; nobody has to send or to leave.
Spec == Init /\ [][Next]_vars /\ WF_vars(Framer) /\ WF_vars(Reader)

---------------------------------------------------------------------------
(* What was said: the meaning of the stream, frame by frame                *)

\* A UTF-8 character, by the ranges of RFC 3629, and a sequence of them: it can be
\* cut at some places into characters.
Character(b) ==
    /\ \A j \in 2..Len(b) : b[j] \in 128..191
    /\ \/ Len(b) = 1 /\ b[1] < 128
       \/ Len(b) = 2 /\ b[1] \in 194..223
       \/ Len(b) = 3 /\ b[1] \in 224..239 /\ (b[1] = 224 => b[2] > 159) /\ (b[1] = 237 => b[2] < 160)
       \/ Len(b) = 4 /\ b[1] \in 240..244 /\ (b[1] = 240 => b[2] > 143) /\ (b[1] = 244 => b[2] < 144)

IsText(bytes) ==
    \E ends \in SUBSET (0..Len(bytes)) :
        /\ {0, Len(bytes)} \subseteq ends
        /\ \A e \in ends \ {0} :
              \E n \in 1..4 : e - n \in ends /\ Character(SubSeq(bytes, e - n + 1, e))

\* part is what there is of a message that is not complete yet.
Silence == [on |-> TRUE, inside |-> FALSE, op |-> 0, part |-> <<>>, messages |-> <<>>,
            pings |-> <<>>, bye |-> FALSE]

Forbidden(f, c) ==
    \/ f.rsv \/ ~f.masked \/ f.huge
    \/ f.op \notin {0, Text, Binary, CloseOp, PingOp, PongOp}
    \/ f.op >= 8 /\ (~f.fin \/ f.form # 0)
    \/ f.op < 8 /\ c.inside # (f.op = 0)

\* The conversation after one more frame.  It ends at a frame that is not
\* allowed, at a text that is none, and at CLOSE.
Meaning(f, c) ==
    LET data == c.part \o f.data
        op == IF f.op = 0 THEN c.op ELSE f.op
    IN  CASE ~c.on -> c
          [] c.on /\ Forbidden(f, c) -> [c EXCEPT !.on = FALSE]
          [] c.on /\ ~Forbidden(f, c) /\ f.op = CloseOp -> [c EXCEPT !.on = FALSE, !.bye = TRUE]
          [] c.on /\ ~Forbidden(f, c) /\ f.op = PingOp ->
                [c EXCEPT !.pings = IF f.data = <<>> THEN @ ELSE Append(@, f.data)]
          [] c.on /\ ~Forbidden(f, c) /\ f.op = PongOp -> c
          [] c.on /\ ~Forbidden(f, c) /\ f.op < 8 /\ ~f.fin ->
                [c EXCEPT !.inside = TRUE, !.op = op, !.part = data]
          [] c.on /\ ~Forbidden(f, c) /\ f.op < 8 /\ f.fin ->
                IF op = Text /\ ~IsText(data) THEN [c EXCEPT !.on = FALSE]
                ELSE [c EXCEPT !.inside = FALSE, !.part = <<>>,
                               !.messages = IF data = <<>> THEN @ ELSE Append(@, data)]

Meanings ==
    [s \in Streams |->
        LET upTo[i \in 0..Len(s)] == IF i = 0 THEN Silence ELSE Meaning(s[i], upTo[i - 1])
        IN  upTo]

\* What has arrived of the stream means what its whole frames mean.
Told == Meanings[stream][Max({i \in 0..Len(stream) : Len(Wires[stream][i]) <= arrived})]

---------------------------------------------------------------------------
(* Properties                                                              *)

\* Types, and the decoder reads every byte as what it is: it never takes a byte
\* of payload for the head of a frame.
TypeOK ==
    /\ host \in Hosts /\ stream \in Streams /\ left \in BOOLEAN
    /\ taken \in 0..arrived /\ decoded \in 0..taken /\ remaining_length \in Nat
    /\ framer \in FramerStages /\ reader \in ReaderStages
    /\ state.length \in Nat /\ state.index \in 0..3 /\ state.ext \in 0..8
    /\ frames.message.data \in Seq(Byte) /\ frames.control.data \in Seq(Byte)
    /\ closing \in BOOLEAN /\ connected \in BOOLEAN
    /\ pipe \in {"none", "open", "exit", "closed"}
    /\ dbUp \in BOOLEAN /\ sent \in 0..MaxSent /\ unread \in 0..sent
    /\ Left > 0 => next.is \in
         CASE state.framing = "START" -> {"first"}
           [] state.framing = "PAYLOAD_LENGTH" -> {"length"}
           [] state.framing = "PAYLOAD_LENGTH_EXT" -> {IF state.ext > 0 THEN "ext" ELSE "mask"}
           [] state.framing = "MASK" -> {"mask"}
           [] state.framing = "APPLICATION_DATA" -> IF Complete THEN {"data", "first"} ELSE {"data"}

\* The DB Server hears the messages of the client, however the bytes are cut
\* into blocks and whatever control frames come between their parts, and all of
\* them before the session ends, unless it was gone or there was no memory.
Messages == INSTANCE WsMessages WITH
    said <- Told.messages,
    over <- IF ~Over THEN "no"
            ELSE IF dbUp /\ reader # "none" /\ state.status # "INTERNAL_ERROR" THEN "whole"
            ELSE "cut"

ImplementsMessages == Messages!Spec

\* The PONGs are the answers to the PINGs, in order: each has the payload of its
\* own, also in the middle of a message.  Those without a payload are not counted.
PongsMatch == IsPrefix(pongs, Told.pings)

\* A session the client leaves, or closes, comes to its end: the other thread is
\* found and stopped wherever it is.
SessionEnds == (left \/ Told.bye) ~> framer \in {"done", "crashed"}

\* When the DB Server goes away the client is told, even if it never says a word.
EndTold == ~dbUp ~> (closing \/ framer \in {"done", "crashed"})
=============================================================================
