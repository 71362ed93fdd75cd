---------------------------- MODULE AnswerStream ----------------------------
(***************************************************************************)
(* The way of an answer from the DB Server to the client, over a network   *)
(* connection that is kept for the next request: the reading half of       *)
(* netx_tcp_command, netx_tcp_read_stream, and what mg_web_process does    *)
(* with the result (choice of the HTTP framing, the copying loop, the      *)
(* server-sent events, the fate of the connection).                        *)
(*                                                                         *)
(* What RequestDispatch says in one step, ExecuteOk or NoAnswer, is told   *)
(* here byte by byte for one thread.  A byte is a token that says what it  *)
(* is; the heads (10 bytes before an answer, 4 before a block) are one     *)
(* token each.  The HTTP header of the answer travels in its head.         *)
(***************************************************************************)
EXTENDS Naturals, SequencesExt

CONSTANTS
    Answers,     \* what the DB Server may answer, see AnswerRecord
    Room,        \* len_alloc - DBX_HEADER_SIZE: bytes that fill a buffer
    Slack,       \* DBX_HEADER_SIZE: bytes by which a block may overrun it
    MarkLen,     \* 4: bytes of the end marker, and of the head of a block
    PreLen,      \* 5: bytes before the content that response_size counts
    Chunking,    \* mg_system.chunking; 0 when it is off
    MaxClen,     \* DBX_MAXCLEN
    Width,       \* 2^32, for unsigned int
    Places,      \* 2^8, 2^16 and 2^24: what one to three bytes of a size can hold
    MaxRequests, \* requests one after the other on the connection
    Faults       \* what may go wrong: a subset of FaultKinds

\* "timeout" the DB Server is silent until a read gives up
\* "eof"     it closes the connection        "error"  it resets it
\* "memory"  mg_extend_response_memory fails "client" the browser goes away
\* "short"   a read that must fill its buffer comes back with a part of it
\* "early"   the reset, if there is any, may come before the first block of an answer
FaultKinds == {"timeout", "eof", "error", "memory", "client", "short", "early"}

\* parts: the lengths of its pieces (blocks of the block protocol, events of an
\* event stream).  clen: the application supplies a Content-Length.  broken:
\* the head of the last block is lost (README, v2.8.43e).
AnswerRecord ==
    [mode : {"plain", "block", "ascii", "sse"}, parts : Seq(Nat), clen : BOOLEAN, broken : BOOLEAN]

ASSUME AnswerStreamAssumption ==
    /\ Answers \subseteq AnswerRecord
    /\ \A a \in Answers : a.broken => a.parts # <<>> /\ Last(a.parts) > 0
    /\ {Room, Slack, MarkLen, PreLen, MaxClen, Width, MaxRequests} \subseteq Nat \ {0}
    /\ Chunking \in Nat /\ Places \subseteq Nat \ {0}
    /\ MarkLen < Room /\ MarkLen <= Slack /\ PreLen <= Room
    /\ Faults \subseteq FaultKinds

VARIABLES
    wire,       \* bytes the DB Server has sent and nobody has read
    connected,  \* pcon->connected
    eof,        \* the DB Server has closed its end
    pc,         \* where the thread is
    req, ans,   \* the request, and what the DB Server answers to it
    mode,       \* response_streamed: "plain" 0, "block" 1, "ascii" 2
    kept, buf,  \* the buffers filled so far, and the one being filled
    first,      \* the buffer is the first, which begins with the whole head
    tail,       \* pcon->stream_tail
    remaining,  \* response_remaining
    size,       \* response_size
    chunked, maxclen, \* response_chunked, response_maxclen
    distressed, \* protocol_distressed
    resent,     \* netx_tcp_command has reconnected
    framing,    \* how the client is told where the answer ends
    own,        \* wserver_chunks_response: the web server frames the answer
    clen,       \* the Content-Length announced
    out,        \* what mg_web has written of the answer
    ended,      \* ... and the last chunk of the chunked encoding
    closing,    \* close_connection
    client,     \* the browser is there
    late        \* history: a read timed out before the client was told anything

line == <<wire, connected, eof>>
buffers == <<kept, buf, first, tail>>
counts == <<remaining, size>>
flags == <<mode, chunked, maxclen, distressed>>
reply == <<framing, own, clen, out, ended>>
vars == <<line, pc, req, ans, buffers, counts, flags, resent, reply, closing, client, late>>

---------------------------------------------------------------------------
\* The bytes.  "head" begins an answer, "size" a block, "end" is the head
\* 0xffffffff and "mark" one of the four 0xff that end an ASCII stream; "junk" is
\* memory that was never received.
Kinds == {"head", "size", "end", "mark", "data", "junk"}
Byte == [kind : Kinds, req : Nat, n : Nat]
Tok(k, r, n) == [kind |-> k, req |-> r, n |-> n]

\* Where each piece of the content ends.
Ends(a) ==
    LET ends[j \in 0..Len(a.parts)] == IF j = 0 THEN 0 ELSE ends[j - 1] + a.parts[j]
    IN  ends

Total(a) == Ends(a)[Len(a.parts)]

Body(r, a) == [i \in 1..Total(a) |-> Tok("data", r, i)]
Marks(r) == [i \in 1..MarkLen |-> Tok("mark", r, 0)]
Junk(r, k) == [i \in 1..k |-> Tok("junk", r, 0)]

HeadOf(r, a, j) == IF a.broken /\ j = Len(a.parts) THEN <<>> ELSE <<Tok("size", r, a.parts[j])>>
Block(r, a, j) == SubSeq(Body(r, a), Ends(a)[j - 1] + 1, Ends(a)[j])

\* What follows the j-th block of an answer: the other blocks, and the head that
\* ends them.  Where the head of the last one is lost, the marker ends it.
After(r, a) ==
    LET after[j \in 0..Len(a.parts)] ==
            IF j = Len(a.parts) THEN IF a.broken THEN Marks(r) ELSE <<Tok("end", r, 0)>>
            ELSE HeadOf(r, a, j + 1) \o Block(r, a, j + 1) \o after[j + 1]
    IN  after

\* What the DB Server sends for request r.
Sent(r, a) ==
    <<Tok("head", r, IF a.mode = "plain" THEN PreLen + Total(a) ELSE 0)>> \o
    CASE a.mode \in {"plain", "sse"} -> Body(r, a)
      [] a.mode = "ascii"            -> Body(r, a) \o Marks(r)
      [] a.mode = "block"            -> After(r, a)[0]

Least(m, n) == IF m < n THEN m ELSE n
Taking(n) == SubSeq(wire, 1, n)
Leaving(n) == SubSeq(wire, n + 1, Len(wire))

---------------------------------------------------------------------------
Init ==
    /\ wire = <<>> /\ connected = FALSE /\ eof = FALSE
    /\ pc = "idle" /\ req = 0 /\ ans \in Answers
    /\ kept = <<>> /\ buf = <<>> /\ first = TRUE /\ tail = <<>>
    /\ remaining = 0 /\ size = 0
    /\ mode = "plain" /\ chunked = FALSE /\ maxclen = FALSE /\ distressed = FALSE
    /\ resent = FALSE
    /\ framing = "none" /\ own = FALSE /\ clen = 0 /\ out = <<>> /\ ended = FALSE
    /\ closing = FALSE /\ client = TRUE /\ late = FALSE

\* The request is sent, over the connection of the last one if it was kept.
Submit(a, w) ==
    /\ pc = "idle" /\ req < MaxRequests
    /\ req' = req + 1 /\ ans' = a
    /\ wire' = (IF connected THEN wire ELSE <<>>) \o Sent(req + 1, a)
    /\ connected' = TRUE /\ eof' = FALSE
    /\ pc' = "head"
    /\ kept' = <<>> /\ buf' = <<>> /\ first' = TRUE /\ tail' = <<>>
    /\ remaining' = 0 /\ size' = 0
    /\ mode' = "plain" /\ chunked' = FALSE /\ maxclen' = FALSE /\ distressed' = FALSE
    /\ resent' = FALSE
    /\ framing' = "none" /\ own' = w /\ clen' = 0 /\ out' = <<>> /\ ended' = FALSE
    /\ closing' = FALSE /\ client' = TRUE /\ late' = FALSE

---------------------------------------------------------------------------
(* netx_tcp_read *)

\* It takes n bytes.
Receive(n) ==
    /\ n <= Len(wire)
    /\ wire' = Leaving(n)
    /\ UNCHANGED <<connected, eof>>

\* It must return k bytes (context 1) and returns n: what came before the time
\* was up, or before the DB Server closed the connection, counts as success.
\* This is certain to happen when more is awaited than was sent.
ReceiveAll(k, n, rc) ==
    /\ n <= Least(k, Len(wire))
    /\ n < k => "short" \in Faults \/ (rc = "timeout" /\ n = Len(wire))
    /\ n < k /\ rc = "timeout" => ~eof
    /\ LET closed == n < k /\ rc = "eof" IN
       /\ wire' = IF closed THEN <<>> ELSE Leaving(n)
       /\ connected' = (connected /\ ~closed) /\ eof' = (eof \/ closed)
    /\ late' = (late \/ (n < k /\ rc = "timeout" /\ framing = "none"))

\* The k bytes of the buffer are all taken for data.
Filled(k, n) == Taking(n) \o Junk(req, k - n)

\* It returns nothing: the time is up, the DB Server has closed the connection,
\* or reset it.  A timeout is certain when more is awaited than was sent.
NoData(rc, wanted) ==
    CASE rc = "timeout" -> /\ ~eof /\ ("timeout" \in Faults \/ wanted > Len(wire))
                           /\ UNCHANGED line
      [] rc = "eof"     -> /\ eof \/ "eof" \in Faults
                           /\ wire' = <<>> /\ connected' = FALSE /\ eof' = TRUE
      [] rc = "error"   -> /\ ~eof /\ "error" \in Faults
                           /\ wire' = <<>> /\ connected' = FALSE /\ eof' = TRUE

Failures == {"timeout", "eof", "error"}

NoteLate(rc) == late' = (late \/ (rc = "timeout" /\ framing = "none"))

---------------------------------------------------------------------------
(* netx_tcp_command, once the request is sent *)

WholeHead ==
    /\ Receive(1)
    /\ \/ /\ ans.mode \in {"plain", "sse"} /\ pc' = "body"
          /\ size' = Head(wire).n
          /\ UNCHANGED mode
       \/ /\ ans.mode = "block" /\ mode' = "block" /\ pc' = "blockHead"
          /\ size' = PreLen
       \/ /\ ans.mode = "ascii" /\ mode' = "ascii" /\ pc' = "ascii"
          /\ size' = PreLen
    /\ UNCHANGED <<first, late>>

\* A part of the ten bytes, which netx_tcp_read counts as success (9835).  The others are those
\* of the request, in the same memory: "server=" and the head of its block.  So the high bytes
\* of the size are zero, and the byte of the mode is a letter.  What has not come stays
\* on the wire, or is lost with the connection.
PartOfHead ==
    /\ "short" \in Faults
    /\ \/ UNCHANGED line /\ NoteLate("timeout")
       \/ wire' = <<>> /\ connected' = FALSE /\ eof' = TRUE /\ UNCHANGED late
    /\ size' \in {Head(wire).n} \cup {Head(wire).n % p : p \in Places}
    /\ pc' = "body" /\ first' = FALSE /\ UNCHANGED mode

ReadHead ==
    /\ pc = "head" /\ wire # <<>> /\ Head(wire).kind = "head"
    /\ WholeHead \/ PartOfHead
    /\ UNCHANGED <<req, ans, kept, buf, tail, remaining, chunked, maxclen, distressed, resent, reply,
                   closing, client>>

HeadFails(rc) ==
    /\ pc = "head" /\ NoData(rc, 1)
    /\ rc = "error" => resent
    /\ pc' = "failed" /\ NoteLate(rc)
    /\ UNCHANGED <<req, ans, buffers, counts, flags, resent, reply, closing, client>>

\* Any other error: connect again and send the request again, once.
Resend ==
    /\ pc = "head" /\ ~resent /\ ~eof /\ "error" \in Faults
    /\ resent' = TRUE
    /\ wire' = Sent(req, ans)
    /\ UNCHANGED <<connected, eof, pc, req, ans, buffers, counts, flags, reply, closing, client, late>>

\* The rest of an answer that is not streamed, or what the buffer takes of it.
\* What the read returns is not looked at.  A size below PreLen, which only a part of a head
\* can leave, asks for a negative number of bytes: the read takes all it finds, and
\* the answer is taken to be empty.
BodyLength ==
    CASE size > Room               -> Room
      [] size \in PreLen..Room       -> size - PreLen
      [] size \in 1..(PreLen - 1)    -> Len(wire) + 1
      [] size = 0                    -> 0

RestOfBody == IF size > Room THEN (Width + size - (BodyLength + PreLen)) % Width ELSE 0

ReadBody(n, rc) ==
    /\ pc = "body" /\ ReceiveAll(BodyLength, n, rc)
    /\ buf' = IF size < PreLen THEN <<>> ELSE Filled(BodyLength, n)
    /\ remaining' = RestOfBody
    /\ pc' = "frame"
    /\ UNCHANGED <<req, ans, kept, first, tail, size, flags, resent, reply, closing, client>>

---------------------------------------------------------------------------
(* netx_tcp_read_stream *)

\* It returns to netx_tcp_command the first time, to the copying loop later.
Returned == IF framing = "none" THEN "frame" ELSE "write"

\* An error is reported by netx_tcp_command, and ends the copying loop.
StreamFails(rc) ==
    /\ NoData(rc, 1) /\ NoteLate(rc)
    /\ IF framing = "none" THEN pc' = "failed" /\ UNCHANGED closing
       ELSE pc' = "exit" /\ closing' = TRUE

\* --- ASCII mode: one read, of whatever has come, into the space that is left.
\* With no space left (a broken block has overrun the buffer) the size that
\* is asked for is negative, and the read takes all it finds.
Space == IF Len(buf) > Room THEN Len(wire) ELSE Room - Len(buf)

EndsInMark(s) ==
    /\ first \/ Len(s) > MarkLen
    /\ Len(s) >= MarkLen
    /\ \A i \in (Len(s) - MarkLen + 1)..Len(s) : s[i].kind = "mark"

Cut(s) == SubSeq(s, 1, Len(s) - MarkLen)

AsciiRead(n) ==
    /\ pc = "ascii" /\ n <= Space /\ Receive(n)
    /\ LET got == buf \o Taking(n) IN
       IF EndsInMark(got)
       THEN /\ buf' = (IF distressed THEN got ELSE Cut(got))
            /\ size' = (size + n) - (IF distressed THEN 0 ELSE MarkLen)
            /\ remaining' = 0 /\ tail' = <<>>
            /\ pc' = Returned
       ELSE /\ size' = size + n
            /\ IF Len(got) = Room
               THEN /\ buf' = Cut(got)
                    /\ tail' = SubSeq(got, Len(got) - MarkLen + 1, Len(got))
                    /\ remaining' = MarkLen
                    /\ pc' = "full"
               ELSE buf' = got /\ UNCHANGED <<tail, remaining, pc>>
    /\ UNCHANGED <<req, ans, kept, first, flags, resent, reply, closing, client, late>>

\* The buffer was full before the first read: a broken block has filled it.
AsciiNoSpace ==
    /\ pc = "ascii" /\ Len(buf) = Room
    /\ buf' = Cut(buf)
    /\ tail' = SubSeq(buf, Len(buf) - MarkLen + 1, Len(buf))
    /\ remaining' = MarkLen
    /\ pc' = "full"
    /\ UNCHANGED <<line, req, ans, kept, first, size, flags, resent, reply, closing, client, late>>

\* The same for a stream in distress: the end that CMT54 makes of five seconds
\* of silence (9258-9261, 9296) is forestalled by the test of CMT55 (9290).
AsciiFails(rc) ==
    /\ pc = "ascii" /\ Len(buf) # Room
    /\ StreamFails(rc)
    /\ UNCHANGED <<req, ans, buffers, counts, flags, resent, reply, client>>

\* --- block mode: the head of the next block, the first time or in the loop.
\* Its four bytes come together: a part of them, which 9352 and 9429 take for the head as
\* 9104 does, is left out.
AtHead == pc \in {"blockHead", "nextHead"}

HeadOfBlock ==
    /\ AtHead /\ Receive(1) /\ Head(wire).kind = "size"
    /\ remaining' = Head(wire).n
    /\ pc' = IF pc = "nextHead" /\ Len(buf) + remaining' > Room THEN "full" ELSE "block"
    /\ UNCHANGED <<req, ans, buffers, size, flags, resent, reply, closing, client, late>>

EndOfBlocks ==
    /\ AtHead /\ Receive(1) /\ Head(wire).kind = "end"
    /\ remaining' = 0 /\ pc' = Returned
    /\ UNCHANGED <<req, ans, buffers, size, flags, resent, reply, closing, client, late>>

\* Four bytes that cannot be a head are data: on as an ASCII stream (CMT54).
HeadMissing ==
    /\ AtHead /\ Receive(MarkLen) /\ Head(wire).kind = "data"
    /\ buf' = buf \o Taking(MarkLen)
    /\ size' = size + MarkLen
    /\ remaining' = 0 /\ tail' = <<>>
    /\ distressed' = TRUE /\ mode' = "ascii" /\ pc' = "ascii"
    /\ UNCHANGED <<req, ans, kept, first, chunked, maxclen, resent, reply, closing, client, late>>

\* A reset before the first block is not looked for (9353): the head, still zero,
\* is then the empty block that ends an answer (9387).
HeadOfBlockFails(rc) ==
    /\ AtHead
    /\ IF pc = "blockHead" /\ rc = "error"
       THEN /\ "early" \in Faults /\ NoData(rc, 1)
            /\ pc' = "frame" /\ UNCHANGED <<closing, late>>
       ELSE StreamFails(rc)
    /\ UNCHANGED <<req, ans, buffers, counts, flags, resent, reply, client>>

\* MUTANT of BlockGet: a bufferful, whatever is left of the block.
BlockGetUncapped == Room + Slack - Len(buf)

\* The data of a block, up to the end of the buffer.
BlockGet == Least(remaining, Room + Slack - Len(buf))

AfterBlock(got, left) ==
    /\ buf' = got
    /\ size' = size + BlockGet
    /\ remaining' = left
    /\ pc' = IF left = 0 THEN "nextHead" ELSE IF Len(got) + left > Room THEN "full" ELSE "block"

BlockRead(n, rc) ==
    /\ pc = "block" /\ ReceiveAll(BlockGet, n, rc)
    /\ n > 0 \/ BlockGet = 0
    /\ AfterBlock(buf \o Filled(BlockGet, n), remaining - BlockGet)
    /\ UNCHANGED <<req, ans, kept, first, tail, flags, resent, reply, closing, client>>

BlockReadFails(rc) ==
    /\ pc = "block" /\ StreamFails(rc)
    /\ UNCHANGED <<req, ans, buffers, counts, flags, resent, reply, client>>

\* --- either mode: the buffer is full.
MayChunk == Chunking # 0 /\ (size > Chunking \/ chunked)

StartChunking ==
    /\ pc = "full" /\ MayChunk
    /\ chunked' = TRUE /\ pc' = Returned
    /\ UNCHANGED <<line, req, ans, buffers, counts, mode, maxclen, distressed, resent, reply,
                   closing, client, late>>

StopCounting ==
    /\ pc = "full" /\ ~MayChunk /\ size > MaxClen
    /\ maxclen' = TRUE /\ pc' = Returned
    /\ UNCHANGED <<line, req, ans, buffers, counts, mode, chunked, distressed, resent, reply,
                   closing, client, late>>

\* mg_extend_response_memory; an ASCII stream goes on with what was kept back.
Extend ==
    /\ pc = "full" /\ ~MayChunk /\ size <= MaxClen
    /\ kept' = Append(kept, buf) /\ buf' = tail /\ tail' = <<>> /\ first' = FALSE
    /\ remaining' = IF mode = "ascii" THEN 0 ELSE remaining
    /\ pc' = mode
    /\ UNCHANGED <<line, req, ans, size, flags, resent, reply, closing, client, late>>

ExtendFails ==
    /\ pc = "full" /\ ~MayChunk /\ size <= MaxClen /\ "memory" \in Faults
    /\ IF framing = "none" THEN pc' = "failed" /\ UNCHANGED closing
       ELSE pc' = "exit" /\ closing' = TRUE
    /\ UNCHANGED <<line, req, ans, buffers, counts, flags, resent, reply, client, late>>

---------------------------------------------------------------------------
(* mg_web_process: the HTTP header, and the fate of the connection *)

\* The error page, and the end of the connection that did not answer.
Failed ==
    /\ pc = "failed"
    /\ framing' = "error" /\ own' = TRUE /\ clen' = 0
    /\ remaining' = 0 /\ buf' = <<>> /\ kept' = <<>>
    /\ wire' = <<>> /\ connected' = FALSE
    /\ closing' = TRUE /\ pc' = "exit"
    /\ UNCHANGED <<eof, req, ans, first, tail, size, flags, resent, out, ended, client, late>>

\* Something is left to be copied when the header is written.
More == mode # "plain" /\ remaining > 0

\* The header of the application, which comes with its first block and after the whole
\* head, has a length.
Supplied == ans.clen /\ ~(mode = "block" /\ eof) /\ (mode = "plain" => first)

\* A Content-Length of the application, or a response of the web server's own
\* making, switch the chunked encoding off.
Frame ==
    /\ pc = "frame"
    /\ framing' = CASE ans.mode = "sse"   -> "sse"
                    [] ans.mode # "sse" /\ Supplied -> "server"
                    [] ans.mode # "sse" /\ ~Supplied /\ More /\ chunked ->
                           IF own THEN "webserver" ELSE "chunked"
                    [] ans.mode # "sse" /\ ~Supplied /\ More /\ ~chunked /\ maxclen -> "close"
                    [] OTHER -> "length"
    /\ own' = (own \/ framing' \in {"sse", "server", "close"})
    /\ clen' = CASE framing' = "length" -> IF size > PreLen THEN size - PreLen ELSE 0
                 [] framing' = "server" -> Total(ans)
                 [] OTHER -> 0
    /\ mode' = IF framing' = "length" THEN "plain" ELSE mode
    /\ pc' = IF framing' = "sse" THEN "sse" ELSE "open"
    /\ UNCHANGED <<line, req, ans, buffers, counts, chunked, maxclen, distressed, resent, out, ended,
                   closing, client, late>>

\* One call or several of mg_client_write; the browser may be gone.
Deliver(bytes) ==
    \/ /\ out' = out \o bytes
       /\ ended' = (ended \/ (framing = "chunked" /\ remaining = 0))
       /\ pc' = IF remaining > 0 THEN "rest" ELSE "exit"
       /\ UNCHANGED closing
    \/ /\ ~client
       /\ closing' = TRUE /\ pc' = "exit"
       /\ UNCHANGED <<out, ended>>

\* The first buffer and those that extend it: all of them, or nothing when the
\* first one holds no more than the header of the application (get = 0).
Chain == Append(kept, buf)

Open ==
    /\ pc = "open"
    /\ IF Chain[1] = <<>>
       THEN pc' = (IF remaining > 0 THEN "rest" ELSE "exit") /\ UNCHANGED <<out, ended, closing>>
       ELSE Deliver(FlattenSeq(Chain))
    /\ kept' = <<>> /\ buf' = <<>>
    /\ UNCHANGED <<line, req, ans, first, tail, counts, flags, resent, framing, own, clen,
                   client, late>>

\* Later, the one buffer of each round.  The chunk that empties the stream
\* carries the last chunk with it.
Write ==
    /\ pc = "write"
    /\ Deliver(buf)
    /\ buf' = <<>>
    /\ UNCHANGED <<line, req, ans, kept, first, tail, counts, flags, resent, framing, own, clen,
                   client, late>>

\* MUTANT of NextRound: what was kept back of the last round is forgotten.
NextRoundTailLost ==
    /\ pc = "rest" /\ mode # "plain"
    /\ first' = FALSE
    /\ buf' = <<>> /\ tail' = <<>>
    /\ remaining' = IF mode = "ascii" THEN 0 ELSE remaining
    /\ pc' = mode
    /\ UNCHANGED <<line, req, ans, kept, size, flags, resent, reply, closing, client, late>>

\* The next round of a streamed answer.
NextRound ==
    /\ pc = "rest" /\ mode # "plain"
    /\ first' = FALSE
    /\ buf' = tail /\ tail' = <<>>
    /\ remaining' = IF mode = "ascii" THEN 0 ELSE remaining
    /\ pc' = mode
    /\ UNCHANGED <<line, req, ans, kept, size, flags, resent, reply, closing, client, late>>

\* The next part of one that is not.  The number is signed: a remainder that
\* has wrapped asks for a negative number of bytes.
RestGet == Least(remaining, Room + Slack)

ReadRest(n, rc) ==
    /\ pc = "rest" /\ mode = "plain" /\ remaining < Width \div 2
    /\ n > 0 /\ ReceiveAll(RestGet, n, rc)
    /\ buf' = Filled(RestGet, n)
    /\ remaining' = remaining - RestGet
    /\ pc' = "write"
    /\ UNCHANGED <<req, ans, kept, first, tail, size, flags, resent, reply, closing, client>>

\* MUTANT of ReadRestFails: the connection of an answer that was cut is kept.
ReadRestFailsKept(rc) ==
    /\ pc = "rest" /\ mode = "plain"
    /\ NoData(rc, IF remaining < Width \div 2 THEN 1 ELSE Len(wire) + 1)
    /\ pc' = "exit"
    /\ UNCHANGED <<req, ans, buffers, counts, flags, resent, reply, closing, client, late>>

ReadRestFails(rc) ==
    /\ pc = "rest" /\ mode = "plain"
    /\ NoData(rc, IF remaining < Width \div 2 THEN 1 ELSE Len(wire) + 1)
    /\ closing' = TRUE /\ pc' = "exit"
    /\ UNCHANGED <<req, ans, buffers, counts, flags, resent, reply, client, late>>

---------------------------------------------------------------------------
(* Server-sent events: a read of up to a minute, and a write at once *)

SseRead(n) ==
    /\ pc = "sse" /\ n > 0 /\ Receive(n)
    /\ \/ out' = out \o Taking(n) /\ UNCHANGED pc
       \/ ~client /\ pc' = "sseEnd" /\ UNCHANGED out
    /\ UNCHANGED <<req, ans, buffers, counts, flags, resent, framing, own, clen, ended, closing,
                   client, late>>

\* MUTANT of SseTimeout: before v2.8.41, nobody looks whether the browser is there.
SseTimeoutDeaf ==
    /\ pc = "sse" /\ wire = <<>> /\ ~eof /\ ~client
    /\ UNCHANGED vars

\* Nothing for a minute: a look whether the browser is still there.
SseTimeout ==
    /\ pc = "sse" /\ wire = <<>> /\ ~eof /\ ~client
    /\ pc' = "sseEnd"
    /\ UNCHANGED <<line, req, ans, buffers, counts, flags, resent, reply, closing, client, late>>

SseEnd(rc) ==
    /\ pc = "sse" /\ rc # "timeout" /\ NoData(rc, 1)
    /\ pc' = "sseEnd"
    /\ UNCHANGED <<req, ans, buffers, counts, flags, resent, reply, closing, client, late>>

\* The last chunk, where the chunks are mg_web's; five 0xff to the DB Server.
SseClose ==
    /\ pc = "sseEnd"
    /\ closing' = TRUE /\ pc' = "exit"
    /\ UNCHANGED <<line, req, ans, buffers, counts, flags, resent, reply, client, late>>

---------------------------------------------------------------------------
\* mg_release_connection: the connection is closed, or kept for the next request.
Exit ==
    /\ pc = "exit"
    /\ pc' = "idle"
    /\ IF closing \/ distressed THEN wire' = <<>> /\ connected' = FALSE
       ELSE UNCHANGED <<wire, connected>>
    /\ closing' = (closing \/ distressed)
    /\ UNCHANGED <<eof, req, ans, buffers, counts, flags, resent, reply, client, late>>

\* The environment: the browser goes, the DB Server ends an event stream.
ClientLeaves ==
    /\ "client" \in Faults /\ client /\ pc # "idle"
    /\ client' = FALSE
    /\ UNCHANGED <<line, pc, req, ans, buffers, counts, flags, resent, reply, closing, late>>

Lengths == 0..(Room + Slack)

Command ==
    \/ ReadHead \/ Resend \/ Failed \/ Frame
    \/ \E rc \in Failures : HeadFails(rc)
    \/ \E n \in Lengths, rc \in {"timeout", "eof"} : ReadBody(n, rc)

Stream ==
    \/ \E n \in 1..Len(wire) : AsciiRead(n)
    \/ AsciiNoSpace \/ HeadOfBlock \/ EndOfBlocks \/ HeadMissing
    \/ \E n \in Lengths, rc \in {"timeout", "eof"} : BlockRead(n, rc)
    \/ StartChunking \/ StopCounting \/ Extend \/ ExtendFails
    \/ \E rc \in Failures : AsciiFails(rc) \/ HeadOfBlockFails(rc) \/ BlockReadFails(rc)

Copy ==
    \/ Open \/ Write \/ NextRound
    \/ \E n \in Lengths, rc \in {"timeout", "eof"} : ReadRest(n, rc)
    \/ \E rc \in Failures : ReadRestFails(rc)

Events ==
    \/ \E n \in 1..Len(wire) : SseRead(n)
    \/ SseTimeout \/ SseClose
    \/ \E rc \in Failures : SseEnd(rc)

Thread == Command \/ Stream \/ Copy \/ Events \/ Exit

Next ==
    \/ \E a \in Answers, w \in BOOLEAN : Submit(a, w)
    \/ Thread
    \/ ClientLeaves

\* A thread in the middle of a request goes on; a read ends within its time.
\* Nobody counts on the DB Server to close the connection.
Spec == Init /\ [][Next]_vars /\ WF_vars(Thread /\ eof' = eof)

---------------------------------------------------------------------------
(* What a client may conclude from what it is sent *)

\* The content the application wrote; a stream in distress carries its end
\* marker with it, which the DB Server sent for the end of the blocks.
Content(r, a) == IF a.mode = "block" /\ a.broken THEN Body(r, a) \o Marks(r) ELSE Body(r, a)

\* The client takes the answer for whole, cut or an error, or cannot tell,
\* where the end of the connection is the end of the answer.
Verdict ==
    CASE pc # "idle" \/ framing = "none"         -> "pending"
      [] pc = "idle" /\ framing = "error"        -> "error"
      [] pc = "idle" /\ framing \in {"webserver", "close", "sse"} -> "open"
      [] pc = "idle" /\ framing = "chunked"      -> IF ended THEN "whole" ELSE "cut"
      [] pc = "idle" /\ framing \in {"length", "server"} ->
             IF Len(out) < clen THEN "cut" ELSE "whole"

Pipe == INSTANCE AnswerPipe WITH
            content <- IF req = 0 THEN <<>> ELSE Content(req, ans), seen <- out, verdict <- Verdict

\* ClientSeesThePipe: the client sees a part of the content from its beginning, in
\* order, nothing twice, nothing of another answer and nothing else; and takes
\* it for whole only when it has all of it.
ClientSeesThePipe == Pipe!Spec

---------------------------------------------------------------------------
(* The answers and the faults with which the client sees the pipe; each condition *)
(* is there for something the code does (section 6 of the README).              *)

\* plain: where only the bytes before the content make the answer longer than the
\* buffer, what is left to be read wraps, 9160-9163.  block: an empty block ends the
\* answer, 9387; the buffers after a first one that holds the header alone are not
\* written, 1207; the marker that ends a stream in distress is not in a Content-Length.
Regular(a) ==
    /\ a.mode = "plain" => /\ PreLen + Total(a) < Width
                           /\ PreLen + Total(a) <= Room \/ Total(a) >= Room
    /\ a.mode = "block" => /\ \A j \in 2..Len(a.parts) : a.parts[j] > 0
                           /\ Len(a.parts) > 1 /\ a.parts[1] = 0 => a.parts[2] <= Room
                           /\ ~(a.clen /\ a.broken)

\* A read that must fill its buffer does (9104, 9165), and a reset is not the first answer
\* to the head of the first block (9353).
Sound ==
    /\ "short" \notin Faults /\ "early" \notin Faults
    /\ \A a \in Answers : Regular(a)

---------------------------------------------------------------------------
(* The other properties *)

\* The type invariant.
TypeOK ==
    /\ wire \in Seq(Byte) /\ connected \in BOOLEAN /\ eof \in BOOLEAN
    /\ pc \in {"idle", "head", "body", "blockHead", "nextHead", "block", "ascii", "full", "failed",
              "frame", "open", "write", "rest", "sse", "sseEnd", "exit"}
    /\ req \in 0..MaxRequests /\ ans \in Answers
    /\ kept \in Seq(Seq(Byte)) /\ buf \in Seq(Byte) /\ first \in BOOLEAN /\ tail \in Seq(Byte)
    /\ remaining \in Nat /\ size \in Nat
    /\ mode \in {"plain", "block", "ascii"}
    /\ chunked \in BOOLEAN /\ maxclen \in BOOLEAN /\ distressed \in BOOLEAN /\ resent \in BOOLEAN
    /\ framing \in {"none", "error", "length", "server", "chunked", "webserver", "close", "sse"}
    /\ own \in BOOLEAN /\ clen \in Nat /\ out \in Seq(Byte) /\ ended \in BOOLEAN
    /\ closing \in BOOLEAN /\ client \in BOOLEAN /\ late \in BOOLEAN

\* A connection is given back to the pool only when every byte of the answer has
\* been taken from it: the next request would read the rest of this one.
CleanReuse == pc = "idle" /\ connected => wire = <<>>

\* README, v2.7.33: "Return a HTTP status code of '504 Gateway Timeout' if a request to
\* the DB Server times-out".  So an answer in which a read ran out of time before the client
\* was told anything is the error page.  The code keeps to this where nothing at all comes, and
\* breaks it where a part comes: of the body of known length (9165), or of the head (9104).
TimeoutReported == pc = "idle" /\ late => framing = "error"

\* A request is always finished, whatever the DB Server does; an event stream
\* when the browser has gone.
AnswerEnds == (pc # "idle" /\ (ans.mode = "sse" => ~client)) ~> (pc = "idle")
===========================================================================
