---------------------------- MODULE RequestBuffer ----------------------------
(***************************************************************************)
(* The buffer in which a request is made up for the DB Server.  mg_web     *)
(* writes the variables of the request and fields about it as blocks, one  *)
(* after the other, with room for what is known later; mg_web_process and  *)
(* mg_web_execute fill that in for each server the request is sent to,     *)
(* through pointers noted before.  What a DB Server reads in the buffer is *)
(* compared with what it was to be told.                                   *)
(*                                                                         *)
(* Positions count from 1.  Upload follows the content of a long request   *)
(* from its first block on, RequestDispatch the servers and their faults.  *)
(***************************************************************************)
EXTENDS Naturals, FiniteSets, SequencesExt

CONSTANTS
    Requests,     \* see RequestRecord
    Servers,      \* the servers of the path
    Link,         \* "tcp" or "api", of each
    NameLength,   \* length of the name of each
    Spare,        \* 128000: what is allocated besides the content
    Configured,   \* request_buffer_size
    MaxAlloc      \* DBX_LS_MAXSIZE_ISC

\* variables: the lengths of "NAME=value" for each variable the web server has;
\* limit: max_string_size of the first server of the path.
RequestRecord == [variables : Seq(Nat), how : {"none", "length", "chunked"}, len : Nat,
                  sse : BOOLEAN, websocket : BOOLEAN, limit : Nat]

VARIABLES
    req,        \* the request
    buf,        \* the buffer, as far as it has been written
    used,       \* input_buf.len_used
    offs,       \* offs_content
    at,         \* server, serverno, requestno, requestkey and mode
    long,       \* request_long
    content,    \* where the first block of a long content begins
    pc,         \* where the thread is
    server,     \* the server of this attempt
    failovers,  \* failover_no
    executed    \* how often mg_web_execute has been called

memory == <<buf, used, offs, at>>
large == <<long, content>>
attempt == <<server, failovers, executed>>
vars == <<req, memory, large, pc, attempt>>

---------------------------------------------------------------------------
(* A byte says what it is a part of: which one, if there are several, and  *)
(* its place there.                                                        *)

Sorts == {"data", "sys", "cgi", "content", "eod"}
Parts == Sorts \cup {"length", "server", "server_no", "path", "function", "no", "key", "mode", "value",
                      "variable", "sse", "ws", "wsfunction", "dbxweb^%zmgsis", "payload",
                      "name", "serverno", "requestno", "pid", "tcp", "api", "nul", "unwritten"}
Byte == [of : Parts, n : Nat, i : Nat]

Text(of, n, len) == [i \in 1..len |-> [of |-> of, n |-> n, i |-> i]]
Nul == [of |-> "nul", n |-> 0, i |-> 0]
Unwritten == [of |-> "unwritten", n |-> 0, i |-> 0]

\* mg_add_block_size: four bytes with the length and one with the sort.
HeadLen == 5
BlockHead(sort, len) == Text("length", len, HeadLen - 1) \o <<[of |-> sort, n |-> 0, i |-> HeadLen]>>

Block(sort, text) == BlockHead(sort, Len(text)) \o text

\* b with bytes written at p.
Put(b, p, bytes) ==
    [i \in 1..Max({Len(b), p + Len(bytes) - 1}) |->
        IF i \in p..(p + Len(bytes) - 1) THEN bytes[i - p + 1]
        ELSE IF i <= Len(b) THEN b[i] ELSE Unwritten]

---------------------------------------------------------------------------
(* mg_web: the blocks                                                      *)

\* Length of the name with "=", and of the value or of the room for it.
Fields == << [name |-> "server", prefix |-> 7, room |-> 32], [name |-> "server_no", prefix |-> 10, room |-> 2],
             [name |-> "path", prefix |-> 5, room |-> 1], [name |-> "function", prefix |-> 9, room |-> 1],
             [name |-> "no", prefix |-> 3, room |-> 4], [name |-> "key", prefix |-> 4, room |-> 10],
             [name |-> "mode", prefix |-> 5, room |-> 3] >>

Field(name) == CHOOSE k \in DOMAIN Fields : Fields[k].name = name

Assigned(k, value) == Text(Fields[k].name, 0, Fields[k].prefix) \o value

\* What the fields hold before a server is known; that of mode is "tcp".
FirstValue(k) ==
    CASE Fields[k].name = "key" -> [i \in 1..Fields[k].room |-> Nul]
      [] Fields[k].name = "mode" -> Text("tcp", 0, Fields[k].room)
      [] OTHER -> Text("value", k, Fields[k].room)

FieldBlocks == [k \in DOMAIN Fields |-> Block("sys", Assigned(k, FirstValue(k)))]

Variable(r, k) == Text("variable", k, r.variables[k])
VariableBlocks(r) == [k \in DOMAIN r.variables |-> Block("cgi", Variable(r, k))]

Sse == Text("sse", 0, 5)
WebSocket == << Text("ws", 0, 4), Text("wsfunction", 0, 12) >>
SseBlocks(r) == IF r.sse THEN << Block("sys", Sse) >> ELSE <<>>
WebSocketBlocks(r) == IF r.websocket THEN [k \in 1..2 |-> Block("sys", WebSocket[k])] ELSE <<>>

Routine == Text("dbxweb^%zmgsis", 0, 14)

\* Up to the variables; the head of what the variables begin is left open.
Parameters == Block("data", Routine) \o Block("data", <<>>)
Opened(r) == Parameters \o [i \in 1..HeadLen |-> Unwritten] \o FlattenSeq(VariableBlocks(r))

Packed(r) == Opened(r) \o FlattenSeq(FieldBlocks \o SseBlocks(r) \o WebSocketBlocks(r))

\* Where the value of a field begins in the buffer.
ValueAt(r, name) ==
    LET k == Field(name)
    IN  Len(Opened(r)) + Len(FlattenSeq(SubSeq(FieldBlocks, 1, k - 1))) + HeadLen + Fields[k].prefix + 1

Nowhere == [server |-> 0, serverno |-> 0, requestno |-> 0, requestkey |-> 0, mode |-> 0]

\* The block "sse=1" takes mode along, to the end of its own text.
Pointers(r) ==
    [server |-> ValueAt(r, "server"), serverno |-> ValueAt(r, "server_no"),
     requestno |-> ValueAt(r, "no"), requestkey |-> ValueAt(r, "key"),
     mode |-> IF r.sse THEN Len(Opened(r)) + Len(FlattenSeq(FieldBlocks \o SseBlocks(r))) + 1
                       ELSE ValueAt(r, "mode")]

\* Web servers limit the headers of a request, so that the blocks before the
\* content fit in what is allocated besides it; a name fits in its field, and
\* only a GET asks to become a WebSocket.
ASSUME RequestBufferAssumption ==
    /\ Requests \subseteq RequestRecord
    /\ \A r \in Requests : /\ \A size \in {Spare, MaxAlloc, r.limit} : Len(Packed(r)) + 20 < size
                           /\ r.how = "length" <=> r.len > 0
                           /\ r.websocket => r.how = "none" /\ ~r.sse
    /\ IsFiniteSet(Servers) /\ Servers # {} /\ Servers \subseteq Nat
    /\ Link \in [Servers -> {"tcp", "api"}]
    /\ NameLength \in [Servers -> 1..31]
    /\ {Spare, Configured, MaxAlloc} \subseteq Nat

Init ==
    /\ req \in Requests
    /\ buf = <<>> /\ used = 0 /\ offs = 0 /\ at = Nowhere
    /\ long = FALSE /\ content = 0
    /\ pc = "pack"
    /\ server = 0 /\ failovers = 0 /\ executed = 0

Pack ==
    /\ pc = "pack"
    /\ buf' = Packed(req) /\ used' = Len(Packed(req))
    /\ offs' = Len(Parameters)
    /\ at' = Pointers(req)
    /\ pc' = "content"
    /\ UNCHANGED <<req, large, attempt>>
---------------------------------------------------------------------------
(* mg_web, under NGINX mg_payload_handler: the content                     *)

\* mg_obtain_request_memory: 32 bytes more are allocated, 15 of them before
\* the buffer.
Alloc ==
    LET size == Max({Spare + req.len, Configured})
    IN  IF size > MaxAlloc THEN MaxAlloc + 1 ELSE size

Slack == 32 - 15

\* MUTANT of BlockSize: without the room for what comes after the content.
BlockSizeBare == Min({Alloc, req.limit}) - used

\* request_bsize
BlockSize == Min({Alloc, req.limit}) - (used + 15)

\* Between the fields and a long content: the end of the first, the parameter,
\* the end of the request, and the head of the content.
ContentRoom == 20

Payload(len) == Text("payload", 0, len)

NoContent ==
    /\ pc = "content" /\ req.how = "none"
    /\ pc' = "close"
    /\ UNCHANGED <<req, memory, large, attempt>>

InlineContent ==
    /\ pc = "content" /\ req.how = "length" /\ req.len < BlockSize
    /\ buf' = Put(buf, used + 1, Block("content", Payload(req.len)))
    /\ used' = used + HeadLen + req.len
    /\ pc' = "close"
    /\ UNCHANGED <<req, offs, at, large, attempt>>

\* The first block of a content that is sent in several, of len bytes.
FirstBlock(len) ==
    /\ pc' = "close"
    /\ long' = TRUE
    /\ content' = used + ContentRoom - HeadLen + 1
    /\ buf' = Put(buf, content', Block("content", Payload(len)))
    /\ UNCHANGED <<req, used, offs, at, attempt>>

LongContent ==
    /\ pc = "content" /\ req.how = "length" /\ req.len >= BlockSize
    /\ FirstBlock(BlockSize)

\* Of a chunked content, what has come; at most a block.
ChunkedContent ==
    /\ pc = "content" /\ req.how = "chunked"
    /\ \E len \in {0, 3, BlockSize} : FirstBlock(len)

---------------------------------------------------------------------------
(* mg_web_process and mg_web_execute                                       *)

EndOfData == BlockHead("eod", 0)

\* The end of the fields, the length of what they and the variables are a part
\* of, and the parameter, which is empty.
CloseBlocks ==
    /\ pc = "close"
    /\ LET ended == Put(buf, used + 1, EndOfData)
           sized == Put(ended, offs + 1, BlockHead("data", used + HeadLen - (offs + HeadLen)))
       IN  buf' = Put(sized, used + HeadLen + 1, Block("data", <<>>))
    /\ used' = used + 2 * HeadLen
    /\ pc' = "obtain"
    /\ UNCHANGED <<req, offs, at, large, attempt>>

CanFailOver == Cardinality(Servers) > 1 /\ Cardinality(Servers) > failovers

FailOver ==
    /\ CanFailOver
    /\ failovers' = failovers + 1
    /\ pc' = "obtain"

GiveUp == pc' = "failed" /\ UNCHANGED failovers

Obtain(s) ==
    /\ pc = "obtain"
    /\ server' = s
    /\ pc' = "execute"
    /\ UNCHANGED <<req, memory, large, failovers, executed>>

ObtainFails(s) ==
    /\ pc = "obtain"
    /\ server' = s
    /\ FailOver \/ GiveUp
    /\ UNCHANGED <<req, memory, large, executed>>

\* The process and the number of the request, four bytes each.
Key == Text("pid", 0, 4) \o Text("requestno", 0, 4)

\* MUTANT of NameOf: the name without its end.
NameOfUnended(s) == Text("name", s, NameLength[s])

NameOf(s) == Text("name", s, NameLength[s]) \o <<Nul>>

\* The buffer with the fields of the server written over, in this order.
Addressed ==
    LET numbered == Put(buf, at.serverno, Text("serverno", server, 2))
        named == Put(numbered, at.server, NameOf(server))
        counted == Put(named, at.requestno, Text("requestno", 0, 4))
    IN  IF long THEN Put(counted, at.requestkey, Key) ELSE counted

\* The end of the request is appended anew for each attempt.
Execute ==
    /\ pc = "execute"
    /\ buf' = Put(Put(Addressed, used + 1, EndOfData), at.mode, Text(Link[server], 0, 3))
    /\ used' = used + HeadLen
    /\ executed' = executed + 1
    /\ pc' = "sent"
    /\ UNCHANGED <<req, offs, at, large, server, failovers>>

Delivered ==
    /\ pc = "sent"
    /\ pc' = "done"
    /\ UNCHANGED <<req, memory, large, attempt>>

\* Neither the connection nor a new one takes the request; an API is not asked
\* again.
SendFails ==
    /\ pc = "sent"
    /\ (Link[server] = "tcp" /\ FailOver) \/ GiveUp
    /\ UNCHANGED <<req, memory, large, server, executed>>

Next ==
    \/ Pack
    \/ NoContent \/ InlineContent \/ LongContent \/ ChunkedContent
    \/ CloseBlocks
    \/ \E s \in Servers : Obtain(s) \/ ObtainFails(s)
    \/ Execute
    \/ Delivered \/ SendFails

Spec == Init /\ [][Next]_vars

---------------------------------------------------------------------------
(* The DB Server reads the blocks                                          *)

Garbled == [sort |-> "garbled", text |-> <<>>]

SortAt(b, p) == b[p + HeadLen - 1].of
NextAt(b, p) == p + HeadLen + b[p].n

\* The block at p has its four bytes of length, and is as long as they say.
WholeAt(b, p) ==
    /\ NextAt(b, p) <= Len(b) + 1
    /\ \A i \in 1..(HeadLen - 1) : b[p + i - 1] = [of |-> "length", n |-> b[p].n, i |-> i]

\* The blocks in b up to the end of data, whose length is not looked at.
BlocksIn(b) ==
    LET walk[p \in 1..(Len(b) + 1)] ==
            IF p + HeadLen - 1 > Len(b) \/ SortAt(b, p) \notin Sorts THEN << Garbled >>
            ELSE IF SortAt(b, p) = "eod" THEN <<>>
            ELSE IF ~WholeAt(b, p) THEN << Garbled >>
            ELSE << [sort |-> SortAt(b, p), text |-> SubSeq(b, p + HeadLen, NextAt(b, p) - 1)] >> \o walk[NextAt(b, p)]
    IN  walk[1]

\* The name of the server ends at the first NUL.
Understood(block) ==
    IF block.text # <<>> /\ block.text[1].of = "server"
    THEN LET ends == {i \in DOMAIN block.text : block.text[i] = Nul}
         IN  [block EXCEPT !.text = IF ends = {} THEN @ ELSE SubSeq(@, 1, Min(ends) - 1)]
    ELSE block

\* The second of the four parts holds the variables, the fields and the content.
Heard ==
    LET parts == BlocksIn(SubSeq(buf, 1, used))
        inner == IF Len(parts) = 4 THEN BlocksIn(parts[3].text) ELSE << Garbled >>
    IN  [parts |-> [k \in DOMAIN parts |-> IF k = 3 THEN <<>> ELSE parts[k]],
         inner |-> [k \in DOMAIN inner |-> Understood(inner[k])]]

---------------------------------------------------------------------------
(* Properties                                                              *)

\* The value of a field for the server of this attempt.
ValueTold(k) ==
    CASE Fields[k].name = "server" -> Text("name", server, NameLength[server])
      [] Fields[k].name = "server_no" -> Text("serverno", server, 2)
      [] Fields[k].name = "no" -> Text("requestno", 0, 4)
      [] Fields[k].name = "key" /\ long -> Key \o << Nul, Nul >>
      [] Fields[k].name = "mode" -> Text(Link[server], 0, 3)
      [] OTHER -> FirstValue(k)

Told ==
    LET Of(sort, texts) == [k \in DOMAIN texts |-> [sort |-> sort, text |-> texts[k]]]
        inline == req.how = "length" /\ ~long
    IN  [parts |-> << [sort |-> "data", text |-> Routine], [sort |-> "data", text |-> <<>>], <<>>,
                      [sort |-> "data", text |-> <<>>] >>,
         inner |-> Of("cgi", [k \in DOMAIN req.variables |-> Variable(req, k)])
                   \o Of("sys", [k \in DOMAIN Fields |-> Assigned(k, ValueTold(k))])
                   \o Of("sys", IF req.sse THEN << Sse >> ELSE <<>>)
                   \o Of("sys", IF req.websocket THEN WebSocket ELSE <<>>)
                   \o Of("content", IF inline THEN << Payload(req.len) >> ELSE <<>>)]

AsTold == pc = "sent" => Heard = Told

\* The first block of a long content, which follows the request.
FirstBlockWhole ==
    LET block == BlocksIn(SubSeq(buf, content, Len(buf)) \o EndOfData)
    IN  Len(block) = 1 /\ block[1].sort = "content" /\ block[1].text = Payload(Len(block[1].text))

\* Each DB Server that a request is sent to, be it the first or one after a
\* failover, reads the variables, the fields meant for it (its own name and
\* number, its way of being called) and the content, and nothing left of an
\* earlier attempt; and what mg_web_process and mg_web_execute write leaves the
\* first block of a long content alone.  Two exceptions are the code's, see
\* EventsAsTold and BlockWholeAgain: events that bring a content or go to an
\* API, and long contents that are sent a second time.
HeardAsTold ==
    pc = "sent" /\ (req.sse => req.how # "length" /\ Link[server] = "tcp")
        => Heard = Told /\ (long /\ executed = 1 => FirstBlockWhole)

\* No write leaves the memory of the request, in up to three attempts (a bound
\* of the statement, as each takes five bytes more), and there are no more than
\* one attempt for each failover and the first.
StaysInside ==
    /\ failovers <= Cardinality(Servers) /\ executed <= failovers + 1
    /\ executed <= 3 => Len(buf) <= Alloc + Slack

\* Not so (README, section 6): what the README says of server-sent events, in v2.7.33
\* and where it explains Content; the DB Server is told what it is of any request.
EventsAsTold == req.sse => AsTold

\* Not so: "space for headers EOF marker, content chunk length and param = '' AND
\* 5 byte header for content itself", whichever attempt it is.
BlockWholeAgain == pc = "sent" /\ long => FirstBlockWhole

\* Not so: with a content of the size of the "buffer space available for request
\* payload", the request with the 15 bytes before it is a string that the
\* database takes.
RequestFits == pc = "sent" /\ Link[server] = "api" => used + 15 <= req.limit
=============================================================================
