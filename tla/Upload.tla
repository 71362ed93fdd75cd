------------------------------- MODULE Upload -------------------------------
(***************************************************************************)
(* The way of the content of a request from the client to the DB Server.   *)
(* mg_web (mg_payload_handler under NGINX) puts it into the request buffer *)
(* when it fits; otherwise the first part of it, and                       *)
(* mg_execute_request_long sends the rest block by block with that buffer, *)
(* over the network (netx_tcp_command) or through the API.                 *)
(* mg_client_read is the web server's: NGINX, Apache or IIS.  Before, the  *)
(* request comes in (RequestIntake) and looks for its server               *)
(* (ServerAffinity).                                                       *)
(***************************************************************************)
EXTENDS RequestIntake, ServerAffinity

CONSTANTS
    Links,       \* ways to the DB Server: a subset of {"tcp", "api"}
    Asks,        \* what requests say of their server, see AskRecord
    Orders,      \* sa_order: a subset of {"none", "variable", "cookie"}
    FormFits,    \* how many assignments of a form its first block holds whole
    Alloc,       \* bytes the request buffer has left for content
    MaxString,   \* bytes psrv->max_string_size leaves for content, of each server
    BoundaryLen  \* length of the multipart boundary

\* The servers of the path, by their positions.
Servers == DOMAIN Names

Least(m, n) == IF m < n THEN m ELSE n

\* MUTANT of BlockSize: before the database's limit was looked at.
BlockSizeUnlimited == Alloc

\* request_bsize.  The server is not known yet: the limit is the first one's.
BlockSize == Least(Alloc, MaxString[1])

ASSUME UploadAssumption ==
    /\ Links \subseteq {"tcp", "api"}
    /\ Asks \subseteq AskRecord /\ Orders \subseteq {"none", "variable", "cookie"} /\ FormFits \in Nat
    /\ MaxString \in [Servers -> Nat \ {0}] /\ Alloc \in Nat \ {0}
    /\ BoundaryLen \in Nat /\ BoundaryLen <= BlockSize

VARIABLES
    link, server, \* the way to the DB Server, and which one it is
    ask, order,   \* what the request says of its server, while that is looked for
    choice,       \* pweb->server_no, from 1, once it has been
    taken,      \* how much of it mg_client_read has returned
    status,     \* request_read_status
    pc,         \* where the thread is
    long,       \* request_long
    content,    \* request_content: the bytes of the current block
    announced,  \* the length in the head of that block
    remaining,  \* request_clen_remaining
    intact,     \* the request buffer begins with the request
    resent,     \* netx_tcp_command has reconnected
    db          \* what has reached the DB Server

routing == <<link, server, ask, order, choice>>
reading == <<taken, status>>
block == <<content, announced, remaining>>
sending == <<reading, pc, long, block, intact, resent, db>>
vars == <<request, intake, routing, reading, pc, long, block, intact, resent, db>>

---------------------------------------------------------------------------
\* The content: byte i of what the client sends, and 0 for what is left in the
\* buffer where nothing was received.
Content == [i \in 1..body.len |-> i]
Stale(n) == [i \in 1..n |-> 0]

\* A request that says nothing of its server.
Silent == [query |-> <<>>, form |-> <<>>, cookies |-> <<>>]

\* The DB Server: has it the request, what content, is that complete, and has
\* it been sent something that is no request.
Nothing == [head |-> FALSE, got |-> <<>>, eod |-> FALSE, bad |-> FALSE]
Request == [Nothing EXCEPT !.head = TRUE]

\* A block over the network says how long it is; what the API is given has its
\* length from the call.
Takes(d, n, bytes) ==
    IF d.bad THEN d
    ELSE IF link = "tcp" /\ (~d.head \/ d.eod \/ n # Len(bytes)) THEN [d EXCEPT !.bad = TRUE]
    ELSE [d EXCEPT !.got = @ \o bytes]

TakesEnd(d) == IF d.bad \/ ~d.head THEN [d EXCEPT !.bad = TRUE] ELSE [d EXCEPT !.eod = TRUE]

---------------------------------------------------------------------------
(* mg_client_read: n bytes, or what there is before the end of the content *)

Got(n) == Least(n, arrived - taken)
\* MUTANT of Bytes: the place in the content does not move on.
BytesAgain(n) == [i \in 1..Got(n) |-> i]

Bytes(n) == [i \in 1..Got(n) |-> taken + i]

\* NGINX has all the content, in memory or in a file, before it starts.
NginxEnd == "end"

\* Apache reads it from the client: a failure is logged, and no end is seen.
ApacheEnd == IF gone THEN status ELSE "end"

\* IIS too; a failure is noted as such.
IisEnd == IF gone THEN "error" ELSE "end"

\* The end is noticed by a read that asks for more than there is.
StatusAfter(n) ==
    IF Got(n) = n THEN status
    ELSE CASE adapter = "nginx" -> NginxEnd [] adapter = "apache" -> ApacheEnd [] adapter = "iis" -> IisEnd

ClientRead(n) == taken' = taken + Got(n) /\ status' = StatusAfter(n)

\* With a Content-Length, n bytes it is, whatever was read.
Filled(n) == Bytes(n) \o Stale(n - Got(n))

---------------------------------------------------------------------------
Init ==
    /\ InitIntake
    /\ link = "none" /\ server = NoAffinity /\ ask = Silent /\ order = "none" /\ choice = NoAffinity
    /\ taken = 0 /\ status = "more"
    /\ pc = "read" /\ long = FALSE
    /\ content = <<>> /\ announced = 0 /\ remaining = 0
    /\ intact = TRUE /\ resent = FALSE
    /\ db = Nothing

\* The content goes into the request buffer, or the first part of it does.
NoContent ==
    /\ stage = "serve" /\ pc = "read" /\ body.how = "none"
    /\ pc' = "launch"
    /\ UNCHANGED <<request, intake, routing, reading, long, block, intact, resent, db>>

ReadInline ==
    /\ stage = "serve" /\ pc = "read" /\ body.how = "length" /\ body.len < BlockSize
    /\ ClientRead(body.len)
    /\ content' = Filled(body.len) /\ announced' = body.len
    /\ pc' = "launch"
    /\ UNCHANGED <<request, intake, routing, long, remaining, intact, resent, db>>

ReadFirst ==
    /\ stage = "serve" /\ pc = "read" /\ body.how = "length" /\ body.len >= BlockSize
    /\ ClientRead(BlockSize)
    /\ long' = TRUE
    /\ content' = Filled(BlockSize) /\ announced' = BlockSize
    /\ remaining' = body.len - BlockSize
    /\ pc' = "launch"
    /\ UNCHANGED <<request, intake, routing, intact, resent, db>>

ReadFirstChunked ==
    /\ stage = "serve" /\ pc = "read" /\ body.how = "chunked"
    /\ ClientRead(BlockSize)
    /\ long' = TRUE
    /\ content' = Bytes(BlockSize) /\ announced' = Got(BlockSize)
    /\ pc' = "launch"
    /\ UNCHANGED <<request, intake, routing, remaining, intact, resent, db>>

---------------------------------------------------------------------------
(* mg_web_process: the server *)

\* The form is looked for in what is in the buffer, and only where a length
\* was announced for it.
FormSeen(a) ==
    IF body.how # "length" THEN <<>> ELSE IF long THEN InFirstBlock(a.form, FormFits) ELSE a.form

FindServer ==
    /\ stage = "serve" /\ pc = "launch"
    /\ ask' \in Asks /\ order' \in Orders
    /\ choice' = PreferredServer(order', [ask' EXCEPT !.form = FormSeen(ask')])
    /\ pc' = "find"
    /\ UNCHANGED <<request, intake, link, server, reading, long, block, intact, resent, db>>

\* mg_obtain_connection: that server, or any when it is offline.
Obtain ==
    /\ pc = "find"
    /\ link' \in Links /\ server' \in Servers
    /\ ask' = Silent /\ order' = "none" /\ choice' = NoAffinity
    /\ pc' = "send"
    /\ UNCHANGED <<request, intake, reading, long, block, intact, resent, db>>

\* The thread pool takes no task, once the content is in the buffer.
NoThread ==
    /\ pc = "launch" /\ Strand
    /\ UNCHANGED <<routing, sending>>

\* The reply goes back through the adapter.
Finish ==
    /\ pc \in {"done", "failed"}
    /\ Serve(IF pc = "done" THEN "answer" ELSE "error")
    /\ UNCHANGED <<routing, sending>>

---------------------------------------------------------------------------
(* netx_tcp_command: the request *)

\* The request buffer is sent, with the content in it if that fits.
Arrives == IF ~intact THEN [Nothing EXCEPT !.bad = TRUE]
           ELSE IF long \/ body.how = "none" THEN Request
           ELSE Takes(Request, announced, content)

Send ==
    /\ pc = "send" /\ link = "tcp"
    /\ db' = Arrives
    /\ pc' = IF long THEN "copy" ELSE "await"
    /\ UNCHANGED <<request, intake, routing, reading, long, block, intact, resent>>

\* Connect again and send it again, once.
SendFails ==
    /\ pc = "send" /\ link = "tcp" /\ "write" \in Faults
    /\ db' = Nothing
    /\ resent' = TRUE
    /\ pc' = IF resent THEN "failed" ELSE "send"
    /\ UNCHANGED <<request, intake, routing, reading, long, block, intact>>

\* Through the API the blocks are stored first, then the function is called.
Prepare ==
    /\ pc = "send" /\ link = "api"
    /\ pc' = IF long THEN "copy" ELSE "call"
    /\ UNCHANGED <<request, intake, routing, reading, long, block, intact, resent, db>>

Call ==
    /\ pc = "call"
    /\ db' = LET d == [db EXCEPT !.head = TRUE] IN IF long THEN d ELSE Takes(d, announced, content)
    /\ pc' = "done"
    /\ UNCHANGED <<request, intake, routing, reading, long, block, intact, resent>>

---------------------------------------------------------------------------
(* mg_execute_request_long *)

\* The end of a block that may be half a boundary is held back, but only of a
\* block that is shorter than the boundary: the last one.
Held == IF Len(content) < BoundaryLen /\ taken = body.len THEN Least(body.partial, Len(content)) ELSE 0

Outgoing == SubSeq(content, 1, Len(content) - Held)

\* MUTANT of LastBlock: a remainder that fits in one block is forgotten.
LastBlockEarly == IF body.how = "chunked" THEN status = "end" ELSE remaining < BlockSize

LastBlock == IF body.how = "chunked" THEN status = "end" ELSE remaining = 0

AfterLast == IF link = "tcp" THEN "end" ELSE "call"

WriteBlock ==
    /\ pc = "copy"
    /\ announced' = (IF Held > 0 THEN Len(Outgoing) ELSE announced)
    /\ db' = Takes(db, announced', Outgoing)
    /\ pc' = IF LastBlock THEN AfterLast ELSE "refill"
    /\ UNCHANGED <<request, intake, routing, reading, long, content, remaining, intact, resent>>

WriteBlockFails ==
    /\ pc = "copy" /\ "write" \in Faults
    /\ pc' = "failed"
    /\ UNCHANGED <<request, intake, routing, reading, long, block, intact, resent, db>>

\* MUTANT of RefillLength: the next block is always a full one.
RefillLengthFull == BlockSize

RefillLength == Least(remaining, BlockSize)

\* A block that is followed by another one is full: nothing of it was held back.
Refill ==
    /\ pc = "refill" /\ body.how = "length"
    /\ ClientRead(RefillLength)
    /\ content' = Filled(RefillLength) /\ announced' = RefillLength
    /\ remaining' = remaining - RefillLength
    /\ pc' = "copy"
    /\ UNCHANGED <<request, intake, routing, long, intact, resent, db>>

\* MUTANT of RefillChunked: the head of the block before is sent again.
RefillChunkedOldHead ==
    /\ pc = "refill" /\ body.how = "chunked"
    /\ ClientRead(BlockSize)
    /\ content' = Bytes(BlockSize)
    /\ pc' = "copy"
    /\ UNCHANGED <<request, intake, routing, long, announced, remaining, intact, resent, db>>

RefillChunked ==
    /\ pc = "refill" /\ body.how = "chunked"
    /\ ClientRead(BlockSize)
    /\ content' = Bytes(BlockSize) /\ announced' = Got(BlockSize)
    /\ pc' = "copy"
    /\ UNCHANGED <<request, intake, routing, long, remaining, intact, resent, db>>

---------------------------------------------------------------------------
(* netx_tcp_command: the end of the content, and the answer *)

\* The end is written over the beginning of the request buffer.
WriteEnd ==
    /\ pc = "end"
    /\ intact' = FALSE
    /\ \/ db' = TakesEnd(db) /\ pc' = "await"
       \/ "write" \in Faults /\ pc' = "failed" /\ UNCHANGED db
    /\ UNCHANGED <<request, intake, routing, reading, long, block, resent>>

Complete == db.head /\ ~db.bad /\ (long => db.eod)

Answer ==
    /\ pc = "await" /\ Complete
    /\ pc' = "done"
    /\ UNCHANGED <<request, intake, routing, reading, long, block, intact, resent, db>>

\* What is no request is not answered.
Timeout ==
    /\ pc = "await" /\ ~Complete
    /\ pc' = "failed"
    /\ UNCHANGED <<request, intake, routing, reading, long, block, intact, resent, db>>

\* MUTANT of ReadFails: the request is sent again as often as it takes.
ReadFailsForEver ==
    /\ pc = "await" /\ "reset" \in Faults
    /\ resent' = TRUE /\ db' = Nothing
    /\ pc' = "send"
    /\ UNCHANGED <<request, intake, routing, reading, long, block, intact>>

\* The connection breaks: connect again and send what is in the buffer.
ReadFails ==
    /\ pc = "await" /\ "reset" \in Faults
    /\ resent' = TRUE /\ db' = Nothing
    /\ pc' = IF resent THEN "failed" ELSE "send"
    /\ UNCHANGED <<request, intake, routing, reading, long, block, intact>>

Next ==
    \/ (Arrival \/ Eventing) /\ UNCHANGED <<routing, sending>>
    \/ FindServer \/ Obtain \/ NoThread \/ Finish
    \/ NoContent \/ ReadInline \/ ReadFirst \/ ReadFirstChunked
    \/ Send \/ SendFails \/ Prepare \/ Call
    \/ WriteBlock \/ WriteBlockFails \/ Refill \/ RefillChunked
    \/ WriteEnd \/ Answer \/ Timeout \/ ReadFails

Spec == Init /\ [][Next]_vars /\ WF_vars(Next)

---------------------------------------------------------------------------
TypeOK ==
    /\ adapter \in Adapters /\ body \in Bodies /\ script \in Scripts /\ arrived \in 0..body.len
    /\ stage \in Stages /\ complete \in BOOLEAN
    /\ reply \in {"none", "declined", "error", "admin", "answer"}
    /\ link \in Links \cup {"none"} /\ server \in Servers \cup {NoAffinity}
    /\ ask \in Asks \cup {Silent} /\ order \in Orders \cup {"none"}
    /\ choice \in Servers \cup {NoAffinity}
    /\ taken \in 0..arrived
    /\ status \in {"more", "end", "error"}
    /\ pc \in {"read", "launch", "find", "send", "copy", "refill", "end", "call", "await", "done", "failed"}
    /\ long \in BOOLEAN
    /\ content \in Seq(Nat) /\ announced \in Nat /\ remaining \in Nat
    /\ intact \in BOOLEAN /\ resent \in BOOLEAN
    /\ db \in [head : BOOLEAN, got : Seq(Nat), eod : BOOLEAN, bad : BOOLEAN]

\* Every block is as long as its head says, and none comes before the request or
\* after the end.  Only a long request that is sent again can be garbled: its
\* beginning has been overwritten.
FramesMatch == db.bad => resent /\ long

\* The DB Server has the bytes of the content that were taken from the client,
\* in order, none twice and none of what the buffer held before, unless the
\* client has left.
ContentInOrder ==
    ~gone /\ ~db.bad => Len(db.got) <= taken /\ db.got = SubSeq(Content, 1, Len(db.got))

\* A request is answered when the DB Server has all of its content.
AnsweredWhenComplete ==
    reply = "answer" /\ ~gone /\ body.partial = 0 => db.got = Content

\* No block is longer than the strings that the DB Server which gets it takes.  The
\* size comes from the first server, and no server here takes shorter ones.
BlocksFit == pc \in {"copy", "end"} => Len(content) <= MaxString[server]

\* A request whose variables name a server, in the order of the configuration, the
\* query before the form, is given that server, when there is more than one, the
\* variables are looked at first and the form is in the buffer.
AffinityFollowed ==
    pc = "find" /\ Len(Names) > 1 /\ order = "variable" /\ (ask.form = <<>> \/ (body.how = "length" /\ ~long))
        => choice = AskedByVariable(ask)

\* Not so (README, section 6): "server_affinity variable:[variable(s)] cookie:[name]",
\* v2.1.9.  A cookie that names a server has its request sent there.
CookieFollowed ==
    pc = "find" /\ order = "cookie" /\ FindCookie(ask) # NoAffinity => choice = FindCookie(ask)

\* Apache and IIS see no end of a chunked content whose client has left: the
\* thread sends the DB Server empty blocks for ever.
Endless == gone /\ body.how = "chunked" /\ ~evented

\* A request is at its end: with a reply, given up by its client, left behind
\* for want of a thread, or, under NGINX, the end of the process for a script
\* that has no path or is the administrator's.
Ended ==
    \/ stage = "over" /\ reply # "none"
    \/ stage = "dropped" /\ gone
    \/ stage = "stranded" /\ ~gone
    \/ stage = "crashed" /\ (unconfigured \/ administrative)

\* Every request comes to such an end; save when its client leaves in the
\* middle of a chunked content, see the README.
UploadEnds == (~Endless) ~> Ended
===========================================================================
