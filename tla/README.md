# A TLA+ development of mg_web

mg_web is a web server extension (NGINX, Apache, IIS) that hands HTTP requests to
DB Servers (InterSystems Cache/IRIS, YottaDB) over TCP or through the API of the
database, and returns their answers. This directory holds TLA+ modules that model
the program from the handlers of the web servers to the connections of the DB Servers,
the TLC configurations that check them, and theorems proved with TLAPS.

Line numbers below refer to `src/mg_web.c` unless a file is named.

## 1. Inventory

| Component | State | Operations | Hard behaviour |
|---|---|---|---|
| Server selection (2882-3186) | `MGSRV.offline`, `time_offline`, `MGPATH.server_no` | `mg_obtain_server`, `mg_server_offline`, `mg_server_online`, `mg_server_alternatives` | round robin over a list with offline, retried and reserved servers; its loop runs under the lock of all requests |
| Connection pool (2548-2879, 3189-3440) | the list `mg_connection` of `DBXCON` records: `alloc`, `inuse`, `connected`, `psrv`, `time_request` | `mg_obtain_connection`, `mg_connect`, `mg_release_connection` | threads share it; the lock covers the scan only, not the connect nor the release |
| Request processing (644-1377, 9002-9208) | `MGWEB`: `server_no`, `pcon`, `failover_possible`, `mg_connect_failed` | `mg_web_process`, `mg_web_execute`, `netx_tcp_command` | failover, reconnect and resend, queueing, timeouts |
| Response handling (865-1034, 1111-1339, 1381-1472) | response headers, `response_remaining` | header parsing, content length or chunks, copying to the client | long and streamed answers, clients that leave |
| Framing (340-616, 690-707, 819-831, 1489-1550, 1797-1917, 7152-7201, 9211-9515) | the request buffer and the pointers into it, block headers, `stream_tail`, `protocol_distressed` | `mg_web`, `mg_web_execute`, `mg_execute_request_long`, `mg_add_block_size`, `netx_tcp_read_stream` | a buffer that is written over for each server; markers split between reads, sizes at their limits |
| WebSockets (`src/mg_websocket.c`) | `MGWSRSTATE`, `MGWEBSOCK`, a reader thread | `mg_websocket_incoming_frame`, `mg_websocket_dbserver_read`, `mg_websocket_disconnect` | reads that end anywhere in a frame; two threads that shut each other down |
| Server-sent events (1138-1200) | the connection of the stream | the SSE branch of `mg_web_process` | either end leaves |
| Server affinity (698-733, 3652-4209) | `server_no` of the request | `mg_find_sa_variable`, `mg_find_sa_cookie` | a form cut at the end of a block; several sources that disagree |
| Mutex (7942-8123) | `DBXMUTEX.thid`, `stack` | `mg_mutex_lock`, `mg_mutex_unlock` | recursion decided by an unlocked read of the owner |
| Administration (`src/mg_webstatus.c`) | none of its own | `mg_admin`, `mg_status` | changes servers under running requests |
| Configuration (2432-2493, 4581-5477) | `mg_server`, `mg_path` | parse and verify | before the first request only |
| Worker start and exit (4212-4578) | everything global | `mg_worker_init`, `mg_worker_exit` | exit under running requests |
| Memory (3443-3649) | request and response buffers | `mg_malloc`, `mg_extend_response_memory` | failure |
| Database APIs (5480-7149) | loaded libraries | `isc_open`, `ydb_open`, calls | one binding shared by all requests |
| TLS (`src/mg_webtls.c`) | sessions | wrappers of OpenSSL | sharing of the loaded library |
| Adapters (`src/nginx`, `src/apache`, `src/iis`) | request contexts of the web server | handlers, thread-pool tasks, `mg_client_read`, `mg_client_write` | NGINX calls back, and runs the handler twice; three ways to report the end of a content |

How they interact: an adapter parses a request, finds its path and calls `mg_web`
on a thread of the worker process. `mg_web_process` may take a server number from a
cookie or a variable (affinity), asks the pool for a connection to that server or
to the one `mg_obtain_server` picks, executes the request over it, copies the answer
and releases the connection. Threads meet in the pool, in `MGSRV.offline` and in the
cursor of the path. `mg_global_mutex` protects the scan of the pool (2573-2698), and
the marking of servers; everything else is done without it. There is nothing
persistent and the worker processes of a web server share nothing, so there is no
crash recovery to model: a restarted worker starts from `Init`.

What makes each part correct:

* selection: a server that may be used is found if there is one; a reserved
  server is never picked; an offline server is retried by one request at a time
  and in the end is either back or retried again; the search ends;
* pool: a busy connection has one user, belongs to the server it is used for, is
  not lost, and their number respects `max_connections`;
* requests: each is answered; one that a server has received is not given to
  another one; a reserved server is neither the source nor the target of a
  failover;
* packing: each DB Server that is tried reads the variables, the content and the fields meant for
  it, and nothing is written outside the buffer;
* uploads: the DB Server gets the content of the client, in order and complete before
  the answer is given, in blocks whose heads tell their lengths and that it can take; a
  request goes to the server its variables or its cookie name, and comes to an end;
* answers: the client sees a prefix of what the application wrote, never bytes of another
  answer, and can tell a whole answer from a part of one; a connection kept for the next
  request has nothing of this one left on it;
* WebSockets: the DB Server hears each message once, whole and in order, however the
  bytes are cut into blocks; a session that either side leaves ends, with both threads;
* API bindings: one request at a time is in the API, and none calls through a library
  that is gone.

## 2. Modules

| Module | Models |
|---|---|
| `ServerList` | the servers of a path and the decisions that read them: `Eligible`, `Advances`, `SearchOutcome`, `Alternatives`, `Preferable` |
| `ServerSearch` | `mg_obtain_server`, one iteration of its loop a step |
| `RequestDispatch` | the requests of a worker process, their threads, the pool and the servers |
| `MCRequestDispatch` | instances of `RequestDispatch` for TLC |
| `AnswerPipe` | what the client of an answer is promised: a growing prefix of the content, and a verdict |
| `AnswerStream` | the way of an answer from the DB Server to the client, implementing `AnswerPipe` |
| `RequestIntake` | the handlers of the three adapters, and the path of a request |
| `ServerAffinity` | which server the variables and the cookies of a request name |
| `Upload` | the way of the content of a request to the DB Server; it extends the last two |
| `RequestBuffer` | the blocks of a request in their buffer, filled in for each server, and the DB Server's reading of them |
| `WsMessages` | what a WebSocket promises the DB Server: the messages of the client |
| `WsFrames` | the blocks a WebSocket is read in, and the decoder of the frames in them |
| `WebSocket` | the two threads of a WebSocket and its shutdown, implementing `WsMessages`; it extends `WsFrames` |
| `RecursiveLock` | what the mutex promises: an owner, and how often it has taken the lock |
| `DbMutex` | `mg_mutex_lock` and `mg_mutex_unlock`, implementing `RecursiveLock` |
| `ApiBinding` | one connection record bound to the API of a database, and the requests that share it; it contains `DbMutex` |
| `MCAnswerStream`, `MCUpload`, `MCRequestBuffer`, `MCWebSocket` | what the environment of these modules does, in instances for TLC |
| `ServerSearch_proofs`, `RequestDispatch_proofs`, `Upload_proofs`, `RequestBuffer_proofs`, `AnswerStream_proofs`, `WebSocket_proofs`, `DbMutex_proofs`, `ApiBinding_proofs` | theorems |

`RequestDispatch` uses the operator `SearchOutcome` for a whole call of
`mg_obtain_server`, which is legitimate because the call runs under
`mg_global_mutex`; that the loop computes the operator is the property
`LoopMatchesOutcome` of `ServerSearch`, checked and proved. In the same way it says in one
step, `ExecuteOk` or `NoAnswer`, what `Upload` and `AnswerStream` tell block by block and
byte by byte for one thread: a request shares nothing but its connection record, and the
pool gives that to one request (`ExclusiveUse`). `Upload` ends where the answer begins,
and `AnswerStream` begins there.

### ServerList and ServerSearch

Servers are numbered from 1, and 0 is the `-1` of the code. `offline[s]` has the
values of the code: 0 online, 1 offline, 2 being retried. The clock is abstracted
to `due[s]`: more than `health_check` seconds have passed since `time_offline`.
`Begin` enters the loop; `PickRetry`, `PickOnline` and `PassOver` are the three ways
through its body (2907-2922), and `MoveOn` its tail (2929-2937). Between searches
`MarkOffline`, `MarkOnline` and `HealthCheckDue` change the servers in any way the
rest of the program can.

### RequestDispatch

`pc[t]` says where thread `t` is in `mg_web_process`:

| `pc` | Code |
|---|---|
| `obtain`, `queued`, `spinning` | `mg_obtain_connection` under the lock; its sleep (2636); its search that does not end |
| `reuse`, `fresh`, `connect`, `discard` | the rest of `mg_obtain_connection`, without the lock |
| `unavailable` | 782-816: no connection |
| `execute`, `reconnect`, `resend` | `mg_web_execute`, for network servers `netx_tcp_command` |
| `failed`, `sweep`, `drop`, `dropped`, `decide` | 1035-1060: the request failed; `mg_server_offline` and its loop; the two halves of `mg_release_connection`; failover or not |
| `respond`, `errorpage`, `exit`, `exiting` | the answer, `mg_web_exit` and the release |

What the code does under the lock is one step. Outside it a step ends wherever
another thread could see the difference: `Claimed` (record taken, its server not yet
set), `PrepareNew`, `ConnectFails` then `Discard` (`alloc` cleared by `mg_connect`,
then `alloc` and `inuse` by its caller), `ReleaseSlot` then `UnallocateSlot`.
`LockFree` is the guard of every step that takes the lock; only `ObtainSpins`
makes it false.

`delivered` is a history variable: the servers that have received the request in
full. No action reads it.

The constant `Faults` selects what can go wrong in an instance. All that the
environment decides (a connect fails, a read breaks, the client leaves, time passes,
an operator acts) is nondeterministic.

Abstractions, and why they keep the properties' meaning:

* one path. Servers of several paths share `MGSRV`, and other paths can only mark
  servers online and offline, which the administrator's actions do as well;
* the attempts of `mg_connect` (3211-3262) are one step: they touch nothing another
  thread reads until the last of them;
* an answer is one step, `ExecuteOk`, with the rest of a long answer in `Respond`
  (see `AnswerStream`). A long request, sent in chunks (9059-9071), is sent as one (see
  `Upload`);
* the scan of the pool sees one state of it: it runs under the lock, but the
  releases do not, so a real scan can also see a record change while it passes;
* WebSockets and server-sent events, which keep a connection, are left out here, as are
  the error returns for a server without a database type or an installation path and
  for a response buffer that cannot be allocated.

### AnswerPipe and AnswerStream

A byte is a token: which request it belongs to, and whether it is the `n`-th byte of the
content, a part of the end marker, a head or memory that was never received. So a property
can tell a byte of this answer from one of the last. The heads, 10 bytes before an answer and
4 before a block, are one token each; the HTTP header of the application travels in the first.

| `pc` | Code |
|---|---|
| `head` | `netx_tcp_command` after the request is sent (9078-9130), with its one resend |
| `body` | an answer of known length (9158-9171) |
| `ascii`, `blockHead`, `nextHead`, `block` | `netx_tcp_read_stream` (9211-9515) in its two modes; the end marker, and the distress mode of a block stream whose heads are lost |
| `full` | the buffer is full: chunk the answer, stop counting, or `mg_extend_response_memory` |
| `failed`, `frame`, `open` | the error page; the choice of the HTTP framing; the header written (865-1034, 1111-1136) |
| `write`, `rest` | the copying loop (1201-1339) |
| `sse`, `sseEnd` | server-sent events (1138-1200) |
| `exit` | `mg_release_connection`: closed or kept |

`Faults` has a silence, an end or a reset of the DB Server in any read, no memory, and
a browser that leaves. A read that asks for more than was ever sent ends with a timeout.
With `"short"` a read that must fill its buffer may stop in the middle, in time or with the connection.
`ReadHead` then takes a part of the ten bytes for a whole head, as the code does (`netx_tcp_read` returns
the positive number of bytes it has, 9835): the mode is not that of a stream, the size has
the bytes that came, at one of the `Places`, and zeros of the request that was in the same
memory, and a size below `PreLen` makes the next read ask for a negative number of bytes. A part of the head
of a block (9352, 9429) is left out. The connection is kept from one request to the next, with what
is left on it; a request that finds the rest of another's answer there is followed until it
takes the first byte for a head that is none.

`AnswerPipe` is one request after the other: `content`, the part of it the client has
`seen`, and its `verdict`. The refinement takes the verdict from the framing, as a client
does: `whole` when the announced length is there or the last chunk has come, `cut` when
not, `open` where the end of the connection is the end of the answer.

Abstractions: the header of the application is not parsed; what it can say is in the
record of the answer (`clen`). An answer through an API is a string and not
modelled here (`ApiBinding`). NGINX and Apache write what they are given.

### RequestIntake, ServerAffinity and Upload

`stage` (`RequestIntake`) is where a request is in its web server. Apache and IIS call
`mg_web` and are done when it returns. NGINX runs the handler, which only prepares the
request, reads the content, and calls `mg_payload_handler` back; if the content does not come
at once, that callback has the handler run again (`more`, `arrive`). The four ends are
`over`, `dropped` (NGINX gives up a request whose client left), `stranded` and `crashed`.

`pc` (`Upload`) is where it is in `mg_web` and `mg_web_process` while `stage` is `serve`:

| `pc` | Code |
|---|---|
| `read` | the content into the request buffer, or its first block (535-606; NGINX 442-584) |
| `launch` | the task of the thread pool (NGINX 655-704) |
| `find` | affinity (698-733), then a server and a way to it |
| `send`, `copy`, `refill`, `end` | `netx_tcp_command` and `mg_execute_request_long` (1797-1917) |
| `call` | the same through an API |
| `await` | the DB Server answers, is silent, or resets the connection: send again, once |

Byte `i` of the content is the number `i`, and 0 is a byte the buffer held before. A block
is its bytes and the length its head announces. `partial` says that the content ends in the
beginning of a multipart boundary, which the code holds back (1815). The three versions of
`mg_client_read` differ in what they report at the end of a content and when the client
has left: `StatusAfter`.

`ServerAffinity` takes a query, a form and the cookies as sequences of assignments; the
`cut` of an assignment is what is left of its value when the first block ends in it.
`FindVariable` and `FindCookie` are the results of the two functions, `PreferredServer` what
`mg_web_process` does with them.

Abstractions: characters, URL encoding and the two syntaxes of a form are left out; the
variables and fields that mg_web adds to a request are its head, which `db.head`
stands for (see `RequestBuffer`); the server a request gets when it names none is any of them.

### RequestBuffer

`buf` is what has been written so far, byte by byte, as the places are what matters: a byte
says which text or head it is a part of and where in it, so that a block with a foreign byte in
its head or its text is told from a whole one. `Pack` writes everything before the content and
notes the pointers (340-517); `InlineContent` and `FirstBlock` the content (556-616, the same
code in NGINX 527-613); `CloseBlocks` the end of the fields, the length of the whole and the
parameter (690-707). `Execute` is what happens for each server: the patches of
`mg_web_process` (819-831), then the end of the request and the mode, of `mg_web_execute` (1493,
1524, 1548, 1635). `ObtainFails` and `SendFails` lead to the next server or to the end.

`Heard` is the DB Server's side: it walks from head to head with `BlocksIn`, which is
`mg_get_block_size` with the loop of its user, into the part that holds the variables, the
fields and the content. `Told` says what that should give for the server of this attempt.

Abstractions: the values of variables and the names are opaque texts with a length; the names of
the fields and the room for their values are those of the code. The writes up to
the content are one step, as nothing reads the buffer in between. Which server is tried, and
whether there is another one, is the matter of `RequestDispatch`: here any may come next. The
resend of `netx_tcp_command` and what an answer does to the buffer are in `Upload`.

### WsMessages, WsFrames and WebSocket

A client is a sequence of frames, good or bad, and `Bytes` encodes them; a byte carries the
part it has in its frame (`is`), which the decoder does not look at to find its way: its
place comes from `state` alone, as in the code, and `TypeOK` says that it never takes one
kind of byte for another. `Start`, `LengthByte`, `LengthExt`, `MaskBytes`, `Payload`,
`FrameCloses`, `MessageFrame` and `ControlFrame` are the cases of
`mg_websocket_incoming_frame` (374-661); each takes as much of the block as the code does.
`ReadBlock` is `mg_websocket_read_block` with its two strategies. `Utf8` is the automaton
of `validate_utf8`; `IsText`, the definition it is compared with, is RFC 3629: bytes that can be
cut into characters.

`framer` is the thread of the request, `reader` the one that `mg_websocket_connection`
creates. `check`, `header` and `payload` are `mg_websocket_write_block`, which looks at
`closing` once and then writes without a lock; `release`, `signal`, `join` and `leave` are
`mg_websocket_disconnect`. `Meaning` gives the messages and the PINGs of a stream frame by
frame; the abstract `said` is what the frames that have arrived in full mean.

Abstractions: a frame is longer than 65535 bytes only if it is `huge`, more than the code
accepts, and then nothing of its payload is sent (`WellFormed`); the HTTP handshake is not modelled; a select and the read after it are one
step; what reaches the client is followed for PONGs only; another request that takes the
released connection before the reader has stopped is left out.

### DbMutex

The pthread mutex is `holder`, the fields of `DBXMUTEX` are `thid` and `stack`. A step is
one access to `thid` or to the pthread mutex. `mg_mutex_lock` is `Relock` (7982-7986), or
`Wait`, `Acquire` and `Sign` (8016-8020); `mg_mutex_unlock` is `Unstack` (8038-8042), or
`Erase` and `Release` (8043-8050). `nesting` is a history variable that only the bound
and the guard of the callers read: each caller unlocks what it has locked. `ApiBinding`
uses the steps without that guard, since there a thread can unlock what it has not
locked; what `pthread_mutex_unlock` then does is undefined, and either outcome is allowed.
`thid` is one word and is read and written as one; no caller passes a timeout.

`RecursiveLock` is owned from `Acquire` to `Release`: the writing of `thid` and `stack` is
internal to the implementation.

### ApiBinding

A network connection has one user; a record of an API server is given to every request
of the server (2651-2654), and the mutex of the record keeps them apart. `Mutex` is an
instance of `DbMutex` on the same variables. `stage[t]` says where thread `t` is:

| `stage` | Code |
|---|---|
| `prepare`, `mark` | the rest of `mg_obtain_connection` for a new record; `use_db_mutex` set (3285) |
| `lockOpen`, `allocate`, `load`, `attach`, `bind`, `unlockOpen` | the section of `mg_connect`: `isc_open` or `ydb_open` |
| `lockSpace`, `space`, `unlockSpace` | `isc_change_namespace`, whose lock is nested in that section and does not look at `use_db_mutex` |
| `opened`, `abandon` | 3310-3316, and 2853 when the opening failed |
| `lockCall`, `call`, `answer`, `unlockCall` | the section of `mg_web_execute` |
| `respond` | the response or the error page |
| `release`, `lockEnd`, `end`, `unlockEnd`, `exit`, `unload`, `unallocate` | `mg_release_connection` with `close_connection` |

A request whose call fails closes the record (1049) before it writes its error page, and
may close it again if the client is gone (1354): `failed` tells the two apart.
`library[b]` follows each binding ever made (a new one for each opening, none is freed)
from `mapped` to `attached`, `ended` and `closed`. A call through a binding that is
empty or closed ends the process: its function pointers are NULL, or point into a
library of which mg_web held the only reference. `dlclose(NULL)` may end it or return
an error, since C libraries differ. `calm` is a history variable: a request has opened
the binding with no other request in the record.

Abstractions:

* one record. Requests of other servers do not meet it. While it is being closed the
  scan of the pool may also give a request another record; what that does to the pool is
  the matter of `RequestDispatch`, and a second binding in the process is left out;
* the calls of a request are sampled at its first and at its last;
* `mg_malloc` fails only when `MaxBindings` bindings have been made;
* a failing `ydb_get_s` is a failing `ydb_init`: both leave a library that is loaded and a
  record that is not open;
* the branch of `mg_worker_exit` for GT.M is left out: `mg_connect` opens none.

## 3. Runs

`tlc -config <name>.cfg <module>`; the runs of the last two rows find the violations that
section 6 describes, the others find no error. The runs `Dispatch...` are of `MCRequestDispatch`;
`Answer`, `Upload`, `RequestBuffer` and `WebSocket` of the MC module of that name (`MCAnswerStream` for `Answer` and `AnswerTimeout`).

| Run | Instance | Shows |
|---|---|---|
| `SearchMixed` | 4 servers, 2 reserved (one in the middle, one last), no load balancing, 3 health-checked | `TypeOK`, `FoundIfAny`, `LoopMatchesOutcome`, `EndsUnlessSpinning` |
| `DispatchSerial` | 1 thread, 3 servers (server 2 reserved, server 1 health-checked), 3 records, affinity to the reserved server or out of range, every fault but a failed allocation and an idle timeout | `TypeOK`, `RetryInProgress`, `NoLostSlot`, `ReservedApart`, `NeverDispatchedAgain` |
| `DispatchHealthy` | 3 threads, a network and an API server, load balancing, limit 2, 3 records, faults stale, idle, memory, admin | `ExclusiveUse`, `RoutedToChosen` |
| `DispatchShared` | 2 threads, 2 servers, limit 1, 1 record, queue timeout 1, faults connect, receive | `NoLostSlot`, `NeverDispatchedAgain`, `EveryRequestAnswered` |
| `Answer` | 2 requests on one connection, 13 answers of the four kinds, buffers of 4 bytes, every fault but short reads and a reset before the first block | `TypeOK`, `ClientSeesThePipe`, `CleanReuse`, `AnswerEnds` |
| `Upload` | 3 adapters, network and API, 13 contents, 4 scripts, 2 servers, 2 variables and a cookie, blocks of 3 bytes, every fault | `TypeOK`, `FramesMatch`, `ContentInOrder`, `AnsweredWhenComplete`, `BlocksFit`, `AffinityFollowed`, `UploadEnds` |
| `RequestBuffer` | 47 requests, 3 servers (2 by network, 1 by API), up to 3 failovers, buffers of 240 to 276 bytes | `HeardAsTold`, `StaysInside` |
| `WebSocket` | 13 clients, NGINX and Apache, blocks of 16 bytes cut at 3 and at the end, a stream cut short by 2 bytes, every fault | `TypeOK`, `PongsMatch`, `ImplementsMessages`, `SessionEnds`, `EndTold` |
| `MutexNested` | 4 threads, sections nested up to 4 deep | `TypeOK`, `Exclusion`, `CountedByOwner`, `ImplementsLock` |
| `ApiFaulty` | 2 threads, InterSystems and YottaDB, 2 bindings, every fault | `TypeOK`, `SoleCaller`, `SafeUntilClosed`, `MutexGivenBack` |
| `AnswerTimeout` | 2 requests with answers of known length, silence and short reads | `TimeoutReported`, violated: see section 6 |
| `ApiError` | the smallest instance that shows it | `ServedSafely`, violated: see section 6 |

Bounds. Four servers give the search a first, a last and two middle positions and
let it wrap from each; the properties of a search are proved for every length. In
the request model the interesting encounters are of two requests and a third that
profits (a record released by one, taken by another, given to a third), so
`DispatchHealthy` has three threads; where failures multiply the states there are
two. `MaxSlots` is never below the number of records that the threads can hold at once in the
runs about the pool, and below it in `DispatchShared`, so that requests are refused, and
so that the record one request gives up is the one that the other takes. The other
faults that lose or resend a request (send, stream, client) are in `DispatchSerial`, and
the theorems `NoRecordLost` and `NoSecondDispatch` are about every pool, every set of
faults and any number of threads. `QueueTimeout` 1 lets a request be queued once, find
the connection still busy, and be refused. `Preferences` holds one reserved server and
one number past the end of the list (`DispatchSerial`), or an online one
(`DispatchHealthy`). `failovers` and `waited` are bounded by the code itself.

In `Answer` a buffer holds 4 bytes and may be overrun by 2, the end marker has 2, and the two
limits that change the framing are 6 (`MaxClen`) and 8 (`Chunking`). The answers are chosen
around these: content that fits, that fills a buffer to the byte, that needs a second and a
third, that passes one limit or both; a first block with the header alone; a marker that
falls across the end of a buffer at each of its bytes (content of 3 to 4 bytes before it).
Two requests are enough for the second to meet what the first has left. Lengths just above
`Room` of an answer of known length are left out: see the end of section 6.

In `Upload` a block has 3 bytes (the shorter of the limits of the servers), contents have
from 0 to 8: one block less a byte, one, one more, two, and two and a part, with a length and in
chunks; and one that ends in half a boundary. The queries and forms name a server by number,
by name, not at all, past the end of the list, and twice.

In `RequestBuffer` the blocks before the content take between 160 and 198 bytes, and the sizes
are chosen from there: a block takes 35 bytes where a string of 232 is the limit, and
79 where the largest buffer of 276 is, and the contents end at each byte around both. The names
of the servers have 1, 3 and 31 bytes, the last being the longest that the field takes, so that
a failover goes from each length to each. `StaysInside` speaks of three attempts: see section 6.
`HeardAsTold` leaves out what section 6 says of the buffer: events with a content or for an
API, and the first block of a long content when it is sent a second time.

In `WebSocket` each client is there for one thing: fragments with control frames between
them and a character split between two of them; each form of the length; a mask of 0; texts
that are none in the first, a middle and the last part; each frame that has to be refused.
A read ends after 3 bytes, which shifts from frame to frame, or at 16, or where the bytes
end. IIS reads as NGINX does and is left out of the run. `MaxSent` 1 gives the reader
something to write while the session is closed.

In `MutexNested` the threads of interest are one that owns the mutex, one that has just
given it up, one that takes it and one that waits. `ApiFaulty` has the two threads whose
encounter is the matter, one that closes and one that opens or calls, and two bindings,
so that the second is reached and used up. The search with load balancing is used by
`DispatchHealthy`; its properties are proved for both settings.

Symmetry is used for safety properties only: `Threads` occur in the model only as
indices.

Deadlock checking is off where the system may stop: in `DispatchSerial`, whose only thread
can end in the loop of `mg_obtain_server` for good (section 6); in the runs of `ApiBinding`,
where the worker process may end; in `Answer`, `Upload`, `RequestBuffer` and `WebSocket`, where the last request or
the session does.

Fairness. `ServerSearch` assumes that the thread in the loop is scheduled
(`WF_vars(Iterate)`). `RequestDispatch` assumes `WF_vars(Work(t))` for each thread: a
thread that can make a step makes one. The code justifies it because every wait has
a limit: connects and reads time out, the sleep of a queued request is one second
and is bounded by the queue timeout, and the lock is held across no call that
waits. Nothing is assumed about requests arriving, the passing of time, faults, or
the administrator. `ApiBinding` assumes `WF_vars(worker = "up" /\ Serve(t))`: a thread with a
request runs while the process does, and calls to the API return. No fair turn at the
pthread mutex is assumed, so what is stated is that a section ends
(`MutexGivenBack`), not that each thread gets its own. `AnswerStream` assumes that the thread goes
on, its reads ending by data or by the timeout, and never that the DB Server closes the
connection (`WF_vars(Thread /\ eof' = eof)`). `Upload` assumes that a step is made while there is
one: the reads of the content, the writes and the answer have their timeouts, and every step
of the environment in it is the outcome of a call. `WebSocket` assumes that each of the two threads
goes on when it can; nothing is assumed of the client and the DB Server, so `SessionEnds`
begins where the client leaves or has said CLOSE. No fairness between threads is assumed: a queued request may
lose the race for a connection each time, and is then refused, which is an answer.

## 4. Proofs

`tlapm <module>_proofs.tla`. The constants are only constrained by the named
assumptions `ServerListAssumption`, `RequestDispatchAssumption` and the like of the other modules.

The lemmas about the search as an operator of `ServerList` come first in the two modules that
need them. `OutcomeAtStop` and `OutcomeWithoutStop` say what `SearchOutcome` is from the first
place where it stops. `LeastElement` gives that place (by well-founded induction on the naturals,
used through a library theorem without an operator parameter), and `NoSpin` says that the search
cannot spin with load balancing or without reserved servers.

`ServerSearch_proofs`:

* `TypeCorrect` by a simple invariant;
* `SearchComplete`: a search that returns nothing leaves no eligible server, unless it began
  at a reserved server that is online, without load balancing: its cursor does not leave
  that server, and it gives up at once (2929-2937). `FoundIfAny` speaks of the last step; the
  inductive invariant `SearchInv` says that the servers from `start` up to the cursor,
  around the end of the list, are not eligible;
* `OutcomeCorrect`: the invariant `WalkInv` says that the cursor is some `k` steps from
  the start and that the search could stop at none of the `k` servers before.

`RequestDispatch_proofs`:

* `TypeCorrect`. `TypeOK` is not inductive: a step that follows `con[t]` or `server[t]`
  needs it to be a record or a server. `TypeInv` adds at which stages they are;
* `NoSecondDispatch`: invariant `CommittedInv`, a request that was delivered can no
  longer fail over, at whatever stage it is;
* `NoRecordLost`, for every set of faults. `NoLostSlot` is not inductive: a thread that is `Holding`
  a record after a failed reconnection may find nothing to release (`Sweep`), but `mg_connect` has
  unallocated the record by then. `MarkInv` says that a record which is allocated and
  in use is that of a thread that `WillRelease` it, and at which stages a connect can have failed;
* `ReservedKeptApart` from `TypeInv`: `FailOver` excludes reserved servers,
  `Preferable` keeps them, and the search does not return them (`OutcomeType`);
* `ExclusiveWhenHarmless` and `RoutedWhenHarmless`, under the assumption that no request
  fails: `Faults` is a subset of `{"stale", "idle", "memory", "admin"}`. Their
  invariant `PoolInv` says that a thread with a record has it marked in use, that
  two threads share only API records, and that no record is ever unallocated. With
  any other fault `ExclusiveUse` is false of the code (section 6), so this is as far
  as it can be proved;
* `LockAlwaysFree`: with load balancing or without reserved servers no thread keeps
  the lock in the search;
* `RetryStaysInProgress`, for one thread, a pool with room for every server and no operator who
  marks a server offline that has no alternative (`Alone`; the run `DispatchSerial`
  is such an instance). `RetryInProgress` needs to know that a retry is never refused for want of a
  record. `OneEach` gives that: each server has one record at the most, since a request that
  finds none of its server's takes a new one and an old one is idle when it is looked
  for (`MarkInv`), so by the pigeonhole principle a full pool has a record for
  every server (`OneEachFits`). `RetryInv` says at which stages a server is under retry and that the
  record is then that server's, so that the outcome of the connect is recorded for it. None of
  the three conditions can be dropped (section 6, and the end of this section).

`Upload_proofs`, from `UploadAssumption`, for every set of contents, servers, faults and sizes:

* `VariablesDecide`, about `ServerAffinity`, which `Upload` extends: the server that `FindVariable`
  finds is the one that the first source names, of all those that name one, in the order of the
  configuration, the query before the form, and by place. The lemmas reduce the nested searches
  of the code (`SelectInSeq` in `SelectInSeq`) to that order;
* `TypeCorrect` by a simple invariant;
* `FramesAlwaysMatch` and `BlocksAlwaysFit`. `FrameInv` says at each `pc` what the head announces,
  how much of the block there is (`HeadAgrees`), when the request in the buffer has been
  overwritten (`Overwritten`), and what the DB Server has by then (`Received`);
  `BlocksAlwaysFit` assumes that no server takes shorter strings than the first;
* `ContentStaysInOrder` and `AnswersComeLast`. `ContentInv` adds, for a client that stays, that
  the block is the part of the content that was taken last (`BlockIsPart`), that
  `remaining` counts the rest (`Progress`), and that what was sent before is a prefix of it
  (`Delivered`), so that the last block completes it;
* `AffinityIsFollowed`: the choice of `FindServer` is that of `VariablesDecide`.

`RequestBuffer_proofs`, from `RequestBufferAssumption`, for any variables, contents and servers:

* `MemoryStaysInside`. `StaysInside` is not inductive: what mg_web_execute writes depends on where the
  pointers are and how far the request has come. `MemoryInv` adds that the pointers are those
  noted when the request was packed (`PointersNoted`), and counts what is left at each stage
  (`RoomLeft`): 11 bytes or more until the blocks are closed, five less for each attempt, and
  the first block of a long content ending five bytes after the buffer. That each
  pointer has its room in what was packed (`PointersStayInside`; the block of events takes `mode`
  three bytes past the end) comes from lemmas about `FlattenSeq` (`FlattenConcat`, `FlattenPrefix`)
  and about the fields, for any number of variables before them.
* `BlocksAsWritten`: `BlocksIn`, which walks over a buffer, finds what was written one block after
  the other up to an end of data, each block with its sort and its text. The walk is a recursive
  function; that it exists, whatever the buffer holds, is `WalkExists`, which fills it in from its
  end;
* `ServersHearWhatTheyAreTold`. For `HeardAsTold` one must know every byte that the server walks over,
  and `ContentInv` says what they are: the buffer is a `Core` (the parameters, the head, the variables,
  the fields with a value in the room of each, the blocks of events and of a WebSocket, the
  content), then the first end, the empty parameter, and one end for each attempt (`Held`). In
  state `sent` the values are those meant for the server (`Meant`). A write into a room changes
  that room and nothing else (`FieldWrite`, `FieldOverwritten`), so a step maps one `Core` to
  another; the head counts the bytes after it, the first end included
  (`HeadSaysLength`), which makes what is sent four blocks and the third of them the request
  (`SentAsFramed`, `InnerUnderstood`). Two things that look wrong and are not
  come out of it: a shorter name is written over a longer one of the attempt before, and is
  understood because its NUL comes with it (`NameUnderstood`); and the mode of events goes over
  the length of the first end, which nobody reads (`ModeAddressed`). `ContentInv` quantifies over
  sequences and cannot be evaluated by TLC; the run checks what it implies.

`AnswerStream_proofs`, from `AnswerStreamAssumption` and `Sound`, for any sizes of the buffers, both limits,
any number of requests and every other fault. `Sound` says which answers and faults the code
handles: no read that must fill its buffer is short, no reset comes before the
first block, and the answers are `Regular`. Each of its conditions is there for an
entry of section 6, and the answers and the faults of the run `Answer` satisfy it
(`MixedAnswersAreRegular`).

* `TypeCorrect`, by `TypeInv`: the size counts at least what the buffer and the tail hold
  (`SizeCovers`), and a buffer of blocks overruns its end by no more than `Slack` (`ModeFits`);
* `ConnectionsReusedClean` and `AnswerImplementsPipe` by one invariant, `FlowInv`:
  there are four numbers, how much of the content has been written, is in the full buffers, in the
  one being filled, and in the tail, and the rest is on the wire. Its parts say where those
  bytes are (`Reached`, `OnWire`), what the mode and the size have to do with them (`Marked`,
  `Sized`), that a client which has been told something gets the rest without another
  extension of the buffer (`Committed`), what the framing has promised (`Framed`) and that the chain of
  buffers begins with one that is not empty (`Filling`). Every step has a lemma that gives the
  numbers after it (`FlowStep`), and what was written never shrinks, which is the
  refinement: a step is an arrival, a verdict or a stutter (`PipeStep`). That an answer is
  taken for whole only when it is comes from `Framed` and `OnWire`;
* `Ends` and `After`, and `FlattenSeq` in `RequestBuffer_proofs`, are recursive functions. What they satisfy at each argument
  (`EndsProperties`, `AfterUnrolls`, `FlattenAppend`) is proved from `RecursionExists`, which
  builds such a function up to any number by `NumberInduction`, and that from the least
  counterexample (`WFMin` of the library, which has no operator as a parameter).

`WebSocket_proofs`, from `WsFramesAssumption`, for every set of clients, every size and cut of
the blocks and every fault:

* `SessionInvariant`. The inductive invariant `SessionInv` says that there is a number `k` of frames
  up to which everything is done. The decoder is at the byte of frame `k + 1` for which its state
  takes the next one (`InFrame`), and under NGINX and IIS `remaining_length` is what is left of
  that frame after the head that has been read (`FrameRead`); the message and the control frame hold what
  has come of that frame and of the message before it (`MidFrame`, `HoldsPart`), with the state of
  `validate_utf8` after just these bytes (`Utf8After`); what the DB Server has heard is the messages
  of the first `k` frames (`HeardUpTo`), or a beginning of them once it has gone, and the PONGs
  are those of their PINGs, but for one that is being written (`PongsUpTo`). A decoder
  that has closed the session, unless for want of memory, leaves nothing that could still
  become a message (`Settled`): the frames after `k` were forbidden. `Staged` says which
  place of the thread goes with which state of the decoder. None of it can be left out: a `state`
  alone does not determine the byte it is at, and `HeardUpTo` is not inductive without what
  the frames hold;
* `TypeCorrect`: `TypeOK`, which says that no byte is taken for what it is not, follows from `InFrame`;
* `PongsCorrect` from `PongsUpTo`, as the conversation only grows (`Extends`);
* `MessagesImplemented`: the step that completes a message is `Hear`, the one that ends the thread's
  loop is `End`, with the verdict "whole" only if `Settled`, and every other is a stutter. That
  a message is refused exactly when it is no text comes from `TextIsUtf8`;
* `TextIsUtf8`, about the table of `validate_utf8`: `Utf8After` ends in `S0` exactly for `IsText`.
  Every character leads from `S0` back to `S0`, and where the automaton is back, a
  character began at most four bytes before (`StatesBefore`).

`Wires`, `Meanings`, `Utf8After` and `LengthAfter` are recursive functions and are
unfolded with `RecursionExists`, as in `AnswerStream_proofs`.

`DbMutex_proofs`, from `DbMutexAssumption`:

* `TypeCorrect`, `MutualExclusion` and `NestingCounted`. The invariant `MutexInv` says at each place of
  `mg_mutex_lock` and `mg_mutex_unlock` who holds the pthread mutex and who is the recorded
  owner. What makes the unlocked comparison harmless is that `thid` is the id of a thread
  only while that thread is outside both functions with the mutex held, so no thread
  but `t` can make `thid = t` true or false;
* `MutexImplementsLock`: under that invariant every step is one of `RecursiveLock` or a
  stutter.

`ApiBinding_proofs`, from `ApiBindingAssumption`:

* `TypeCorrect`. A thread that shared the record before `use_db_mutex` was set can unlock
  what it has not locked, so the counters need their own argument: `OwnerCounted` says that
  the recorded owner has locked more often than is stacked;
* `CallsSerialised`, for both kinds of database and every set of faults. `TraceInv` holds
  from the start and bounds what such threads can leave behind: a request that is over
  has no trace in the mutex. Hence, when a request opens the binding with no other about,
  the mutex is as it should be, and from then on `CalmInv` says that a thread is in its
  section only while it holds it, with one lock stacked in the inner section.
  `p_ydb_exit`, which is called without the lock (3375), is not among the calls that the
  property is about;
* `SafeBeforeClosing`, for both kinds of database and every set of faults. `BoundInv` says that a
  record that is allocated is attached or on its way to be (`Midway`), which makes the first quiet
  opening find it attached; that from then on every request finds it so (`Serving`); and, once a
  binding has been closed, that it stays closed (`Gone`): a request may load a closed
  binding anew only if it was opening the record at that time.

Only model-checked: the liveness properties (`EndsUnlessSpinning`, `EveryRequestAnswered`,
`MutexGivenBack`, `AnswerEnds`, `UploadEnds`, `SessionEnds`, `EndTold`), which are out of the prover's
reach. Every invariant that a passing run checks is stated by a theorem, and so are the three
refinements; some theorems need more than the run assumes, as said above.

`RetryInProgress` is checked and proved for one thread. With two, a retrying request that is
queued can see its server taken offline and retried by another, and a record that is given up twice
after a failed connect (3266, then 2853) can come to two requests, so that the connect of one is
recorded for the server of the other (`RequestDispatch`: `Threads = {t1, t2}`, `SrvMax = 2`,
`MaxSlots = 6`, `HealthChecked = {1}`, `Faults = {"connect"}`). What survives any interleaving is
`NeverDispatchedAgain`.

## 5. Mutants

The definitions marked MUTANT in the modules are faults that a change of the code
could introduce (several are the state of the code before a release that fixed it);
`PROJECT.json` names, for every property, one that it catches.

## 6. Findings

TLC finds the runs of these names violated.

* `ApiError`: an error in one API request closes the binding that the other requests share;
  the next of them to call goes through an unloaded library or a NULL pointer.
* `AnswerTimeout`: `README.md:307` says "Return a HTTP status code of '504 Gateway Timeout' if a
  request to the DB Server times-out". What the read of a body of known length returns is not looked at
  (9165), so after a timeout inside it the client is sent the status and the length of the head,
  the bytes that came, and the old content of the buffer. A timeout inside the ten
  bytes of the head passes as well (9104, 9117): `netx_tcp_read` returns the bytes it has.

The models show more. For some of it a text of the repository says what should be, and the
property is stated in the module; for most there is none. Where an instance and a property are
named, TLC finds that property violated in that instance.

About the pool, the search and the API:

* a request without an answer releases its connection at 1049, keeps `pweb->pcon`, and releases it
  again at 1354. Another request that obtained the record in between has its connection put
  back into the pool while it uses it (`RequestDispatch`: `Threads = {t1, t2}`, `SrvMax = 1`,
  `MaxSlots = 2`, `Faults = {"receive"}`, invariant `ExclusiveUse`);
* a server whose retry fails stays in state 2, which is never due for a health check (2908), when
  `mg_server_offline` refuses to mark it for lack of an alternative, 2983-2988 (one thread,
  `SrvMax = 1`, `HealthChecked = {1}`, `Faults = {"connect", "admin"}`, property `RetryConcluded`),
  or when the request that was to retry it finds no record in the pool and is
  refused (the instance of `DispatchSerial` with `MaxSlots = 1`, invariant `RetryInProgress`);
* without load balancing, a search that has passed an offline server and comes to a reserved one
  that is online never ends (2929), with the lock held (one thread, `SrvMax = 3`,
  `Exclusive = {2}`, `MaxSlots = 2`, `Faults = {"connect"}`, property `EveryRequestAnswered`);
* `mg_worker_exit` ends and unloads the API with each record, and then ends it again (4506) through
  the library that is gone (`ApiBinding`: one thread, `MaxBindings = 1`, no faults, property
  `ExitsGracefully`);
* `mg_release_connection` clears `inuse` before `alloc` (3416, 3417) without the lock; a
  request that arrives between the two takes the record as an idle connection, a later
  one takes it as a free record. This is the reason why `ExclusiveWhenHarmless`
  excludes the loss of a client;
* `psrv` of a new record is set after the lock is released (2794), so concurrent requests
  do not count each other against `max_connections`;
* without load balancing, a search that starts at a reserved server ends with nothing
  (2935): `GivesUpAtOnce` of `ServerSearch`;
* an API request that failed, and whose client is gone, releases the record at 1049 and at
  1354; the second time `mg_dso_unload` passes NULL to `dlclose`: the first disjunct
  of `Unload`.

About answers:

* a short read in an answer, as in `AnswerTimeout`, also leaves `close_connection` at 0: what the DB
  Server sends late stays on a connection that is kept, and the next request reads it for its answer
  (the constants of that run, invariant `CleanReuse`). A part of the head of a block is
  not noticed either (9352, 9429), and a part of a head that a reset follows (9104) stands in the memory
  of the request, which is sent again from there. The run `Answer` has no short reads, and nothing that stops inside such
  a body but by the end of what was sent;
* an answer of known length that is longer than the buffer by less than the 5 bytes before the
  content makes `response_remaining` wrap (9160-9163);
* if the first buffer of a streamed answer has the header and no content, `get` is 0 and the
  further buffers are not written, although the Content-Length counts them (1207);
* a stream in distress carries its end marker to the client. The end that CMT54 makes of five
  seconds of silence in such a stream (9258-9261, 9296) is never reached, as the test of v2.8.49
  (9290) comes before it: silence is a failure there as well (`AsciiFails`);
* a connection that is reset before the head of the first block tells the client of a whole and
  empty answer: 9353 looks for a timeout and for an end only, the head is still zero,
  and 9387 returns 0 (`"early"` added to `Faults`, property `ClientSeesThePipe`). The run `Answer`
  has no such reset;
* a long request that is sent again after its head was lost is sent from an overwritten buffer
  (`Overwritten` of `Upload_proofs`);
* under NGINX, an answer without content leaves `output_head` NULL, and `mg_execute` (727-754 of the
  adapter) finalizes the request with a 500 after its header.

About uploads (`Upload`, `RequestIntake`):

* a cookie never chooses a server. `mg_find_sa_cookie` returns the number it found,
  but unlike `mg_find_sa_variable` (3750) does not assign `pweb->server_no`, and `mg_web_process`
  (711-727) uses the result only to decide whether to look at the variables. `README.md:176`
  documents `cookie:[name]` and `README.md:182` speaks of using cookies for server affinity
  (the constants of the run `Upload`, invariant `CookieFollowed`);
* with a Content-Length the return of `mg_client_read` is not looked at: when the client has
  left, the block is filled with what the buffer held before (`Filled`);
* a chunked content under Apache or IIS whose client leaves is followed by empty blocks for
  ever (`Endless`);
* the size of a block is that of the first server of the path (417, 558), whichever server
  then gets it (`BlocksFit` holds where no server takes less);
* the test for a boundary at the end of a block (1815) compares `blen > csize`, so that only a
  block shorter than the boundary is looked at, which can only be the last one, and the boundary is only set when affinity has looked for
  variables;
* NGINX: a script without a path, or the administrator's with a content, is served through null
  pointers (467 and 535 of the adapter); a request that the thread pool does not take is
  never finished (673-701);
* a value cut by the end of the first block of a form may name another server (3717-3745), and a
  form sent in chunks is not searched. With four affinity variables the configuration writes a
  fifth pointer past the array (4980).

About the buffer of a request (`RequestBuffer`, with the constants of its run unless others are named):

* the block `sse=1` moves `pweb->mode` to the end of its own text (511), so that
  `mg_web_execute` writes the three bytes of the mode there: over the length of a content
  that follows (a POST that asks for events), and not into the field `mode`, which says
  `tcp` for an API as well. `README.md:304` introduces events, `README.md:31` says that
  Content is the request payload. Events without a content over the network are not affected, and
  `HeardAsTold` includes them (invariant `EventsAsTold`);
* `mg_web_execute` appends the end of the request each time (1493). The room before a long content
  (581: "space for headers EOF marker, content chunk length and param = '' AND
  5 byte header for content itself") is enough for one; the next is written over the
  head of the first block. A failure to send the first part of the request, and then a
  second server, are enough (invariant `BlockWholeAgain`);
* 15 bytes are kept free for what comes after a content (560-562), but 20
  are written, and 15 come before the buffer (1496): a content in the last 20 bytes of what is
  allowed makes a request longer than `max_string_size`, which is passed to the API as a string
  (`Servers = {1, 2}`, `Link <- OnlyApi`, `NameLength <- ShortNames`, invariant `RequestFits`);
* there are 17 bytes after the buffer for what is written beyond its size; each attempt takes
  5 bytes, so that three attempts with a content that just fits are within it and a fourth is not
  (`StaysInside` without its premise);
* the field for the name of the server has room for 31 characters and a NUL, and the name is
  copied with the length it has (822): a longer one reaches the next block.
  `RequestBufferAssumption` excludes it.

About WebSockets:

* frames of the two threads can mix on the wire of the client: `mg_websocket_write_block` looks at
  `closing` and writes without a lock, and both may send CLOSE;
* a WebSocket that the DB Server refuses goes through the same shutdown, joins a thread that was
  never created and writes to and closes descriptor 0 (`JoinNothing`, `Signal`);
* the connection is given back to the pool (295) before the reader has stopped;
* the payload limit is one of a frame, not of a message, and the result of `netx_tcp_write` is not
  looked at.

`SoleCaller`, `SafeUntilClosed` and `MutexGivenBack` speak of the time after a first quiet opening.
Before it, a request that shares the record while it is being opened may find
`use_db_mutex` still 0 when it locks and 1 when it unlocks (`mg_web.h` 382-400), or call
through a binding that does not exist yet; no text of the repository speaks of that
moment, so it is listed as a hazard and not as a finding.

## 7. Plan

What is left, in this order:

1. a request that takes the connection of a closing WebSocket: `WebSocket` with two sessions on
   one record of the pool; server-sent events with the pool of `RequestDispatch`;
2. `WorkerLifecycle`: `mg_worker_init` and the rest of `mg_worker_exit` around requests;
3. the header of an answer, as far as it decides about framing, and the handshake of a WebSocket.

Not modelled: the parsing of the configuration, which happens before the first request, and of
characters in queries and headers; logging and the pages of the administrator (sequential
text processing, abstracted to its results); the hooks and directives of the web servers; GT.M,
which `mg_connect` does not open; the wrappers of OpenSSL, whose results are those that the models
already choose from.
