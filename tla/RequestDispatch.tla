------------------------- MODULE RequestDispatch -------------------------
(***************************************************************************)
(* The life of the requests of one web server worker process, from the     *)
(* choice of a DB Server to the return of its connection to the pool:      *)
(* mg_web_process with mg_obtain_connection, mg_connect, netx_tcp_command, *)
(* mg_server_offline, mg_server_online and mg_release_connection.          *)
(*                                                                         *)
(* The threads of the process share the pool (the list mg_connection of    *)
(* DBXCON records), the state of the DB Servers and the round-robin cursor *)
(* of the path.  What the code does under mg_global_mutex is one step; what*)
(* it does outside is split at every write that another thread can observe.*)
(***************************************************************************)
EXTENDS ServerList, FiniteSetsExt

CONSTANTS
    Threads,         \* threads of the worker process that serve requests
    MaxSlots,        \* pool records mg_malloc can provide before it fails
    Api,             \* servers bound through the API (net_connection = 0)
    MaxConnections,  \* max_connections of every server, 0 when not set
    QueueTimeout,    \* seconds a request may queue for a busy server
    Preferences,     \* server numbers an affinity cookie or variable may name
    Faults           \* what may go wrong in this instance, see below

\* "memory"  mg_malloc fails             "stale"   an idle socket has gone dead
\* "idle"    idle_timeout passes         "connect" mg_connect fails
\* "receive" no answer, or a bad one     "client"  the browser goes away
\* "send"    a send fails after a reconnect
\* "stream"  the rest of a long answer cannot be read
\* "admin"   an operator marks servers offline and online
FaultKinds == {"memory", "stale", "idle", "connect", "receive", "client", "send", "stream", "admin"}

ASSUME RequestDispatchAssumption ==
    /\ MaxSlots \in Nat \ {0}
    /\ Api \subseteq Srv
    /\ MaxConnections \in [Srv -> Nat]
    /\ QueueTimeout \in Nat
    /\ Preferences \subseteq 1..(SrvMax + 1)
    /\ SrvMax = 1 => Preferences = {}
    /\ Faults \subseteq FaultKinds

Slots == 1..MaxSlots
NoSlot == 0

VARIABLES
    offline,  \* psrv->offline of every server
    due,      \* its health-check interval has elapsed since time_offline
    cursor,   \* ppath->server_no
    nslots,   \* length of the list mg_connection, which only grows
    slot,     \* the DBXCON records
    pc,       \* where each thread is in mg_web_process
    server,   \* pweb->server_no, the server number of the request
    con,      \* pweb->pcon
    spare,    \* pcon_free, the first unallocated record the scan has seen
    waited,   \* queue_time
    failovers,     \* failover_no
    connectFailed, \* pweb->mg_connect_failed
    mayFailover,   \* pweb->failover_possible
    closing,       \* close_connection
    delivered      \* history: servers this request has been sent to in full

pool == <<nslots, slot>>
servers == <<offline, due, cursor>>
request == <<server, con, spare, waited, failovers, connectFailed, mayFailover, closing,
             delivered>>
vars == <<offline, due, cursor, nslots, slot, pc, server, con, spare, waited,
          failovers, connectFailed, mayFailover, closing, delivered>>

\* psrv is NoServer in a record just obtained from mg_malloc.  aged: the
\* record was last used more than idle_timeout seconds ago.
SlotRecord == [alloc : BOOLEAN, inuse : BOOLEAN, connected : BOOLEAN,
               psrv : Srv \cup {NoServer}, aged : BOOLEAN]
NewSlot == [alloc |-> FALSE, inuse |-> FALSE, connected |-> FALSE,
            psrv |-> NoServer, aged |-> FALSE]

Stages == {"idle", "obtain", "queued", "spinning", "reuse", "fresh", "connect", "discard",
           "unavailable", "execute", "reconnect", "resend", "failed", "sweep",
           "drop", "dropped", "decide", "respond", "errorpage", "exit", "exiting"}

TypeOK ==
    /\ offline \in [Srv -> Status]
    /\ due \in [Srv -> BOOLEAN]
    /\ cursor \in Srv
    /\ nslots \in 0..MaxSlots
    /\ slot \in [Slots -> SlotRecord]
    /\ pc \in [Threads -> Stages]
    /\ server \in [Threads -> 0..(SrvMax + 1)]
    /\ con \in [Threads -> Slots \cup {NoSlot}]
    /\ spare \in [Threads -> Slots \cup {NoSlot}]
    /\ waited \in [Threads -> 0..QueueTimeout]
    /\ failovers \in [Threads -> 0..SrvMax]
    /\ connectFailed \in [Threads -> BOOLEAN]
    /\ mayFailover \in [Threads -> BOOLEAN]
    /\ closing \in [Threads -> BOOLEAN]
    /\ delivered \in [Threads -> SUBSET Srv]

Init ==
    /\ offline = [s \in Srv |-> Online]
    /\ due = [s \in Srv |-> FALSE]
    /\ cursor = 1
    /\ nslots = 0
    /\ slot = [i \in Slots |-> NewSlot]
    /\ pc = [t \in Threads |-> "idle"]
    /\ server = [t \in Threads |-> NoServer]
    /\ con = [t \in Threads |-> NoSlot]
    /\ spare = [t \in Threads |-> NoSlot]
    /\ waited = [t \in Threads |-> 0]
    /\ failovers = [t \in Threads |-> 0]
    /\ connectFailed = [t \in Threads |-> FALSE]
    /\ mayFailover = [t \in Threads |-> FALSE]
    /\ closing = [t \in Threads |-> FALSE]
    /\ delivered = [t \in Threads |-> {}]

---------------------------------------------------------------------------
\* mg_global_mutex can be taken: no thread is stuck in mg_obtain_server,
\* which is the only place where a thread can keep it.
LockFree == \A t \in Threads : pc[t] # "spinning"

Goto(t, stage) == pc' = [pc EXCEPT ![t] = stage]

\* A request arrives.  With more than one server in the path, a cookie or a
\* variable may have named a server, in range or not.
Arrive(t) ==
    /\ pc[t] = "idle"
    /\ \E s \in Preferences \cup {NoServer} : server' = [server EXCEPT ![t] = s]
    /\ mayFailover' = [mayFailover EXCEPT ![t] = TRUE]
    /\ Goto(t, "obtain")
    /\ UNCHANGED <<pool, servers, con, spare, waited, failovers,
                   connectFailed, closing, delivered>>

\* The request is over and its memory is given back.
Finish(t) ==
    /\ Goto(t, "idle")
    /\ server' = [server EXCEPT ![t] = NoServer]
    /\ con' = [con EXCEPT ![t] = NoSlot]
    /\ spare' = [spare EXCEPT ![t] = NoSlot]
    /\ waited' = [waited EXCEPT ![t] = 0]
    /\ failovers' = [failovers EXCEPT ![t] = 0]
    /\ connectFailed' = [connectFailed EXCEPT ![t] = FALSE]
    /\ mayFailover' = [mayFailover EXCEPT ![t] = FALSE]
    /\ closing' = [closing EXCEPT ![t] = FALSE]
    /\ delivered' = [delivered EXCEPT ![t] = {}]

---------------------------------------------------------------------------
\* MUTANT of Allocated: the server of a record is not compared.
AllocatedToAny(s) == {i \in 1..nslots : slot[i].alloc /\ slot[i].psrv # NoServer}

\* The scan of the pool for server s.  It runs from the head of the list and
\* stops at a record it can take, or at the busy one that fills the quota.
Allocated(s) == {i \in 1..nslots : slot[i].alloc /\ slot[i].psrv = s}

\* MUTANT of Takes: busy records are handed out too.
TakesBusy(s) == Allocated(s)

Takes(s) == {i \in Allocated(s) : s \in Api \/ ~slot[i].inuse}
BusyUpTo(s, i) == Cardinality({j \in Allocated(s) : j <= i /\ slot[j].inuse})
Fills(s) == {i \in Allocated(s) \ Takes(s) :
                MaxConnections[s] > 0 /\ BusyUpTo(s, i) >= MaxConnections[s]}
ScanStop(s) == Min(Takes(s) \cup Fills(s) \cup {nslots + 1})

\* pcon_free after the scan.  It keeps the value of an earlier scan of the
\* same request, even when that record has been allocated since.
SpareAfter(t, s) ==
    LET free == {i \in 1..nslots : i < ScanStop(s) /\ ~slot[i].alloc}
    IN  IF spare[t] # NoSlot THEN spare[t]
        ELSE IF free = {} THEN NoSlot ELSE Min(free)

\* Thread t leaves the critical section with record i.  The stage says whether
\* use_existing is set.
Claimed(t, i, stage) ==
    /\ con' = [con EXCEPT ![t] = i]
    /\ spare' = [spare EXCEPT ![t] = NoSlot]
    /\ waited' = [waited EXCEPT ![t] = 0]
    /\ Goto(t, stage)
    /\ UNCHANGED <<failovers, connectFailed, mayFailover, closing, delivered>>

TakeExisting(t, s) ==
    LET i == ScanStop(s)
    IN  /\ i \in Takes(s)
        /\ slot' = [slot EXCEPT ![i].inuse = TRUE]
        /\ server' = [server EXCEPT ![t] = s]
        /\ Claimed(t, i, "reuse")
        /\ UNCHANGED nslots

\* A free record, else a new one at the end of the list.  Its psrv is what it
\* was (nothing, in a new one) until the thread sets it outside the lock.
TakeUnused(t, s) ==
    LET free == SpareAfter(t, s)
        i == IF free = NoSlot THEN nslots + 1 ELSE free
    IN  /\ ScanStop(s) = nslots + 1
        /\ i \in Slots
        /\ slot' = [slot EXCEPT ![i].alloc = TRUE, ![i].inuse = TRUE,
                                ![i].connected = FALSE]
        /\ nslots' = IF free = NoSlot THEN nslots + 1 ELSE nslots
        /\ server' = [server EXCEPT ![t] = s]
        /\ Claimed(t, i, "fresh")

\* Every allowed connection is busy: sleep a second outside the lock.  w is
\* queue_time, the seconds waited so far.
WaitTurn(t, s, w) ==
    /\ ScanStop(s) \in Fills(s)
    /\ w < QueueTimeout
    /\ waited' = [waited EXCEPT ![t] = w]
    /\ spare' = [spare EXCEPT ![t] = SpareAfter(t, s)]
    /\ server' = [server EXCEPT ![t] = s]
    /\ Goto(t, "queued")
    /\ UNCHANGED <<pool, con, failovers, connectFailed, mayFailover,
                   closing, delivered>>

\* CACHE_MAXCON after the queue timeout, or CACHE_FAILURE for want of memory:
\* the client gets 503 at once, without failover.
Refuse(t, s, w) ==
    /\ \/ ScanStop(s) \in Fills(s) /\ w >= QueueTimeout
       \/ /\ ScanStop(s) = nslots + 1
          /\ SpareAfter(t, s) = NoSlot
          /\ nslots = MaxSlots \/ "memory" \in Faults
    /\ Finish(t)
    /\ UNCHANGED pool

ScanPool(t, s, w) ==
    TakeExisting(t, s) \/ TakeUnused(t, s) \/ WaitTurn(t, s, w) \/ Refuse(t, s, w)

---------------------------------------------------------------------------
\* mg_obtain_connection up to the end of its critical section.

\* The preferred server, or the one of the attempt that has just failed when
\* it is still online.
ObtainPreferred(t) ==
    /\ pc[t] = "obtain" /\ LockFree
    /\ Preferable(offline, server[t])
    /\ ScanPool(t, server[t], 0)
    /\ UNCHANGED servers

Outcome == SearchOutcome(offline, due, cursor)

ObtainFound(t) ==
    LET s == Outcome.server
    IN  /\ pc[t] = "obtain" /\ LockFree
        /\ ~Preferable(offline, server[t])
        /\ Outcome.result = "found"
        /\ cursor' = Outcome.cursor
        /\ IF offline[s] = Offline
           THEN /\ offline' = [offline EXCEPT ![s] = Retrying]
                /\ due' = [due EXCEPT ![s] = FALSE]
           ELSE UNCHANGED <<offline, due>>
        /\ ScanPool(t, s, 0)

\* No server: all of them are marked online for the requests to come, where
\* the path has alternatives, and this one gets 503.
ObtainNone(t) ==
    /\ pc[t] = "obtain" /\ LockFree
    /\ ~Preferable(offline, server[t])
    /\ Outcome.result = "none"
    /\ IF Alternatives > 0
       THEN offline' = [s \in Srv |-> Online] /\ cursor' = 1
       ELSE UNCHANGED offline /\ cursor' = Outcome.cursor
    /\ Finish(t)
    /\ UNCHANGED <<pool, due>>

\* The loop of mg_obtain_server never ends, with the lock held.
ObtainSpins(t) ==
    /\ pc[t] = "obtain" /\ LockFree
    /\ ~Preferable(offline, server[t])
    /\ Outcome.result = "spins"
    /\ cursor' = Outcome.cursor
    /\ Goto(t, "spinning")
    /\ UNCHANGED <<pool, offline, due, request>>

\* MUTANT of Requeue: the time spent in the queue is not counted.
RequeueAnew(t) ==
    /\ pc[t] = "queued" /\ LockFree
    /\ ScanPool(t, server[t], 0)
    /\ UNCHANGED servers

\* A second later the scan starts again, for the server chosen before.
Requeue(t) ==
    /\ pc[t] = "queued" /\ LockFree
    /\ ScanPool(t, server[t], waited[t] + 1)
    /\ UNCHANGED servers

---------------------------------------------------------------------------
\* mg_obtain_connection after its critical section, without the lock.
NetworkSlot(i) == slot[i].psrv \notin Api

\* MUTANT of Revived: an answer does not bring the server back.
RevivedNever(s) == offline

\* A server under retry that answers is online again (no lock is taken).
Revived(s) == IF offline[s] = Retrying THEN [offline EXCEPT ![s] = Online] ELSE offline

\* The record was last used more than idle_timeout seconds ago.
Expired(t) == slot[con[t]].aged /\ server[t] \notin Api

\* A pooled connection is good enough unless it has been idle for too long.
UseExisting(t) ==
    LET i == con[t]
    IN  /\ pc[t] = "reuse" /\ ~Expired(t)
        /\ offline' = Revived(slot[i].psrv)
        /\ slot' = [slot EXCEPT ![i].aged = FALSE]
        /\ Goto(t, "execute")
        /\ UNCHANGED <<nslots, due, cursor, request>>

\* MUTANT of PrepareNew: the record keeps the server it was last used for.
PrepareOld(t) ==
    /\ pc[t] = "fresh" \/ (pc[t] = "reuse" /\ Expired(t))
    /\ slot' = [slot EXCEPT ![con[t]].connected = FALSE, ![con[t]].aged = FALSE,
                            ![con[t]].psrv = IF @ = NoServer THEN server[t] ELSE @]
    /\ Goto(t, "connect")
    /\ UNCHANGED <<nslots, servers, request>>

\* A new record, or an idle connection to be closed and made anew.
PrepareNew(t) ==
    LET i == con[t]
    IN  /\ pc[t] = "fresh" \/ (pc[t] = "reuse" /\ Expired(t))
        /\ slot' = [slot EXCEPT ![i].connected = FALSE, ![i].aged = FALSE,
                                ![i].psrv = server[t]]
        /\ Goto(t, "connect")
        /\ UNCHANGED <<nslots, servers, request>>

\* mg_connect: the attempts it may make, taken together.
Connected(i) ==
    slot' = [slot EXCEPT ![i].alloc = TRUE,
                         ![i].connected = IF NetworkSlot(i) THEN TRUE ELSE @]
NotConnected(i) ==
    slot' = [slot EXCEPT ![i].alloc = FALSE,
                         ![i].connected = IF NetworkSlot(i) THEN FALSE ELSE @]

ConnectOk(t) ==
    /\ pc[t] = "connect"
    /\ Connected(con[t])
    /\ offline' = Revived(slot[con[t]].psrv)
    /\ connectFailed' = [connectFailed EXCEPT ![t] = FALSE]
    /\ Goto(t, "execute")
    /\ UNCHANGED <<nslots, due, cursor, server, con, spare, waited, failovers,
                   mayFailover, closing, delivered>>

ConnectFails(t) ==
    /\ pc[t] = "connect" /\ "connect" \in Faults
    /\ NotConnected(con[t])
    /\ connectFailed' = [connectFailed EXCEPT ![t] = TRUE]
    /\ Goto(t, "discard")
    /\ UNCHANGED <<nslots, servers, server, con, spare, waited, failovers,
                   mayFailover, closing, delivered>>

\* Back in mg_obtain_connection the record is given up a second time.
Discard(t) ==
    /\ pc[t] = "discard"
    /\ slot' = [slot EXCEPT ![con[t]].alloc = FALSE, ![con[t]].inuse = FALSE]
    /\ con' = [con EXCEPT ![t] = NoSlot]
    /\ Goto(t, "unavailable")
    /\ UNCHANGED <<nslots, servers, server, spare, waited, failovers,
                   connectFailed, mayFailover, closing, delivered>>

---------------------------------------------------------------------------
\* MUTANT of CanFailOver: one attempt too many.
CanFailOverOnceMore(t) ==
    /\ SrvMax > 1 /\ SrvMax >= failovers[t]
    /\ server[t] \notin Exclusive
    /\ Alternatives > 0

\* Failover, in mg_web_process.
CanFailOver(t) ==
    /\ SrvMax > 1 /\ SrvMax > failovers[t]
    /\ server[t] \notin Exclusive
    /\ Alternatives > 0

\* MUTANT of FailOver: the failure of this attempt is held against the next.
FailOverBlaming(t) ==
    /\ failovers' = [failovers EXCEPT ![t] = @ + 1]
    /\ Goto(t, "obtain")
    /\ UNCHANGED <<server, con, spare, waited, connectFailed, mayFailover, closing, delivered>>

FailOver(t) ==
    /\ failovers' = [failovers EXCEPT ![t] = @ + 1]
    /\ connectFailed' = [connectFailed EXCEPT ![t] = FALSE]
    /\ Goto(t, "obtain")
    /\ UNCHANGED <<server, con, spare, waited, mayFailover, closing, delivered>>

\* mg_server_offline, which refuses when there is no alternative.
MarkOffline(s) ==
    IF Alternatives > 0
    THEN /\ offline' = [offline EXCEPT ![s] = Offline]
         /\ due' = [due EXCEPT ![s] = FALSE]
         /\ UNCHANGED cursor
    ELSE UNCHANGED servers

\* No connection: the server goes offline, and another one is tried or the
\* client gets 503.
Unavailable(t) ==
    /\ pc[t] = "unavailable" /\ LockFree
    /\ IF connectFailed[t] THEN MarkOffline(server[t]) ELSE UNCHANGED servers
    /\ IF CanFailOver(t) THEN FailOver(t) ELSE Finish(t)
    /\ UNCHANGED pool

---------------------------------------------------------------------------
\* MUTANT of Answered: failover stays possible after the request was run.
AnsweredInVain(t) ==
    /\ delivered' = [delivered EXCEPT ![t] = @ \cup {slot[con[t]].psrv}]
    /\ UNCHANGED <<server, con, spare, waited, failovers, connectFailed, mayFailover,
                   closing>>

\* mg_web_execute.  Over the network it is netx_tcp_command: send, and once,
\* when the send or the read of the answer breaks, reconnect and send again.
Answered(t) ==
    /\ mayFailover' = [mayFailover EXCEPT ![t] = FALSE]
    /\ delivered' = [delivered EXCEPT ![t] = @ \cup {slot[con[t]].psrv}]
    /\ UNCHANGED <<server, con, spare, waited, failovers, connectFailed, closing>>

CanSend(t) == ~NetworkSlot(con[t]) \/ slot[con[t]].connected

\* The answer arrives (its first part, when it is a long one).
ExecuteOk(t) ==
    /\ pc[t] \in {"execute", "resend"}
    /\ CanSend(t)
    /\ Answered(t)
    /\ Goto(t, "respond")
    /\ UNCHANGED <<pool, servers>>

\* netx_tcp_write fails: disconnect and reconnect.
SendFails(t) ==
    /\ pc[t] = "execute" /\ NetworkSlot(con[t])
    /\ ~CanSend(t) \/ "stale" \in Faults
    /\ slot' = [slot EXCEPT ![con[t]].connected = FALSE]
    /\ Goto(t, "reconnect")
    /\ UNCHANGED <<nslots, servers, request>>

\* netx_tcp_read breaks (not a timeout nor an end of file): reconnect.
ReadBreaks(t) ==
    /\ pc[t] = "execute" /\ NetworkSlot(con[t]) /\ CanSend(t)
    /\ "receive" \in Faults
    /\ slot' = [slot EXCEPT ![con[t]].connected = FALSE]
    /\ Answered(t)
    /\ Goto(t, "reconnect")
    /\ UNCHANGED <<nslots, servers>>

\* A timeout, the end of the stream, an error answer or, after a reconnect, a
\* broken read: the request has failed.  An end of file and a broken read
\* leave the record disconnected.
NoAnswer(t) ==
    /\ pc[t] \in {"execute", "resend"} /\ CanSend(t)
    /\ "receive" \in Faults
    /\ UNCHANGED slot \/ slot' = [slot EXCEPT ![con[t]].connected = FALSE]
    /\ Answered(t)
    /\ Goto(t, "failed")
    /\ UNCHANGED <<nslots, servers>>

ResendFails(t) ==
    /\ pc[t] = "resend"
    /\ ~CanSend(t) \/ "send" \in Faults
    /\ Goto(t, "failed")
    /\ UNCHANGED <<pool, servers, request>>

ReconnectOk(t) ==
    /\ pc[t] = "reconnect"
    /\ Connected(con[t])
    /\ connectFailed' = [connectFailed EXCEPT ![t] = FALSE]
    /\ Goto(t, "resend")
    /\ UNCHANGED <<nslots, servers, server, con, spare, waited, failovers,
                   mayFailover, closing, delivered>>

ReconnectFails(t) ==
    /\ pc[t] = "reconnect" /\ "connect" \in Faults
    /\ NotConnected(con[t])
    /\ connectFailed' = [connectFailed EXCEPT ![t] = TRUE]
    /\ Goto(t, "failed")
    /\ UNCHANGED <<nslots, servers, server, con, spare, waited, failovers,
                   mayFailover, closing, delivered>>

---------------------------------------------------------------------------
\* After a failed mg_web_execute.

\* The reconnection failed: mg_server_offline, and the record is not released.
Blame(t) ==
    /\ pc[t] = "failed" /\ connectFailed[t] /\ LockFree
    /\ MarkOffline(server[t])
    /\ Goto(t, IF Alternatives > 0 THEN "sweep" ELSE "decide")
    /\ UNCHANGED <<pool, request>>

\* Its loop over the idle connections of the server releases, for each of
\* them, the connection of this request, and leaves the idle ones alone.
Sweep(t) ==
    LET idle == {i \in Allocated(server[t]) : ~slot[i].inuse}
    IN  /\ pc[t] = "sweep"
        /\ Goto(t, IF server[t] \notin Api /\ idle # {} THEN "drop" ELSE "decide")
        /\ UNCHANGED <<pool, servers, request>>

\* mg_release_connection with close_connection: the socket is closed and
\* inuse cleared first, alloc last, without the lock.
ReleaseSlot(i) ==
    slot' = [slot EXCEPT ![i].connected = FALSE, ![i].inuse = FALSE]
UnallocateSlot(i) == slot' = [slot EXCEPT ![i].alloc = FALSE]

Drop(t) ==
    /\ pc[t] = "drop" \/ (pc[t] = "failed" /\ ~connectFailed[t])
    /\ ReleaseSlot(con[t])
    /\ Goto(t, "dropped")
    /\ UNCHANGED <<nslots, servers, request>>

Dropped(t) ==
    /\ pc[t] = "dropped"
    /\ UnallocateSlot(con[t])
    /\ Goto(t, "decide")
    /\ UNCHANGED <<nslots, servers, request>>

\* Another server, or an error page; close_connection is then taken from the
\* record that has been released already.
Decide(t) ==
    /\ pc[t] = "decide"
    /\ IF mayFailover[t] /\ CanFailOver(t)
       THEN FailOver(t)
       ELSE /\ closing' = [closing EXCEPT ![t] = slot[con[t]].connected]
            /\ Goto(t, "errorpage")
            /\ UNCHANGED <<server, con, spare, waited, failovers,
                           connectFailed, mayFailover, delivered>>
    /\ UNCHANGED <<pool, servers>>

---------------------------------------------------------------------------
\* The response is written.  A failed read of its rest, a failed write to the
\* client or a distressed protocol closes the connection.
Respond(t) ==
    /\ pc[t] \in {"respond", "errorpage"}
    /\ \/ UNCHANGED closing
       \/ /\ "client" \in Faults \/ (pc[t] = "respond" /\ "stream" \in Faults)
          /\ closing' = [closing EXCEPT ![t] = TRUE]
    /\ Goto(t, "exit")
    /\ UNCHANGED <<pool, servers, server, con, spare, waited, failovers,
                   connectFailed, mayFailover, delivered>>

\* mg_web_exit: the connection goes back to the pool, or is closed.
ExitKeep(t) ==
    /\ pc[t] = "exit" /\ ~closing[t]
    /\ slot' = [slot EXCEPT ![con[t]].inuse = FALSE]
    /\ Finish(t)
    /\ UNCHANGED <<nslots, servers>>

ExitClose(t) ==
    /\ pc[t] = "exit" /\ closing[t]
    /\ ReleaseSlot(con[t])
    /\ Goto(t, "exiting")
    /\ UNCHANGED <<nslots, servers, request>>

ExitClosed(t) ==
    /\ pc[t] = "exiting"
    /\ UnallocateSlot(con[t])
    /\ Finish(t)
    /\ UNCHANGED <<nslots, servers>>

---------------------------------------------------------------------------
\* Time, and the operator.  Each request of the administrator changes one
\* server, whatever the path; the status page puts back online the servers
\* whose health check is due.
HealthCheckDue(s) ==
    /\ offline[s] # Online /\ s \in HealthChecked
    /\ due' = [due EXCEPT ![s] = TRUE]
    /\ UNCHANGED <<pool, offline, cursor, pc, request>>

IdleTooLong(i) ==
    /\ "idle" \in Faults
    /\ i <= nslots /\ ~slot[i].inuse /\ slot[i].psrv \in Srv \ Api
    /\ slot' = [slot EXCEPT ![i].aged = TRUE]
    /\ UNCHANGED <<nslots, servers, pc, request>>

AdminOffline(s) ==
    /\ "admin" \in Faults /\ LockFree
    /\ offline' = [offline EXCEPT ![s] = Offline]
    /\ due' = [due EXCEPT ![s] = FALSE]
    /\ UNCHANGED <<pool, cursor, pc, request>>

AdminOnline(s) ==
    /\ "admin" \in Faults /\ LockFree
    /\ offline' = [offline EXCEPT ![s] = Online]
    /\ UNCHANGED <<pool, due, cursor, pc, request>>

StatusPage ==
    /\ "admin" \in Faults /\ LockFree
    /\ offline' = [s \in Srv |-> IF Recheckable(offline, due, s) THEN Online ELSE offline[s]]
    /\ UNCHANGED <<pool, due, cursor, pc, request>>

Environment ==
    \/ \E s \in Srv : HealthCheckDue(s) \/ AdminOffline(s) \/ AdminOnline(s)
    \/ \E i \in Slots : IdleTooLong(i)
    \/ StatusPage

Obtain(t) ==
    ObtainPreferred(t) \/ ObtainFound(t) \/ ObtainNone(t) \/ ObtainSpins(t) \/ Requeue(t)
    \/ UseExisting(t) \/ PrepareNew(t) \/ ConnectOk(t) \/ ConnectFails(t) \/ Discard(t)
    \/ Unavailable(t)

Execute(t) ==
    ExecuteOk(t) \/ SendFails(t) \/ ReadBreaks(t) \/ NoAnswer(t) \/ ResendFails(t)
    \/ ReconnectOk(t) \/ ReconnectFails(t) \/ Blame(t) \/ Sweep(t) \/ Drop(t)
    \/ Dropped(t) \/ Decide(t)

Leave(t) == Respond(t) \/ ExitKeep(t) \/ ExitClose(t) \/ ExitClosed(t)

Work(t) == Obtain(t) \/ Execute(t) \/ Leave(t)

Next == Environment \/ \E t \in Threads : Arrive(t) \/ Work(t)

\* Threads are scheduled, and the calls they make return: connects, reads and
\* the sleep of a queued request all have a limit.  Requests need not come.
Spec == Init /\ [][Next]_vars /\ \A t \in Threads : WF_vars(Work(t))

---------------------------------------------------------------------------
\* The stages at which a thread works on the connection pweb->pcon.
Using(t) == pc[t] \in {"reuse", "fresh", "connect", "execute", "reconnect", "resend", "respond"}

\* The stages at which the record pweb->pcon is still the thread's to release.
Holding(t) == Using(t) \/ pc[t] \in {"discard", "failed", "sweep", "drop", "exit"}

\* A busy network connection serves one request: while a thread moves bytes
\* over pweb->pcon no other thread of the process has been given the same
\* record.  Only API bindings are shared (DBX_LOCK serialises their use).
ExclusiveUse ==
    \A t, u \in Threads :
        t # u /\ Using(t) /\ Using(u) /\ con[t] = con[u] => slot[con[t]].psrv \in Api

\* The record a thread talks over belongs to the server that was chosen for
\* the request, from mg_connect to the last byte: what was sent there, and
\* what mg_server_offline is blamed on, is that server.
RoutedToChosen ==
    \A t \in Threads :
        pc[t] \in {"connect", "execute", "reconnect", "resend", "respond"}
            => slot[con[t]].psrv = server[t]

\* No record is lost: one that is marked in use is in the hands of a thread
\* that will clear the mark, so it does not count against max_connections
\* for ever.
NoLostSlot ==
    \A i \in 1..nslots : slot[i].alloc /\ slot[i].inuse
        => \E t \in Threads : con[t] = i /\ Holding(t)

\* "can't failover after this point": a request that one server has received in
\* full, and may have run, never goes back to mg_obtain_connection, where it
\* could be given to another one, whatever the other threads do.
NeverDispatchedAgain ==
    [][\A t \in Threads : delivered[t] # {} => pc'[t] # "obtain"]_vars

\* A server stays in the state "retrying" only while the request that retries
\* it is on its way to an answer from that server, so a server that fails its
\* health check is checked again (README, v2.2.20).
RetryInProgress ==
    \A s \in Srv : offline[s] = Retrying =>
        \E t \in Threads :
            /\ server[t] = s
            /\ pc[t] \in {"queued", "reuse", "fresh", "connect", "discard", "unavailable"}

\* A health check comes to an end: the server is back online, or offline and
\* due for another check (README, v2.2.20).
RetryConcluded ==
    \A s \in Srv : offline[s] = Retrying ~> offline[s] # Retrying

\* Servers marked for exclusive use are "excluded from Load-Balancing and
\* Failover" (README, v2.1.16): a request comes to one only by naming it, and
\* does not leave it for another.
ReservedApart ==
    [][\A t \in Threads :
          server'[t] # server[t] /\ {server[t], server'[t]} \cap Exclusive # {}
              => "idle" \in {pc[t], pc'[t]}]_vars

\* Every request is answered, by the page or by an error, and its thread is
\* free again: no queue, retry, failover or lock holds it for ever.
EveryRequestAnswered == \A t \in Threads : pc[t] # "idle" ~> pc[t] = "idle"
===========================================================================
