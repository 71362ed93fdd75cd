--------------------------- MODULE ServerSearch ---------------------------
(***************************************************************************)
(* mg_obtain_server, one iteration of its loop per step.  The caller holds *)
(* mg_global_mutex from the first step to the last, so nothing but the     *)
(* search itself changes the servers while it runs; between two searches   *)
(* the servers are marked online and offline by others.                    *)
(***************************************************************************)
EXTENDS ServerList

VARIABLES
    offline,  \* psrv->offline of every server
    due,      \* whether time_offline is more than health_check seconds ago
    cursor,   \* ppath->server_no, kept from one search to the next
    start,    \* server_no_start of the running search
    chosen,   \* server_no of the running search, its result in the end
    pc        \* "idle", or "search" while the loop runs

vars == <<offline, due, cursor, start, chosen, pc>>
servers == <<offline, due>>

TypeOK ==
    /\ offline \in [Srv -> Status]
    /\ due \in [Srv -> BOOLEAN]
    /\ cursor \in Srv
    /\ start \in Srv
    /\ chosen \in Srv \cup {NoServer}
    /\ pc \in {"idle", "search"}

\* Before the first request every server is online and the cursor is at the
\* head of the list.
Init ==
    /\ offline = [s \in Srv |-> Online]
    /\ due = [s \in Srv |-> FALSE]
    /\ cursor = 1
    /\ start = 1
    /\ chosen = NoServer
    /\ pc = "idle"

\* mg_obtain_connection finds that the request has no server yet.
Begin ==
    /\ pc = "idle"
    /\ pc' = "search"
    /\ start' = cursor
    /\ chosen' = NoServer
    /\ UNCHANGED <<servers, cursor>>

\* MUTANT of MoveOn: the end of the list is not noticed.
MoveOnForEver(advances) ==
    /\ cursor' = IF advances THEN NextServer(cursor) ELSE cursor
    /\ pc' = IF chosen' # NoServer THEN "idle" ELSE "search"
    /\ UNCHANGED start

\* MUTANT of MoveOn: the last server of the round is not examined.
MoveOnTooFew(advances) ==
    /\ cursor' = IF advances THEN NextServer(cursor) ELSE cursor
    /\ pc' = IF chosen' # NoServer \/ NextServer(cursor') = start THEN "idle" ELSE "search"
    /\ UNCHANGED start

\* MUTANT of MoveOn: the cursor moves on even without load balancing.
MoveOnAlways(advances) ==
    /\ cursor' = NextServer(cursor)
    /\ pc' = IF chosen' # NoServer \/ cursor' = start THEN "idle" ELSE "search"
    /\ UNCHANGED start

\* The tail of an iteration: the cursor moves past the server just examined
\* or stays, and the loop ends with a choice or back where it started.
MoveOn(advances) ==
    /\ cursor' = IF advances THEN NextServer(cursor) ELSE cursor
    /\ pc' = IF chosen' # NoServer \/ cursor' = start THEN "idle" ELSE "search"
    /\ UNCHANGED start

\* An offline server whose health check is due: this request retries it.
PickRetry ==
    /\ pc = "search"
    /\ cursor \notin Exclusive
    /\ Recheckable(offline, due, cursor)
    /\ due' = [due EXCEPT ![cursor] = FALSE]
    /\ offline' = [offline EXCEPT ![cursor] = Retrying]
    /\ chosen' = cursor
    /\ MoveOn(TRUE)

PickOnline ==
    /\ pc = "search"
    /\ cursor \notin Exclusive
    /\ offline[cursor] = Online
    /\ chosen' = cursor
    /\ MoveOn(LoadBalancing)
    /\ UNCHANGED servers

PassOver ==
    /\ pc = "search"
    /\ ~Eligible(offline, due, cursor)
    /\ chosen' = NoServer
    /\ MoveOn(Advances(offline, cursor))
    /\ UNCHANGED servers

\* What others do to the servers while no search holds the lock: a failed
\* connection or an administrator marks one offline, a success or an
\* administrator marks one online, an interval elapses.
MarkOffline(s) ==
    /\ pc = "idle"
    /\ offline' = [offline EXCEPT ![s] = Offline]
    /\ due' = [due EXCEPT ![s] = FALSE]
    /\ UNCHANGED <<cursor, start, chosen, pc>>

MarkOnline(s) ==
    /\ pc = "idle"
    /\ offline' = [offline EXCEPT ![s] = Online]
    /\ UNCHANGED <<due, cursor, start, chosen, pc>>

HealthCheckDue(s) ==
    /\ pc = "idle"
    /\ offline[s] # Online /\ s \in HealthChecked
    /\ due' = [due EXCEPT ![s] = TRUE]
    /\ UNCHANGED <<offline, cursor, start, chosen, pc>>

Iterate == PickRetry \/ PickOnline \/ PassOver

Next ==
    \/ Begin
    \/ Iterate
    \/ \E s \in Srv : MarkOffline(s) \/ MarkOnline(s) \/ HealthCheckDue(s)

\* The loop is straight-line code of one thread that holds the lock.
Spec == Init /\ [][Next]_vars /\ WF_vars(Iterate)

---------------------------------------------------------------------------
\* Without load balancing the cursor does not leave a server that is online,
\* so a search that begins at a reserved one has nothing to examine.
GivesUpAtOnce == ~LoadBalancing /\ start \in Exclusive /\ offline[start] = Online

\* "all servers examined": but for that, the loop of mg_obtain_server gives up
\* only when it would have been wrong to pick any server of the list.  A
\* statement about the whole list at the step that ends the search.
FoundIfAny ==
    [][pc = "search" /\ pc' = "idle" /\ chosen' = NoServer
         => GivesUpAtOnce \/ \A s \in Srv : ~Eligible(offline, due, s)]_vars

\* The loop computes SearchOutcome: the operator that the request model uses
\* for one call gives the server and the cursor that the loop ends with.
LoopMatchesOutcome ==
    [][pc = "search" /\ pc' = "idle"
         => LET o == SearchOutcome(offline, due, start)
            IN  o.result # "spins" /\ chosen' = o.server /\ cursor' = o.cursor]_vars

\* ... and when SearchOutcome does not say that it spins, the loop ends, so
\* mg_global_mutex is given back.
EndsUnlessSpinning ==
    (pc = "search" /\ SearchOutcome(offline, due, start).result # "spins") ~> pc = "idle"
===========================================================================
