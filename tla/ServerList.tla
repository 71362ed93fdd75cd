---------------------------- MODULE ServerList ----------------------------
(***************************************************************************)
(* The list of DB Servers of one configured path (MGPATH) and the decisions*)
(* that only read it: which server a request may use, where the round-robin*)
(* search of mg_obtain_server stops, and how many alternatives there are.  *)
(*                                                                         *)
(* Servers are numbered from 1 (the code counts from 0) and NoServer stands*)
(* for the -1 of the code.                                                 *)
(***************************************************************************)
EXTENDS Integers, FiniteSets

CONSTANTS
    SrvMax,         \* ppath->srv_max, the number of servers of the path
    Exclusive,      \* the servers listed as "name:exclusive"
    LoadBalancing,  \* ppath->load_balancing
    HealthChecked   \* the servers whose health_check is greater than zero

Srv == 1..SrvMax
NoServer == 0

ASSUME ServerListAssumption ==
    /\ SrvMax \in Nat \ {0}
    /\ Exclusive \subseteq Srv
    /\ LoadBalancing \in BOOLEAN
    /\ HealthChecked \subseteq Srv

\* The values of psrv->offline.
Online == 0
Offline == 1
Retrying == 2
Status == {Online, Offline, Retrying}

---------------------------------------------------------------------------
\* Definitions that say MUTANT are faults put into the definition that follows
\* them, to see that the properties catch them; they are no part of the model.

\* MUTANT of NextServer: the list is taken to be one longer than it is.
NextServerTooFar(s) == IF s > SrvMax THEN 1 ELSE s + 1

\* The cursor ppath->server_no moves on, and wraps at the end of the list.
NextServer(s) == IF s = SrvMax THEN 1 ELSE s + 1

\* The server that the search examines after k steps from start, k < SrvMax.
Ahead(start, k) == IF start + k <= SrvMax THEN start + k ELSE start + k - SrvMax

\* The health-check interval of a server marked offline has elapsed.  due
\* says which servers were marked offline longer ago than health_check.
Recheckable(offline, due, s) == offline[s] = Offline /\ s \in HealthChecked /\ due[s]

\* The search may pick s: not reserved, and either online or worth a retry.
Eligible(offline, due, s) ==
    /\ s \notin Exclusive
    /\ \/ offline[s] = Online
       \/ Recheckable(offline, due, s)

\* The search moves past s, whether or not it picked s.
Advances(offline, s) == LoadBalancing \/ offline[s] > Online

\* The search goes no further than s.
StopsAt(offline, due, s) == Eligible(offline, due, s) \/ ~Advances(offline, s)

\* What one call of mg_obtain_server comes to.  Its loop visits the servers
\* from start on and stops at the first one it can pick ("found").  A server
\* it can neither pick nor move past ends it with nothing when that is the
\* server it started from ("none"), and makes it examine the same server for
\* ever when it is a later one ("spins").
SearchOutcome(offline, due, start) ==
    LET stops == {k \in 0..(SrvMax - 1) : StopsAt(offline, due, Ahead(start, k))}
        first == CHOOSE k \in stops : \A j \in stops : k <= j
        s == Ahead(start, first)
    IN  IF stops = {}
        THEN [result |-> "none", server |-> NoServer, cursor |-> start]
        ELSE IF Eligible(offline, due, s)
        THEN [result |-> "found", server |-> s,
              cursor |-> IF Advances(offline, s) THEN NextServer(s) ELSE s]
        ELSE [result |-> IF first = 0 THEN "none" ELSE "spins",
              server |-> NoServer, cursor |-> s]

\* The number of servers a request could fail over to, the current one
\* discounted.
Alternatives ==
    LET shared == Cardinality(Srv \ Exclusive)
    IN  IF SrvMax > 1 /\ shared > 0 THEN shared - 1 ELSE 0

\* MUTANT of Preferable: without v2.1.16, a reserved server is left when offline.
PreferableOnline(offline, s) == s \in Srv /\ offline[s] = Online

\* An affinity choice s is honoured: in range, and online or exclusive.
Preferable(offline, s) == s \in Srv /\ (offline[s] = Online \/ s \in Exclusive)
===========================================================================
