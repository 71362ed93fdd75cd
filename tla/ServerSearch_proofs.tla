----------------------- MODULE ServerSearch_proofs -----------------------
(***************************************************************************)
(* What mg_obtain_server guarantees for a path of any number of servers.   *)
(***************************************************************************)
EXTENDS ServerSearch, TLAPS

---------------------------------------------------------------------------
(* The list of the servers, and the search as an operator.                *)

\* The cursor never leaves the list.
LEMMA NextServerType == ASSUME NEW s \in Srv PROVE NextServer(s) \in Srv
  BY ServerListAssumption DEF NextServer, Srv

\* One step ahead of the k-th server is the next one of the list, and the
\* walk is back at start after SrvMax steps, not before.
LEMMA AheadStep ==
    ASSUME NEW st \in Srv, NEW k \in 0..(SrvMax - 1)
    PROVE  /\ Ahead(st, k) \in Srv
           /\ Ahead(st, k) = st <=> k = 0
           /\ k + 1 < SrvMax => NextServer(Ahead(st, k)) = Ahead(st, k + 1)
           /\ k + 1 = SrvMax => NextServer(Ahead(st, k)) = st
  BY ServerListAssumption DEF Srv, Ahead, NextServer

\* The outcome of a search that stops first at its k-th server, counted from 0.
LEMMA OutcomeAtStop ==
    ASSUME NEW off, NEW d, NEW st, NEW k \in 0..(SrvMax - 1),
           StopsAt(off, d, Ahead(st, k)),
           \A j \in 0..(k - 1) : ~StopsAt(off, d, Ahead(st, j))
    PROVE  SearchOutcome(off, d, st) =
             IF Eligible(off, d, Ahead(st, k))
             THEN [result |-> "found", server |-> Ahead(st, k),
                   cursor |-> IF Advances(off, Ahead(st, k))
                              THEN NextServer(Ahead(st, k)) ELSE Ahead(st, k)]
             ELSE [result |-> IF k = 0 THEN "none" ELSE "spins",
                   server |-> NoServer, cursor |-> Ahead(st, k)]
<1> DEFINE stops == {j \in 0..(SrvMax - 1) : StopsAt(off, d, Ahead(st, j))}
           first == CHOOSE i \in stops : \A j \in stops : i <= j
<1>1. k \in stops /\ \A j \in stops : k <= j
  BY ServerListAssumption
<1>2. first \in stops /\ \A j \in stops : first <= j
  BY <1>1
<1>3. first = k
  BY <1>1, <1>2
<1>4. stops # {}
  BY <1>1
<1> HIDE DEF stops
<1>5. SearchOutcome(off, d, st) =
        IF stops = {}
        THEN [result |-> "none", server |-> NoServer, cursor |-> st]
        ELSE IF Eligible(off, d, Ahead(st, first))
        THEN [result |-> "found", server |-> Ahead(st, first),
              cursor |-> IF Advances(off, Ahead(st, first))
                         THEN NextServer(Ahead(st, first)) ELSE Ahead(st, first)]
        ELSE [result |-> IF first = 0 THEN "none" ELSE "spins",
              server |-> NoServer, cursor |-> Ahead(st, first)]
  BY Zenon DEF SearchOutcome, stops
<1> HIDE DEF first
<1> QED BY <1>3, <1>4, <1>5

\* ... and of one that meets no server to stop at.
LEMMA OutcomeWithoutStop ==
    ASSUME NEW off, NEW d, NEW st,
           \A j \in 0..(SrvMax - 1) : ~StopsAt(off, d, Ahead(st, j))
    PROVE  SearchOutcome(off, d, st) =
             [result |-> "none", server |-> NoServer, cursor |-> st]
<1>1. {j \in 0..(SrvMax - 1) : StopsAt(off, d, Ahead(st, j))} = {}
  OBVIOUS
<1> QED BY <1>1, Zenon DEF SearchOutcome


\* The state of the search is well typed, for any list of servers: the cursor
\* and the choice of mg_obtain_server stay inside ppath->servers.
THEOREM TypeCorrect == Spec => []TypeOK
<1>1. Init => TypeOK
  BY ServerListAssumption
     DEF Init, TypeOK, Srv, Status, Online, Offline, Retrying, NoServer
<1>2. TypeOK /\ [Next]_vars => TypeOK'
  <2> SUFFICES ASSUME TypeOK, [Next]_vars PROVE TypeOK'
    OBVIOUS
  <2> USE ServerListAssumption DEF TypeOK, Status, Online, Offline, Retrying
  <2>1. CASE Begin
    BY <2>1 DEF Begin, servers
  <2>2. CASE PickRetry
    BY <2>2, NextServerType DEF PickRetry, MoveOn
  <2>3. CASE PickOnline
    BY <2>3, NextServerType DEF PickOnline, MoveOn, servers
  <2>4. CASE PassOver
    BY <2>4, NextServerType DEF PassOver, MoveOn, servers
  <2>5. ASSUME NEW s \in Srv, MarkOffline(s) \/ MarkOnline(s) \/ HealthCheckDue(s)
        PROVE  TypeOK'
    BY <2>5 DEF MarkOffline, MarkOnline, HealthCheckDue
  <2>6. CASE UNCHANGED vars
    BY <2>6 DEF vars
  <2> QED BY <2>1, <2>2, <2>3, <2>4, <2>5, <2>6 DEF Next, Iterate
<1> QED BY <1>1, <1>2, PTL DEF Spec

---------------------------------------------------------------------------
\* The servers the running search has examined: those from start on, up to
\* the cursor, which may have wrapped around the end of the list.
Examined == IF start <= cursor THEN start..(cursor - 1)
            ELSE (start..SrvMax) \cup (1..(cursor - 1))

\* A running search has chosen nothing yet, and rightly so.
SearchInv ==
    pc = "search" => /\ chosen = NoServer
                     /\ \A s \in Examined : ~Eligible(offline, due, s)

\* Moving past a server adds it to the servers examined.  Back at start all
\* of them have been.
LEMMA RoundTrip ==
    ASSUME TypeOK, cursor' = NextServer(cursor), start' = start
    PROVE  IF cursor' = start THEN Srv = Examined \cup {cursor}
                              ELSE Examined' = Examined \cup {cursor}
  BY ServerListAssumption DEF TypeOK, Srv, NextServer, Examined

\* For any list of servers, a search that gives up has examined every server
\* and could have used none of them, or has begun at a reserved server that it
\* could not leave.
THEOREM SearchComplete == Spec => FoundIfAny
<1> DEFINE Given == pc = "search" /\ pc' = "idle" /\ chosen' = NoServer
                      => GivesUpAtOnce \/ \A s \in Srv : ~Eligible(offline, due, s)
<1>1. Init => SearchInv
  BY DEF Init, SearchInv
<1>2. TypeOK /\ SearchInv /\ PassOver => SearchInv' /\ Given
  <2> SUFFICES ASSUME TypeOK, SearchInv, PassOver PROVE SearchInv' /\ Given
    OBVIOUS
  <2>1. /\ start' = start /\ offline' = offline /\ due' = due /\ chosen' = NoServer
        /\ cursor' = IF Advances(offline, cursor) THEN NextServer(cursor) ELSE cursor
        /\ pc' = IF cursor' = start THEN "idle" ELSE "search"
    BY DEF PassOver, MoveOn, servers
  <2>2. \A s \in Examined \cup {cursor} : ~Eligible(offline, due, s)
    BY DEF PassOver, SearchInv
  <2>3. CASE ~Advances(offline, cursor)
    <3>1. ~LoadBalancing /\ cursor \in Exclusive /\ offline[cursor] = Online
      BY <2>3 DEF PassOver, Advances, Eligible, TypeOK, Status, Online, Offline, Retrying
    <3>2. cursor' = cursor /\ Examined' = Examined
      BY <2>1, <2>3 DEF Examined
    <3>3. \A s \in Examined' : ~Eligible(offline', due', s)
      BY <2>1, <2>2, <3>2
    <3> QED BY <2>1, <3>1, <3>2, <3>3 DEF SearchInv, GivesUpAtOnce
  <2>4. CASE Advances(offline, cursor) /\ cursor' = start
    BY <2>1, <2>2, <2>4, RoundTrip DEF SearchInv
  <2>5. CASE Advances(offline, cursor) /\ cursor' # start
    <3>1. Examined' = Examined \cup {cursor}
      BY <2>1, <2>5, RoundTrip
    <3>2. \A s \in Examined' : ~Eligible(offline', due', s)
      BY <2>1, <2>2, <3>1
    <3> QED BY <2>1, <2>5, <3>2 DEF SearchInv
  <2> QED BY <2>3, <2>4, <2>5
<1>3. TypeOK /\ SearchInv /\ [Next]_vars => SearchInv' /\ [Given]_vars
  <2> SUFFICES ASSUME TypeOK, SearchInv, [Next]_vars PROVE SearchInv' /\ [Given]_vars
    OBVIOUS
  <2>1. CASE Begin
    <3>1. pc = "idle" /\ chosen' = NoServer /\ start' = cursor /\ cursor' = cursor
      BY <2>1 DEF Begin
    <3>2. Examined' = {}
      BY <3>1 DEF Examined, TypeOK, Srv
    <3> QED BY <3>1, <3>2 DEF SearchInv
  <2>2. CASE PickRetry \/ PickOnline
    BY <2>2, ServerListAssumption
       DEF PickRetry, PickOnline, MoveOn, SearchInv, TypeOK, Srv, NoServer
  <2>3. CASE PassOver
    BY <2>3, <1>2
  <2>4. ASSUME NEW s \in Srv, MarkOffline(s) \/ MarkOnline(s) \/ HealthCheckDue(s)
        PROVE  SearchInv' /\ [Given]_vars
    BY <2>4 DEF MarkOffline, MarkOnline, HealthCheckDue, SearchInv
  <2>5. CASE UNCHANGED vars
    BY <2>5 DEF vars, SearchInv, Examined, Eligible, Recheckable
  <2> QED BY <2>1, <2>2, <2>3, <2>4, <2>5 DEF Next, Iterate
<1> QED BY <1>1, <1>3, TypeCorrect, PTL DEF Spec, FoundIfAny

---------------------------------------------------------------------------
\* A running search is at its k-th server and could not stop before.
AtServer(k) ==
    /\ cursor = Ahead(start, k)
    /\ \A j \in 0..(k - 1) : ~StopsAt(offline, due, Ahead(start, j))

WalkInv == pc = "search" => \E k \in 0..(SrvMax - 1) : AtServer(k)

\* For any list of servers, a search that ends has computed SearchOutcome: the
\* one-step search of RequestDispatch is what the loop of the code comes to.
THEOREM OutcomeCorrect == Spec => LoopMatchesOutcome
<1> DEFINE Ends == pc = "search" /\ pc' = "idle"
           O == SearchOutcome(offline, due, start)
           Given == Ends => O.result # "spins" /\ chosen' = O.server /\ cursor' = O.cursor
<1>1. Init => WalkInv
  BY DEF Init, WalkInv
<1>2. TypeOK /\ WalkInv /\ Iterate => WalkInv' /\ Given
  <2> SUFFICES ASSUME TypeOK, WalkInv, Iterate PROVE WalkInv' /\ Given
    OBVIOUS
  <2>1. pc = "search" /\ start' = start /\ start \in Srv
    BY DEF Iterate, PickRetry, PickOnline, PassOver, MoveOn, TypeOK
  <2>2. PICK k \in 0..(SrvMax - 1) : AtServer(k)
    BY <2>1 DEF WalkInv
  <2>3. cursor = Ahead(start, k) /\ cursor \in Srv
    BY <2>2 DEF AtServer, TypeOK
  <2>4. CASE PickRetry \/ PickOnline
    <3>1. Eligible(offline, due, cursor)
      BY <2>4 DEF PickRetry, PickOnline, Eligible
    <3>2. O = [result |-> "found", server |-> cursor,
               cursor |-> IF Advances(offline, cursor) THEN NextServer(cursor) ELSE cursor]
      BY <2>1, <2>2, <2>3, <3>1, OutcomeAtStop DEF AtServer, StopsAt
    <3>3. chosen' = cursor
      BY <2>4 DEF PickRetry, PickOnline
    <3>4. cursor' = IF Advances(offline, cursor) THEN NextServer(cursor) ELSE cursor
      BY <2>4 DEF PickRetry, PickOnline, MoveOn, Advances, Recheckable, Online, Offline
    <3>5. pc' = "idle"
      BY <2>3, <2>4, <3>3, ServerListAssumption
         DEF PickRetry, PickOnline, MoveOn, Srv, NoServer
    <3> QED BY <3>2, <3>3, <3>4, <3>5 DEF WalkInv
  <2>5. CASE PassOver
    <3>1. /\ ~Eligible(offline, due, cursor) /\ chosen' = NoServer
          /\ offline' = offline /\ due' = due
          /\ cursor' = IF Advances(offline, cursor) THEN NextServer(cursor) ELSE cursor
          /\ pc' = IF cursor' = start THEN "idle" ELSE "search"
      BY <2>5 DEF PassOver, MoveOn, servers
    <3>2. CASE ~Advances(offline, cursor)
      <4>1. O = [result |-> IF k = 0 THEN "none" ELSE "spins",
                 server |-> NoServer, cursor |-> cursor]
        BY <2>1, <2>2, <2>3, <3>1, <3>2, OutcomeAtStop DEF AtServer, StopsAt
      <4>2. cursor' = start <=> k = 0
        BY <2>1, <2>3, <3>1, <3>2, AheadStep
      <4>3. AtServer(k)'
        BY <2>1, <2>2, <3>1, <3>2 DEF AtServer
      <4> QED BY <3>1, <3>2, <4>1, <4>2, <4>3 DEF WalkInv
    <3>3. CASE Advances(offline, cursor)
      <4>1. \A j \in 0..k : ~StopsAt(offline, due, Ahead(start, j))
        BY <2>2, <2>3, <3>1, <3>3 DEF AtServer, StopsAt
      <4>2. CASE k + 1 = SrvMax
        <5>1. cursor' = start
          BY <2>1, <2>3, <3>1, <3>3, <4>2, AheadStep
        <5>2. O = [result |-> "none", server |-> NoServer, cursor |-> start]
          BY <4>1, <4>2, OutcomeWithoutStop
        <5> QED BY <3>1, <5>1, <5>2 DEF WalkInv
      <4>3. CASE k + 1 < SrvMax
        <5>1. cursor' = Ahead(start, k + 1) /\ cursor' # start
          BY <2>1, <2>3, <3>1, <3>3, <4>3, ServerListAssumption, AheadStep
        <5>2. AtServer(k + 1)'
          BY <2>1, <3>1, <4>1, <5>1 DEF AtServer
        <5> QED BY <3>1, <4>3, <5>1, <5>2, ServerListAssumption DEF WalkInv
      <4> QED BY <4>2, <4>3, ServerListAssumption
    <3> QED BY <3>2, <3>3
  <2> QED BY <2>4, <2>5 DEF Iterate
<1>3. TypeOK /\ WalkInv /\ [Next]_vars => WalkInv' /\ [Given]_vars
  <2> SUFFICES ASSUME TypeOK, WalkInv, [Next]_vars PROVE WalkInv' /\ [Given]_vars
    OBVIOUS
  <2>1. CASE Begin
    <3>1. pc = "idle" /\ start' = cursor /\ cursor' = cursor
      BY <2>1 DEF Begin
    <3>2. Ahead(cursor, 0) = cursor
      BY AheadStep, ServerListAssumption DEF TypeOK
    <3>3. AtServer(0)'
      BY <3>1, <3>2 DEF AtServer
    <3> QED BY <3>1, <3>3, ServerListAssumption DEF WalkInv
  <2>2. CASE Iterate
    BY <2>2, <1>2
  <2>3. ASSUME NEW s \in Srv, MarkOffline(s) \/ MarkOnline(s) \/ HealthCheckDue(s)
        PROVE  WalkInv' /\ [Given]_vars
    BY <2>3 DEF MarkOffline, MarkOnline, HealthCheckDue, WalkInv
  <2>4. CASE UNCHANGED vars
    BY <2>4 DEF vars, WalkInv, AtServer
  <2> QED BY <2>1, <2>2, <2>3, <2>4 DEF Next
<1> QED BY <1>1, <1>3, TypeCorrect, PTL DEF Spec, LoopMatchesOutcome
===========================================================================
