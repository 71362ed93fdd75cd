--------------------- MODULE RequestDispatch_proofs ---------------------
(***************************************************************************)
(* What the dispatch of requests guarantees for any number of threads,     *)
(* servers and pool records.                                               *)
(***************************************************************************)
EXTENDS RequestDispatch, FiniteSetTheorems, WellFoundedInduction, TLAPS

---------------------------------------------------------------------------
(* The list of the servers, and what a search through it comes to.        *)

\* A set of natural numbers that is not empty has a least element.
LEMMA LeastElement ==
    ASSUME NEW S, S \subseteq Nat, S # {}
    PROVE  \E k \in S : \A j \in S : k <= j
<1>1. PICK k \in S : \A j \in S : ~(<<j, k>> \in OpToRel(<, Nat))
  BY NatLessThanWellFounded, WFMin
<1>2. \A j \in S : ~(j < k)
  BY <1>1 DEF OpToRel
<1> QED BY <1>2

\* The cursor never leaves the list.
LEMMA NextServerType == ASSUME NEW s \in Srv PROVE NextServer(s) \in Srv
  BY ServerListAssumption DEF NextServer, Srv

\* One step ahead of the k-th server is the next one of the list, and the
\* walk is back at start after SrvMax steps, not before.
LEMMA AheadStep ==
    ASSUME NEW st \in Srv, NEW k \in 0..(SrvMax - 1)
    PROVE  /\ Ahead(st, k) \in Srv
           /\ Ahead(st, k) = st <=> k = 0
           /\ k + 1 < SrvMax => NextServer(Ahead(st, k)) = Ahead(st, k + 1)
           /\ k + 1 = SrvMax => NextServer(Ahead(st, k)) = st
  BY ServerListAssumption DEF Srv, Ahead, NextServer

\* The outcome of a search that stops first at its k-th server, counted from 0.
LEMMA OutcomeAtStop ==
    ASSUME NEW off, NEW d, NEW st, NEW k \in 0..(SrvMax - 1),
           StopsAt(off, d, Ahead(st, k)),
           \A j \in 0..(k - 1) : ~StopsAt(off, d, Ahead(st, j))
    PROVE  SearchOutcome(off, d, st) =
             IF Eligible(off, d, Ahead(st, k))
             THEN [result |-> "found", server |-> Ahead(st, k),
                   cursor |-> IF Advances(off, Ahead(st, k))
                              THEN NextServer(Ahead(st, k)) ELSE Ahead(st, k)]
             ELSE [result |-> IF k = 0 THEN "none" ELSE "spins",
                   server |-> NoServer, cursor |-> Ahead(st, k)]
<1> DEFINE stops == {j \in 0..(SrvMax - 1) : StopsAt(off, d, Ahead(st, j))}
           first == CHOOSE i \in stops : \A j \in stops : i <= j
<1>1. k \in stops /\ \A j \in stops : k <= j
  BY ServerListAssumption
<1>2. first \in stops /\ \A j \in stops : first <= j
  BY <1>1
<1>3. first = k
  BY <1>1, <1>2
<1>4. stops # {}
  BY <1>1
<1> HIDE DEF stops
<1>5. SearchOutcome(off, d, st) =
        IF stops = {}
        THEN [result |-> "none", server |-> NoServer, cursor |-> st]
        ELSE IF Eligible(off, d, Ahead(st, first))
        THEN [result |-> "found", server |-> Ahead(st, first),
              cursor |-> IF Advances(off, Ahead(st, first))
                         THEN NextServer(Ahead(st, first)) ELSE Ahead(st, first)]
        ELSE [result |-> IF first = 0 THEN "none" ELSE "spins",
              server |-> NoServer, cursor |-> Ahead(st, first)]
  BY Zenon DEF SearchOutcome, stops
<1> HIDE DEF first
<1> QED BY <1>3, <1>4, <1>5

\* ... and of one that meets no server to stop at.
LEMMA OutcomeWithoutStop ==
    ASSUME NEW off, NEW d, NEW st,
           \A j \in 0..(SrvMax - 1) : ~StopsAt(off, d, Ahead(st, j))
    PROVE  SearchOutcome(off, d, st) =
             [result |-> "none", server |-> NoServer, cursor |-> st]
<1>1. {j \in 0..(SrvMax - 1) : StopsAt(off, d, Ahead(st, j))} = {}
  OBVIOUS
<1> QED BY <1>1, Zenon DEF SearchOutcome

\* A search that finds a server finds one of the list that may be picked, and
\* leaves the cursor in the list, whatever it comes to.
LEMMA OutcomeType ==
    ASSUME NEW off, NEW d, NEW st \in Srv
    PROVE  LET o == SearchOutcome(off, d, st)
           IN  /\ o.cursor \in Srv
               /\ o.result = "found" => o.server \in Srv /\ Eligible(off, d, o.server)
<1> DEFINE stops == {j \in 0..(SrvMax - 1) : StopsAt(off, d, Ahead(st, j))}
           o == SearchOutcome(off, d, st)
<1>1. CASE stops = {}
  <2>1. o = [result |-> "none", server |-> NoServer, cursor |-> st]
    BY <1>1, OutcomeWithoutStop
  <2> QED BY <2>1
<1>2. CASE stops # {}
  <2>1. PICK k \in stops : \A j \in stops : k <= j
    <3>1. stops \subseteq Nat
      BY ServerListAssumption
    <3> HIDE DEF stops
    <3> QED BY <1>2, <3>1, LeastElement
  <2>2. k \in 0..(SrvMax - 1) /\ StopsAt(off, d, Ahead(st, k))
    BY <2>1
  <2>3. \A j \in 0..(k - 1) : ~StopsAt(off, d, Ahead(st, j))
    BY <2>1, <2>2, ServerListAssumption
  <2>4. Ahead(st, k) \in Srv /\ NextServer(Ahead(st, k)) \in Srv
    BY <2>2, AheadStep, NextServerType
  <2>5. o = IF Eligible(off, d, Ahead(st, k))
            THEN [result |-> "found", server |-> Ahead(st, k),
                  cursor |-> IF Advances(off, Ahead(st, k))
                             THEN NextServer(Ahead(st, k)) ELSE Ahead(st, k)]
            ELSE [result |-> IF k = 0 THEN "none" ELSE "spins",
                  server |-> NoServer, cursor |-> Ahead(st, k)]
    BY <2>2, <2>3, OutcomeAtStop
  <2> QED BY <2>4, <2>5
<1> QED BY <1>1, <1>2

\* A path that balances its load, or that reserves no server, has no server
\* for the search to get stuck at.
LEMMA NoSpin ==
    ASSUME LoadBalancing \/ Exclusive = {},
           NEW off \in [Srv -> Status], NEW d, NEW st \in Srv
    PROVE  SearchOutcome(off, d, st).result # "spins"
<1> DEFINE stops == {j \in 0..(SrvMax - 1) : StopsAt(off, d, Ahead(st, j))}
           o == SearchOutcome(off, d, st)
<1>1. CASE stops = {}
  <2>1. o = [result |-> "none", server |-> NoServer, cursor |-> st]
    BY <1>1, OutcomeWithoutStop
  <2> QED BY <2>1
<1>2. CASE stops # {}
  <2>1. PICK k \in stops : \A j \in stops : k <= j
    <3>1. stops \subseteq Nat
      BY ServerListAssumption
    <3> HIDE DEF stops
    <3> QED BY <1>2, <3>1, LeastElement
  <2>2. k \in 0..(SrvMax - 1) /\ StopsAt(off, d, Ahead(st, k))
    BY <2>1
  <2>3. \A j \in 0..(k - 1) : ~StopsAt(off, d, Ahead(st, j))
    BY <2>1, <2>2, ServerListAssumption
  <2>4. off[Ahead(st, k)] \in Status
    BY <2>2, AheadStep
  <2>5. Eligible(off, d, Ahead(st, k))
    BY <2>2, <2>4 DEF StopsAt, Eligible, Advances, Status, Online, Offline, Retrying
  <2> QED BY <2>2, <2>3, <2>5, OutcomeAtStop
<1> QED BY <1>1, <1>2


---------------------------------------------------------------------------
(* Types.                                                                  *)

\* The stages at which a request has a record, and those at which the record
\* certainly has a server.
HasRecord == Stages \ {"idle", "obtain", "queued", "spinning", "unavailable"}
HasServer == {"reuse", "connect", "execute", "reconnect", "resend"}

TypeInv ==
    /\ TypeOK
    /\ \A t \in Threads : pc[t] \notin {"idle", "obtain", "spinning"} => server[t] \in Srv
    /\ \A t \in Threads : pc[t] \in HasRecord => con[t] \in Slots
    /\ \A t \in Threads : pc[t] \in HasServer => slot[con[t]].psrv \in Srv

\* The record that a scan leaves in pcon_free is one of the pool.
LEMMA SpareType ==
    ASSUME TypeInv, NEW t \in Threads, NEW s
    PROVE  SpareAfter(t, s) \in Slots \cup {NoSlot}
<1> DEFINE free == {i \in 1..nslots : i < ScanStop(s) /\ ~slot[i].alloc}
<1>1. SpareAfter(t, s) = IF spare[t] # NoSlot THEN spare[t]
                         ELSE IF free = {} THEN NoSlot ELSE Min(free)
  BY DEF SpareAfter
<1>2. free \subseteq Slots /\ free \subseteq Nat
  BY RequestDispatchAssumption DEF TypeInv, TypeOK, Slots
<1>3. spare[t] \in Slots \cup {NoSlot}
  BY DEF TypeInv, TypeOK
<1> HIDE DEF free
<1>4. free # {} => Min(free) \in free
  BY <1>2, LeastElement DEF Min
<1> QED BY <1>1, <1>2, <1>3, <1>4

\* Connected writes one record, and of it only whether it is in use for a
\* connection and has one.
LEMMA ConnectedFields ==
    ASSUME slot \in [Slots -> SlotRecord], NEW i \in Slots, Connected(i)
    PROVE  /\ slot' \in [Slots -> SlotRecord]
           /\ \A j \in Slots \ {i} : slot'[j] = slot[j]
           /\ slot'[i].alloc /\ slot'[i].inuse = slot[i].inuse
           /\ slot'[i].psrv = slot[i].psrv /\ slot'[i].aged = slot[i].aged
           /\ NetworkSlot(i) => slot'[i].connected
<1> DEFINE written == [slot[i] EXCEPT !.alloc = TRUE, !.connected = IF NetworkSlot(i) THEN TRUE ELSE @]
<1>1. slot[i] \in SlotRecord
  OBVIOUS
<1>2. /\ written \in SlotRecord
      /\ written.alloc /\ written.inuse = slot[i].inuse
      /\ written.psrv = slot[i].psrv /\ written.aged = slot[i].aged
      /\ NetworkSlot(i) => written.connected
  BY <1>1 DEF SlotRecord
<1>3. slot' = [slot EXCEPT ![i] = written]
  BY DEF Connected
<1> HIDE DEF written
<1> QED BY <1>2, <1>3

\* The record that TakeUnused allocates.
LEMMA TakenFields ==
    ASSUME slot \in [Slots -> SlotRecord], NEW i \in Slots,
           slot' = [slot EXCEPT ![i].alloc = TRUE, ![i].inuse = TRUE, ![i].connected = FALSE]
    PROVE  /\ slot' \in [Slots -> SlotRecord]
           /\ \A j \in Slots : slot'[j].psrv = slot[j].psrv
<1> DEFINE written == [slot[i] EXCEPT !.alloc = TRUE, !.inuse = TRUE, !.connected = FALSE]
<1>1. slot[i] \in SlotRecord
  OBVIOUS
<1>2. written \in SlotRecord /\ written.psrv = slot[i].psrv
  BY <1>1 DEF SlotRecord
<1>3. slot' = [slot EXCEPT ![i] = written]
  OBVIOUS
<1> HIDE DEF written
<1> QED BY <1>2, <1>3

\* The record that PrepareNew makes the thread's server's.
LEMMA PreparedFields ==
    ASSUME slot \in [Slots -> SlotRecord], NEW i \in Slots, NEW s \in Srv,
           slot' = [slot EXCEPT ![i].connected = FALSE, ![i].aged = FALSE, ![i].psrv = s]
    PROVE  /\ slot' \in [Slots -> SlotRecord]
           /\ \A j \in Slots : slot'[j].psrv = IF j = i THEN s ELSE slot[j].psrv
<1> DEFINE written == [slot[i] EXCEPT !.connected = FALSE, !.aged = FALSE, !.psrv = s]
<1>1. slot[i] \in SlotRecord
  OBVIOUS
<1>2. written \in SlotRecord /\ written.psrv = s
  BY <1>1 DEF SlotRecord
<1>3. slot' = [slot EXCEPT ![i] = written]
  OBVIOUS
<1> HIDE DEF written
<1> QED BY <1>2, <1>3

\* A step of thread t alone.  The facts a step must establish about what it
\* changes, one conjunct for each part of TypeInv.
ServersTyped == offline \in [Srv -> Status] /\ due \in [Srv -> BOOLEAN] /\ cursor \in Srv
PoolTyped == nslots \in 0..MaxSlots /\ slot \in [Slots -> SlotRecord]
RequestTyped ==
    /\ spare \in [Threads -> Slots \cup {NoSlot}]
    /\ waited \in [Threads -> 0..QueueTimeout]
    /\ failovers \in [Threads -> 0..SrvMax]
    /\ connectFailed \in [Threads -> BOOLEAN]
    /\ mayFailover \in [Threads -> BOOLEAN]
    /\ closing \in [Threads -> BOOLEAN]
    /\ delivered \in [Threads -> SUBSET Srv]

LEMMA TypeStep ==
    ASSUME TypeInv, ServersTyped', PoolTyped', RequestTyped',
           \A i \in Slots : slot[i].psrv \in Srv => slot'[i].psrv \in Srv,
           NEW t \in Threads, NEW stage \in Stages, NEW s \in 0..(SrvMax + 1),
           NEW c \in Slots \cup {NoSlot},
           Goto(t, stage),
           server' = [server EXCEPT ![t] = s],
           con' = [con EXCEPT ![t] = c],
           stage \notin {"idle", "obtain", "spinning"} => s \in Srv,
           stage \in HasRecord => c \in Slots,
           stage \in HasServer => slot'[c].psrv \in Srv
    PROVE  TypeInv'
<1>1. /\ pc \in [Threads -> Stages] /\ server \in [Threads -> 0..(SrvMax + 1)]
      /\ con \in [Threads -> Slots \cup {NoSlot}]
  BY DEF TypeInv, TypeOK
<1>2. TypeOK'
  BY <1>1 DEF Goto, TypeOK, ServersTyped, PoolTyped, RequestTyped
<1>3. ASSUME NEW u \in Threads
      PROVE  /\ pc'[u] \notin {"idle", "obtain", "spinning"} => server'[u] \in Srv
             /\ pc'[u] \in HasRecord => con'[u] \in Slots
             /\ pc'[u] \in HasServer => slot'[con'[u]].psrv \in Srv
  <2>1. CASE u = t
    BY <1>1, <2>1 DEF Goto
  <2>2. CASE u # t
    <3>1. pc'[u] = pc[u] /\ server'[u] = server[u] /\ con'[u] = con[u]
      BY <1>1, <2>2 DEF Goto
    <3>2. pc[u] \in HasServer => pc[u] \in HasRecord
      BY DEF HasServer, HasRecord, Stages
    <3> QED BY <3>1, <3>2 DEF TypeInv
  <2> QED BY <2>1, <2>2
<1> QED BY <1>2, <1>3 DEF TypeInv

\* A request that ends leaves nothing behind in its thread.
LEMMA TypeFinish ==
    ASSUME TypeInv, ServersTyped', PoolTyped', NEW t \in Threads, Finish(t),
           \A i \in Slots : slot[i].psrv \in Srv => slot'[i].psrv \in Srv
    PROVE  TypeInv'
<1>1. RequestTyped'
  BY RequestDispatchAssumption, ServerListAssumption
     DEF TypeInv, TypeOK, RequestTyped, Finish
<1>2. /\ "idle" \in Stages /\ "idle" \notin HasRecord /\ "idle" \notin HasServer
      /\ NoServer \in 0..(SrvMax + 1)
  BY ServerListAssumption DEF Stages, HasRecord, HasServer, NoServer
<1> QED BY <1>1, <1>2, TypeStep DEF Finish

\* The scan of the pool leaves every thread and record well typed.
LEMMA ScanType ==
    ASSUME TypeInv, NEW t \in Threads, NEW s \in Srv, NEW w \in Nat, ScanPool(t, s, w),
           ServersTyped'
    PROVE  TypeInv'
<1>0. s \in 0..(SrvMax + 1) /\ {"reuse", "fresh", "queued"} \subseteq Stages
  BY ServerListAssumption DEF Srv, Stages
<1>1. CASE TakeExisting(t, s)
  <2>1. PICK i \in Takes(s) : /\ slot' = [slot EXCEPT ![i].inuse = TRUE]
                              /\ server' = [server EXCEPT ![t] = s]
                              /\ Claimed(t, i, "reuse")
                              /\ nslots' = nslots
    BY <1>1 DEF TakeExisting
  <2>2. i \in Slots /\ slot[i].psrv = s
    BY RequestDispatchAssumption DEF Takes, Allocated, TypeInv, TypeOK, Slots
  <2>3. slot \in [Slots -> SlotRecord] /\ nslots \in 0..MaxSlots
    BY DEF TypeInv, TypeOK
  <2>4. PoolTyped' /\ \A j \in Slots : slot'[j].psrv = slot[j].psrv
    BY <2>1, <2>2, <2>3 DEF PoolTyped, SlotRecord
  <2>5. RequestTyped'
    BY <2>1, <2>2, RequestDispatchAssumption DEF Claimed, TypeInv, TypeOK, RequestTyped
  <2> QED BY <1>0, <2>1, <2>2, <2>4, <2>5, TypeStep DEF Claimed
<1>2. CASE TakeUnused(t, s)
  <2> DEFINE i == IF SpareAfter(t, s) = NoSlot THEN nslots + 1 ELSE SpareAfter(t, s)
  <2>1. /\ i \in Slots
        /\ slot' = [slot EXCEPT ![i].alloc = TRUE, ![i].inuse = TRUE,
                                ![i].connected = FALSE]
        /\ nslots' = IF SpareAfter(t, s) = NoSlot THEN nslots + 1 ELSE nslots
        /\ server' = [server EXCEPT ![t] = s]
        /\ Claimed(t, i, "fresh")
    BY <1>2, Zenon DEF TakeUnused
  <2>2. nslots' \in 0..MaxSlots
    BY <2>1, RequestDispatchAssumption DEF TypeInv, TypeOK, Slots
  <2> HIDE DEF i
  <2>3. slot \in [Slots -> SlotRecord]
    BY DEF TypeInv, TypeOK
  <2>4. PoolTyped' /\ \A j \in Slots : slot'[j].psrv = slot[j].psrv
    BY <2>1, <2>2, <2>3, TakenFields DEF PoolTyped
  <2>5. RequestTyped'
    BY <2>1, RequestDispatchAssumption DEF Claimed, TypeInv, TypeOK, RequestTyped
  <2>6. "fresh" \notin HasServer
    BY DEF HasServer
  <2> QED BY <1>0, <2>1, <2>4, <2>5, <2>6, TypeStep DEF Claimed
<1>3. CASE WaitTurn(t, s, w)
  <2>1. RequestTyped'
    BY <1>3, SpareType, RequestDispatchAssumption DEF WaitTurn, TypeInv, TypeOK, RequestTyped
  <2>2. PoolTyped' /\ slot' = slot
    BY <1>3 DEF WaitTurn, pool, TypeInv, TypeOK, PoolTyped
  <2>3. con' = [con EXCEPT ![t] = con[t]] /\ con[t] \in Slots \cup {NoSlot}
    BY <1>3 DEF WaitTurn, TypeInv, TypeOK
  <2>4. "queued" \notin HasRecord /\ "queued" \notin HasServer
    BY DEF HasRecord, HasServer
  <2> QED BY <1>0, <1>3, <2>1, <2>2, <2>3, <2>4, TypeStep DEF WaitTurn
<1>4. CASE Refuse(t, s, w)
  <2>1. PoolTyped' /\ slot' = slot
    BY <1>4 DEF Refuse, pool, TypeInv, TypeOK, PoolTyped
  <2> QED BY <1>4, <2>1, TypeFinish DEF Refuse
<1> QED BY <1>1, <1>2, <1>3, <1>4 DEF ScanPool

\* A step of thread t that leaves its server and its record as they are.
LEMMA TypeMove ==
    ASSUME TypeInv, ServersTyped', PoolTyped', RequestTyped',
           \A i \in Slots : slot[i].psrv \in Srv => slot'[i].psrv \in Srv,
           NEW t \in Threads, NEW stage \in Stages, Goto(t, stage),
           server' = server, con' = con,
           pc[t] \notin {"idle", "obtain", "spinning"} \/ stage \in {"idle", "obtain", "spinning"},
           pc[t] \in HasRecord \/ stage \notin HasRecord,
           pc[t] \in HasServer \/ stage \notin HasServer \/ slot'[con[t]].psrv \in Srv
    PROVE  TypeInv'
<1>1. /\ server[t] \in 0..(SrvMax + 1) /\ con[t] \in Slots \cup {NoSlot}
      /\ server' = [server EXCEPT ![t] = server[t]] /\ con' = [con EXCEPT ![t] = con[t]]
  BY DEF TypeInv, TypeOK
<1>2. stage \notin {"idle", "obtain", "spinning"} => server[t] \in Srv
  BY DEF TypeInv
<1>3. /\ stage \in HasRecord => con[t] \in Slots
      /\ stage \in HasServer => slot'[con[t]].psrv \in Srv
  BY DEF TypeInv, HasServer, HasRecord, Stages
<1> QED BY <1>1, <1>2, <1>3, TypeStep

\* What a step does to the servers leaves them well typed.
LEMMA ServersStep ==
    ASSUME TypeInv, NEW s,
           \/ UNCHANGED servers
           \/ offline' = Revived(s) /\ UNCHANGED <<due, cursor>>
           \/ MarkOffline(s)
    PROVE  ServersTyped'
<1>1. ServersTyped
  BY DEF TypeInv, TypeOK, ServersTyped
<1>2. CASE UNCHANGED servers
  BY <1>1, <1>2 DEF servers, ServersTyped
<1>3. CASE offline' = Revived(s) /\ UNCHANGED <<due, cursor>>
  BY <1>1, <1>3 DEF Revived, ServersTyped, Status, Online
<1>4. CASE MarkOffline(s)
  BY <1>1, <1>4 DEF MarkOffline, servers, ServersTyped, Status, Offline
<1> QED BY <1>2, <1>3, <1>4

\* What a step does to the pool leaves it well typed, and no record without a
\* server that had one.
PoolStep(i) ==
    \/ UNCHANGED slot
    \/ slot' = [slot EXCEPT ![i].aged = FALSE]
    \/ slot' = [slot EXCEPT ![i].aged = TRUE]
    \/ Connected(i)
    \/ NotConnected(i)
    \/ slot' = [slot EXCEPT ![i].alloc = FALSE, ![i].inuse = FALSE]
    \/ slot' = [slot EXCEPT ![i].inuse = FALSE]
    \/ slot' = [slot EXCEPT ![i].connected = FALSE]
    \/ ReleaseSlot(i)
    \/ UnallocateSlot(i)

LEMMA PoolTypeStep ==
    ASSUME TypeInv, UNCHANGED nslots, NEW i \in Slots, PoolStep(i)
    PROVE  PoolTyped' /\ \A j \in Slots : slot'[j].psrv = slot[j].psrv
<1>1. slot \in [Slots -> SlotRecord] /\ nslots \in 0..MaxSlots
  BY DEF TypeInv, TypeOK
<1>2. CASE UNCHANGED slot
  BY <1>1, <1>2 DEF PoolTyped, SlotRecord
<1>3. CASE slot' = [slot EXCEPT ![i].aged = FALSE]
  BY <1>1, <1>3 DEF PoolTyped, SlotRecord
<1>4. CASE slot' = [slot EXCEPT ![i].aged = TRUE]
  BY <1>1, <1>4 DEF PoolTyped, SlotRecord
<1>5. CASE Connected(i)
  <2>1. slot' \in [Slots -> SlotRecord] /\ \A j \in Slots : slot'[j].psrv = slot[j].psrv
    BY <1>1, <1>5, ConnectedFields
  <2> QED BY <1>1, <2>1 DEF PoolTyped
<1>6. CASE NotConnected(i)
  BY <1>1, <1>6 DEF NotConnected, PoolTyped, SlotRecord
<1>7. CASE slot' = [slot EXCEPT ![i].alloc = FALSE, ![i].inuse = FALSE]
  BY <1>1, <1>7 DEF PoolTyped, SlotRecord
<1>8. CASE slot' = [slot EXCEPT ![i].inuse = FALSE]
  BY <1>1, <1>8 DEF PoolTyped, SlotRecord
<1>9. CASE slot' = [slot EXCEPT ![i].connected = FALSE]
  BY <1>1, <1>9 DEF PoolTyped, SlotRecord
<1>10. CASE ReleaseSlot(i)
  BY <1>1, <1>10 DEF ReleaseSlot, PoolTyped, SlotRecord
<1>11. CASE UnallocateSlot(i)
  BY <1>1, <1>11 DEF UnallocateSlot, PoolTyped, SlotRecord
<1> QED BY <1>2, <1>3, <1>4, <1>5, <1>6, <1>7, <1>8, <1>9, <1>10, <1>11 DEF PoolStep

\* A failover counts, and no more of them are made than there are servers.
LEMMA FailOverType ==
    ASSUME RequestTyped, NEW t \in Threads, CanFailOver(t), FailOver(t)
    PROVE  RequestTyped'
<1>1. failovers[t] + 1 \in 0..SrvMax
  BY ServerListAssumption DEF RequestTyped, CanFailOver
<1>2. failovers' \in [Threads -> 0..SrvMax]
  BY <1>1 DEF FailOver, RequestTyped
<1> QED BY <1>2 DEF FailOver, RequestTyped

\* A step of one thread keeps the state well typed: one step of the proof for
\* each action.  The first group leaves server and con alone (TypeMove).
LEMMA TypeMoves ==
    ASSUME TypeInv, NEW t \in Threads,
           \/ UseExisting(t) \/ ConnectOk(t) \/ ConnectFails(t) \/ ExecuteOk(t)
           \/ SendFails(t) \/ ReadBreaks(t) \/ NoAnswer(t) \/ ResendFails(t)
           \/ ReconnectOk(t) \/ ReconnectFails(t) \/ Blame(t) \/ Sweep(t) \/ Drop(t)
           \/ Dropped(t) \/ Decide(t) \/ Respond(t) \/ ExitClose(t)
    PROVE  TypeInv'
<1> DEFINE i == con[t]
           Moves(stage) == Goto(t, stage) /\ server' = server /\ con' = con
           Talks == pc[t] \in HasServer
           Keeps == nslots' = nslots /\ PoolStep(i)
           Serves == \/ UNCHANGED servers
                     \/ offline' = Revived(slot[i].psrv) /\ UNCHANGED <<due, cursor>>
                     \/ MarkOffline(server[t])
           Does(stage, stages) == /\ pc[t] \in stages /\ Moves(stage)
                                  /\ Keeps /\ Serves /\ RequestTyped'
<1>0. RequestTyped /\ SrvMax \in Nat
  BY ServerListAssumption DEF TypeInv, TypeOK, RequestTyped
<1>1. ASSUME NEW stage \in Stages, NEW stages \in SUBSET HasRecord, Does(stage, stages),
             stages \subseteq HasServer \/ stage \notin HasServer,
             stage \in HasRecord \cup {"obtain"}
      PROVE  TypeInv'
  <2>1. pc[t] \in HasRecord /\ i \in Slots
    BY <1>1 DEF TypeInv
  <2>2. PoolTyped' /\ \A j \in Slots : slot'[j].psrv = slot[j].psrv
    BY <1>1, <2>1, PoolTypeStep
  <2>3. ServersTyped'
    BY <1>1, ServersStep
  <2>4. pc[t] \notin {"idle", "obtain", "spinning"}
    BY <2>1 DEF HasRecord
  <2> HIDE DEF Keeps, Serves
  <2> QED BY <1>1, <2>1, <2>2, <2>3, <2>4, TypeMove
<1>2. CASE UseExisting(t)
  <2>2. RequestTyped'
    BY <1>0, <1>2 DEF UseExisting, request, RequestTyped
  <2>3. Keeps
    BY <1>2 DEF UseExisting, pool, PoolStep
  <2>4. Serves
    BY <1>2 DEF UseExisting
  <2>5. pc[t] \in {"reuse"} /\ Moves("execute")
    BY <1>2 DEF UseExisting, request
  <2> HIDE DEF Moves, Keeps, Serves
  <2>6. Does("execute", {"reuse"})
    BY <2>2, <2>3, <2>4, <2>5
  <2> QED BY <1>1, <2>6 DEF Stages, HasRecord, HasServer
<1>3. CASE ConnectOk(t)
  <2>2. RequestTyped'
    BY <1>0, <1>3 DEF ConnectOk, RequestTyped
  <2>3. Keeps
    BY <1>3 DEF ConnectOk, pool, PoolStep
  <2>4. Serves
    BY <1>3 DEF ConnectOk
  <2>5. pc[t] \in {"connect"} /\ Moves("execute")
    BY <1>3 DEF ConnectOk, request
  <2> HIDE DEF Moves, Keeps, Serves
  <2>6. Does("execute", {"connect"})
    BY <2>2, <2>3, <2>4, <2>5
  <2> QED BY <1>1, <2>6 DEF Stages, HasRecord, HasServer
<1>4. CASE ConnectFails(t)
  <2>2. RequestTyped'
    BY <1>0, <1>4 DEF ConnectFails, RequestTyped
  <2>3. Keeps
    BY <1>4 DEF ConnectFails, pool, PoolStep
  <2>4. Serves
    BY <1>4 DEF ConnectFails
  <2>5. pc[t] \in {"connect"} /\ Moves("discard")
    BY <1>4 DEF ConnectFails, request
  <2> HIDE DEF Moves, Keeps, Serves
  <2>6. Does("discard", {"connect"})
    BY <2>2, <2>3, <2>4, <2>5
  <2> QED BY <1>1, <2>6 DEF Stages, HasRecord, HasServer
<1>5. CASE ExecuteOk(t)
  <2>1. slot[i].psrv \in Srv
    BY <1>5 DEF ExecuteOk, TypeInv, HasServer
  <2>2. RequestTyped'
    BY <1>0, <1>5, <2>1 DEF ExecuteOk, Answered, RequestTyped
  <2>3. Keeps
    BY <1>5 DEF ExecuteOk, pool, PoolStep
  <2>4. Serves
    BY <1>5 DEF ExecuteOk
  <2>5. pc[t] \in {"execute", "resend"} /\ Moves("respond")
    BY <1>5 DEF ExecuteOk, Answered, request
  <2> HIDE DEF Moves, Keeps, Serves
  <2>6. Does("respond", {"execute", "resend"})
    BY <2>2, <2>3, <2>4, <2>5
  <2> QED BY <1>1, <2>6 DEF Stages, HasRecord, HasServer
<1>6. CASE SendFails(t)
  <2>2. RequestTyped'
    BY <1>0, <1>6 DEF SendFails, request, RequestTyped
  <2>3. Keeps
    BY <1>6 DEF SendFails, pool, PoolStep
  <2>4. Serves
    BY <1>6 DEF SendFails
  <2>5. pc[t] \in {"execute"} /\ Moves("reconnect")
    BY <1>6 DEF SendFails, request
  <2> HIDE DEF Moves, Keeps, Serves
  <2>6. Does("reconnect", {"execute"})
    BY <2>2, <2>3, <2>4, <2>5
  <2> QED BY <1>1, <2>6 DEF Stages, HasRecord, HasServer
<1>7. CASE ReadBreaks(t)
  <2>1. slot[i].psrv \in Srv
    BY <1>7 DEF ReadBreaks, TypeInv, HasServer
  <2>2. RequestTyped'
    BY <1>0, <1>7, <2>1 DEF ReadBreaks, Answered, RequestTyped
  <2>3. Keeps
    BY <1>7 DEF ReadBreaks, pool, PoolStep
  <2>4. Serves
    BY <1>7 DEF ReadBreaks
  <2>5. pc[t] \in {"execute"} /\ Moves("reconnect")
    BY <1>7 DEF ReadBreaks, Answered, request
  <2> HIDE DEF Moves, Keeps, Serves
  <2>6. Does("reconnect", {"execute"})
    BY <2>2, <2>3, <2>4, <2>5
  <2> QED BY <1>1, <2>6 DEF Stages, HasRecord, HasServer
<1>8. CASE NoAnswer(t)
  <2>1. slot[i].psrv \in Srv
    BY <1>8 DEF NoAnswer, TypeInv, HasServer
  <2>2. RequestTyped'
    BY <1>0, <1>8, <2>1 DEF NoAnswer, Answered, RequestTyped
  <2>3. Keeps
    BY <1>8 DEF NoAnswer, pool, PoolStep
  <2>4. Serves
    BY <1>8 DEF NoAnswer
  <2>5. pc[t] \in {"execute", "resend"} /\ Moves("failed")
    BY <1>8 DEF NoAnswer, Answered, request
  <2> HIDE DEF Moves, Keeps, Serves
  <2>6. Does("failed", {"execute", "resend"})
    BY <2>2, <2>3, <2>4, <2>5
  <2> QED BY <1>1, <2>6 DEF Stages, HasRecord, HasServer
<1>9. CASE ResendFails(t)
  <2>2. RequestTyped'
    BY <1>0, <1>9 DEF ResendFails, request, RequestTyped
  <2>3. Keeps
    BY <1>9 DEF ResendFails, pool, PoolStep
  <2>4. Serves
    BY <1>9 DEF ResendFails
  <2>5. pc[t] \in {"resend"} /\ Moves("failed")
    BY <1>9 DEF ResendFails, request
  <2> HIDE DEF Moves, Keeps, Serves
  <2>6. Does("failed", {"resend"})
    BY <2>2, <2>3, <2>4, <2>5
  <2> QED BY <1>1, <2>6 DEF Stages, HasRecord, HasServer
<1>10. CASE ReconnectOk(t)
  <2>2. RequestTyped'
    BY <1>0, <1>10 DEF ReconnectOk, RequestTyped
  <2>3. Keeps
    BY <1>10 DEF ReconnectOk, pool, PoolStep
  <2>4. Serves
    BY <1>10 DEF ReconnectOk
  <2>5. pc[t] \in {"reconnect"} /\ Moves("resend")
    BY <1>10 DEF ReconnectOk, request
  <2> HIDE DEF Moves, Keeps, Serves
  <2>6. Does("resend", {"reconnect"})
    BY <2>2, <2>3, <2>4, <2>5
  <2> QED BY <1>1, <2>6 DEF Stages, HasRecord, HasServer
<1>11. CASE ReconnectFails(t)
  <2>2. RequestTyped'
    BY <1>0, <1>11 DEF ReconnectFails, RequestTyped
  <2>3. Keeps
    BY <1>11 DEF ReconnectFails, pool, PoolStep
  <2>4. Serves
    BY <1>11 DEF ReconnectFails
  <2>5. pc[t] \in {"reconnect"} /\ Moves("failed")
    BY <1>11 DEF ReconnectFails, request
  <2> HIDE DEF Moves, Keeps, Serves
  <2>6. Does("failed", {"reconnect"})
    BY <2>2, <2>3, <2>4, <2>5
  <2> QED BY <1>1, <2>6 DEF Stages, HasRecord, HasServer
<1>12. CASE Drop(t)
  <2>2. RequestTyped'
    BY <1>0, <1>12 DEF Drop, request, RequestTyped
  <2>3. Keeps
    BY <1>12 DEF Drop, pool, PoolStep
  <2>4. Serves
    BY <1>12 DEF Drop
  <2>5. pc[t] \in {"drop", "failed"} /\ Moves("dropped")
    BY <1>12 DEF Drop, request
  <2> HIDE DEF Moves, Keeps, Serves
  <2>6. Does("dropped", {"drop", "failed"})
    BY <2>2, <2>3, <2>4, <2>5
  <2> QED BY <1>1, <2>6 DEF Stages, HasRecord, HasServer
<1>13. CASE Dropped(t)
  <2>2. RequestTyped'
    BY <1>0, <1>13 DEF Dropped, request, RequestTyped
  <2>3. Keeps
    BY <1>13 DEF Dropped, pool, PoolStep
  <2>4. Serves
    BY <1>13 DEF Dropped
  <2>5. pc[t] \in {"dropped"} /\ Moves("decide")
    BY <1>13 DEF Dropped, request
  <2> HIDE DEF Moves, Keeps, Serves
  <2>6. Does("decide", {"dropped"})
    BY <2>2, <2>3, <2>4, <2>5
  <2> QED BY <1>1, <2>6 DEF Stages, HasRecord, HasServer
<1>14. CASE Respond(t)
  <2>2. RequestTyped'
    BY <1>0, <1>14 DEF Respond, RequestTyped
  <2>3. Keeps
    BY <1>14 DEF Respond, pool, PoolStep
  <2>4. Serves
    BY <1>14 DEF Respond
  <2>5. pc[t] \in {"respond", "errorpage"} /\ Moves("exit")
    BY <1>14 DEF Respond, request
  <2> HIDE DEF Moves, Keeps, Serves
  <2>6. Does("exit", {"respond", "errorpage"})
    BY <2>2, <2>3, <2>4, <2>5
  <2> QED BY <1>1, <2>6 DEF Stages, HasRecord, HasServer
<1>15. CASE ExitClose(t)
  <2>2. RequestTyped'
    BY <1>0, <1>15 DEF ExitClose, request, RequestTyped
  <2>3. Keeps
    BY <1>15 DEF ExitClose, pool, PoolStep
  <2>4. Serves
    BY <1>15 DEF ExitClose
  <2>5. pc[t] \in {"exit"} /\ Moves("exiting")
    BY <1>15 DEF ExitClose, request
  <2> HIDE DEF Moves, Keeps, Serves
  <2>6. Does("exiting", {"exit"})
    BY <2>2, <2>3, <2>4, <2>5
  <2> QED BY <1>1, <2>6 DEF Stages, HasRecord, HasServer
<1>16. CASE Blame(t)
  <2>1. RequestTyped' /\ Keeps /\ Serves
    BY <1>0, <1>16 DEF Blame, pool, request, RequestTyped, PoolStep
  <2>2. pc[t] \in {"failed"} /\ (Moves("sweep") \/ Moves("decide"))
    BY <1>16 DEF Blame, request
  <2> HIDE DEF Moves, Keeps, Serves
  <2>3. Does("sweep", {"failed"}) \/ Does("decide", {"failed"})
    BY <2>1, <2>2
  <2> QED BY <1>1, <2>3 DEF Stages, HasRecord, HasServer
<1>17. CASE Sweep(t)
  <2>1. RequestTyped' /\ Keeps /\ Serves
    BY <1>0, <1>17 DEF Sweep, pool, request, RequestTyped, PoolStep
  <2>2. pc[t] \in {"sweep"} /\ (Moves("drop") \/ Moves("decide"))
    BY <1>17 DEF Sweep, request
  <2> HIDE DEF Moves, Keeps, Serves
  <2>3. Does("drop", {"sweep"}) \/ Does("decide", {"sweep"})
    BY <2>1, <2>2
  <2> QED BY <1>1, <2>3 DEF Stages, HasRecord, HasServer
<1>18. CASE Decide(t)
  <2>1. Keeps /\ Serves
    BY <1>18 DEF Decide, pool, PoolStep
  <2>2. i \in Slots /\ slot[i] \in SlotRecord
    BY <1>18 DEF Decide, TypeInv, TypeOK, HasRecord, Stages
  <2>3. CASE mayFailover[t] /\ CanFailOver(t)
    <3>1. RequestTyped'
      BY <1>0, <1>18, <2>3, FailOverType DEF Decide
    <3>2. pc[t] \in {"decide"} /\ Moves("obtain")
      BY <1>18, <2>3 DEF Decide, FailOver
    <3> HIDE DEF Moves, Keeps, Serves
    <3>3. Does("obtain", {"decide"})
      BY <2>1, <3>1, <3>2
    <3> QED BY <1>1, <3>3 DEF Stages, HasRecord, HasServer
  <2>4. CASE ~(mayFailover[t] /\ CanFailOver(t))
    <3>1. RequestTyped'
      BY <1>0, <1>18, <2>2, <2>4 DEF Decide, SlotRecord, RequestTyped
    <3>2. pc[t] \in {"decide"} /\ Moves("errorpage")
      BY <1>18, <2>4 DEF Decide
    <3> HIDE DEF Moves, Keeps, Serves
    <3>3. Does("errorpage", {"decide"})
      BY <2>1, <3>1, <3>2
    <3> QED BY <1>1, <3>3 DEF Stages, HasRecord, HasServer
  <2> QED BY <2>3, <2>4
<1> HIDE DEF Does
<1> QED BY <1>2, <1>3, <1>4, <1>5, <1>6, <1>7, <1>8, <1>9, <1>10, <1>11, <1>12, <1>13,
           <1>14, <1>15, <1>16, <1>17, <1>18

\* The second group: a request arrives, obtains a connection, gives it up, or
\* comes to its end.
LEMMA TypeOthers ==
    ASSUME TypeInv, NEW t \in Threads,
           \/ Arrive(t) \/ ObtainPreferred(t) \/ ObtainFound(t) \/ ObtainNone(t)
           \/ ObtainSpins(t) \/ Requeue(t) \/ PrepareNew(t) \/ Discard(t)
           \/ Unavailable(t) \/ ExitKeep(t) \/ ExitClosed(t)
    PROVE  TypeInv'
<1>0. /\ RequestTyped /\ ServersTyped /\ PoolTyped /\ SrvMax \in Nat \ {0}
      /\ server[t] \in 0..(SrvMax + 1) /\ con[t] \in Slots \cup {NoSlot}
  BY ServerListAssumption DEF TypeInv, TypeOK, RequestTyped, ServersTyped, PoolTyped
<1>a. /\ Outcome.cursor \in Srv
      /\ Outcome.result = "found" => Outcome.server \in Srv
  BY <1>0, OutcomeType DEF Outcome, ServersTyped
<1>1. CASE Arrive(t)
  <2>1. PICK s \in Preferences \cup {NoServer} : server' = [server EXCEPT ![t] = s]
    BY <1>1 DEF Arrive
  <2>2. s \in 0..(SrvMax + 1)
    BY <1>0, RequestDispatchAssumption DEF NoServer
  <2>3. RequestTyped' /\ ServersTyped' /\ PoolTyped' /\ slot' = slot
    BY <1>0, <1>1 DEF Arrive, RequestTyped, ServersTyped, PoolTyped, pool, servers
  <2>4. con' = [con EXCEPT ![t] = con[t]] /\ Goto(t, "obtain")
    BY <1>1 DEF Arrive, TypeInv, TypeOK
  <2> QED BY <1>0, <2>1, <2>2, <2>3, <2>4, TypeStep DEF Stages, HasRecord, HasServer
<1>2. CASE ObtainPreferred(t)
  <2>1. server[t] \in Srv /\ ScanPool(t, server[t], 0) /\ ServersTyped'
    BY <1>0, <1>2 DEF ObtainPreferred, Preferable, servers, ServersTyped
  <2> QED BY <2>1, ScanType
<1>3. CASE ObtainFound(t)
  <2>1. Outcome.server \in Srv /\ ScanPool(t, Outcome.server, 0)
    BY <1>3, <1>a DEF ObtainFound
  <2>2. ServersTyped'
    BY <1>0, <1>3, <1>a DEF ObtainFound, ServersTyped, Status, Retrying
  <2> QED BY <2>1, <2>2, ScanType
<1>4. CASE ObtainNone(t)
  <2>1. ServersTyped'
    BY <1>0, <1>4, <1>a DEF ObtainNone, ServersTyped, Status, Online, Srv
  <2>2. PoolTyped' /\ slot' = slot /\ Finish(t)
    BY <1>0, <1>4 DEF ObtainNone, pool, PoolTyped
  <2> QED BY <2>1, <2>2, TypeFinish
<1>5. CASE ObtainSpins(t)
  <2>1. ServersTyped' /\ PoolTyped' /\ slot' = slot /\ RequestTyped'
    BY <1>0, <1>5, <1>a
       DEF ObtainSpins, ServersTyped, PoolTyped, pool, request, RequestTyped
  <2>2. Goto(t, "spinning") /\ server' = server /\ con' = con
    BY <1>5 DEF ObtainSpins, request
  <2> QED BY <2>1, <2>2, TypeMove DEF Stages, HasRecord, HasServer
<1>6. CASE Requeue(t)
  <2>1. server[t] \in Srv /\ waited[t] + 1 \in Nat
    BY <1>6, RequestDispatchAssumption DEF Requeue, TypeInv, TypeOK
  <2>2. ServersTyped'
    BY <1>0, <1>6 DEF Requeue, servers, ServersTyped
  <2> QED BY <1>6, <2>1, <2>2, ScanType DEF Requeue
<1>7. CASE PrepareNew(t)
  <2>1. con[t] \in Slots /\ server[t] \in Srv
    BY <1>7 DEF PrepareNew, TypeInv, HasRecord, Stages
  <2>2. slot' = [slot EXCEPT ![con[t]].connected = FALSE, ![con[t]].aged = FALSE,
                             ![con[t]].psrv = server[t]]
    BY <1>7 DEF PrepareNew
  <2>3. slot \in [Slots -> SlotRecord] /\ nslots' = nslots
    BY <1>0, <1>7 DEF PoolTyped, PrepareNew
  <2>4. /\ slot' \in [Slots -> SlotRecord]
        /\ \A j \in Slots : slot'[j].psrv = IF j = con[t] THEN server[t] ELSE slot[j].psrv
    BY <2>1, <2>2, <2>3, PreparedFields
  <2>5. PoolTyped' /\ ServersTyped' /\ RequestTyped'
    BY <1>0, <1>7, <2>3, <2>4
       DEF PrepareNew, PoolTyped, ServersTyped, RequestTyped, servers, request
  <2>6. Goto(t, "connect") /\ server' = server /\ con' = con /\ pc[t] \in HasRecord
    BY <1>7 DEF PrepareNew, request, HasRecord, Stages
  <2>7. \A j \in Slots : slot[j].psrv \in Srv => slot'[j].psrv \in Srv
    BY <2>1, <2>4
  <2> QED BY <2>1, <2>4, <2>5, <2>6, <2>7, TypeMove DEF Stages, HasRecord, HasServer
<1>8. CASE Discard(t)
  <2>1. con[t] \in Slots
    BY <1>8 DEF Discard, TypeInv, HasRecord, Stages
  <2>2. PoolTyped' /\ \A j \in Slots : slot'[j].psrv = slot[j].psrv
    BY <1>8, <2>1, PoolTypeStep DEF Discard, PoolStep
  <2>3. ServersTyped' /\ RequestTyped'
    BY <1>0, <1>8 DEF Discard, ServersTyped, RequestTyped, servers
  <2>4. server' = [server EXCEPT ![t] = server[t]] /\ con' = [con EXCEPT ![t] = NoSlot]
    BY <1>8 DEF Discard, TypeInv, TypeOK
  <2>5. server[t] \in Srv /\ Goto(t, "unavailable")
    BY <1>8 DEF Discard, TypeInv
  <2> QED BY <1>0, <2>2, <2>3, <2>4, <2>5, TypeStep DEF Stages, HasRecord, HasServer
<1>9. CASE Unavailable(t)
  <2>1. ServersTyped'
    BY <1>9, ServersStep DEF Unavailable
  <2>2. PoolTyped' /\ slot' = slot
    BY <1>0, <1>9 DEF Unavailable, pool, PoolTyped
  <2>3. CASE CanFailOver(t)
    <3>1. FailOver(t) /\ RequestTyped'
      BY <1>0, <1>9, <2>3, FailOverType DEF Unavailable
    <3> QED BY <2>1, <2>2, <3>1, TypeMove DEF FailOver, Stages, HasRecord, HasServer
  <2>4. CASE ~CanFailOver(t)
    BY <1>9, <2>1, <2>2, <2>4, TypeFinish DEF Unavailable
  <2> QED BY <2>3, <2>4
<1>10. CASE ExitKeep(t) \/ ExitClosed(t)
  <2>1. con[t] \in Slots /\ nslots' = nslots /\ PoolStep(con[t])
    BY <1>10 DEF ExitKeep, ExitClosed, PoolStep, TypeInv, HasRecord, Stages
  <2>2. PoolTyped' /\ \A j \in Slots : slot'[j].psrv = slot[j].psrv
    BY <2>1, PoolTypeStep
  <2>3. ServersTyped' /\ Finish(t)
    BY <1>0, <1>10 DEF ExitKeep, ExitClosed, servers, ServersTyped
  <2> QED BY <2>2, <2>3, TypeFinish
<1> QED BY <1>1, <1>2, <1>3, <1>4, <1>5, <1>6, <1>7, <1>8, <1>9, <1>10

\* The operator and the clock.
LEMMA TypeEnvironment == ASSUME TypeInv, Environment PROVE TypeInv'
<1>0. UNCHANGED <<nslots, cursor, pc, request>>
  BY DEF Environment, HealthCheckDue, AdminOffline, AdminOnline, IdleTooLong, StatusPage,
         pool, servers
<1>1. ServersTyped
  BY DEF TypeInv, TypeOK, ServersTyped
<1>2. ServersTyped'
  <2>1. ASSUME NEW s \in Srv, HealthCheckDue(s) \/ AdminOffline(s) \/ AdminOnline(s)
        PROVE  ServersTyped'
    BY <1>0, <1>1, <2>1
       DEF HealthCheckDue, AdminOffline, AdminOnline, ServersTyped, Status, Online, Offline
  <2>2. CASE StatusPage
    BY <1>0, <1>1, <2>2 DEF StatusPage, ServersTyped, Status, Online
  <2>3. ASSUME NEW k \in Slots, IdleTooLong(k) PROVE ServersTyped'
    BY <1>1, <2>3 DEF IdleTooLong, servers, ServersTyped
  <2> QED BY <2>1, <2>2, <2>3 DEF Environment
<1>3. PoolTyped' /\ \A j \in Slots : slot'[j].psrv = slot[j].psrv
  <2>1. CASE UNCHANGED slot
    BY <1>0, <2>1 DEF TypeInv, TypeOK, PoolTyped
  <2>2. ASSUME NEW k \in Slots, IdleTooLong(k)
        PROVE  PoolTyped' /\ \A j \in Slots : slot'[j].psrv = slot[j].psrv
    BY <1>0, <2>2, PoolTypeStep DEF IdleTooLong, PoolStep
  <2> QED BY <2>1, <2>2
          DEF Environment, HealthCheckDue, AdminOffline, AdminOnline, StatusPage, pool
<1>4. TypeOK'
  BY <1>0, <1>2, <1>3 DEF TypeInv, TypeOK, ServersTyped, PoolTyped, request
<1> QED BY <1>0, <1>3, <1>4 DEF TypeInv, request, HasServer, HasRecord, Stages

LEMMA TypeInvariant == Spec => []TypeInv
<1>1. Init => TypeInv
  <2> SUFFICES ASSUME Init PROVE TypeInv
    OBVIOUS
  <2>1. TypeOK
    BY ServerListAssumption, RequestDispatchAssumption
       DEF Init, TypeOK, Slots, Srv, NewSlot, SlotRecord, Status, Online, Stages, NoServer,
           NoSlot
  <2> QED BY <2>1 DEF Init, TypeInv, HasRecord, HasServer
<1>2. TypeInv /\ [Next]_vars => TypeInv'
  <2> SUFFICES ASSUME TypeInv, [Next]_vars PROVE TypeInv'
    OBVIOUS
  <2>1. CASE Environment
    BY <2>1, TypeEnvironment
  <2>2. ASSUME NEW t \in Threads, Arrive(t) \/ Work(t) PROVE TypeInv'
    BY <2>2, TypeMoves, TypeOthers DEF Work, Obtain, Execute, Leave
  <2>3. CASE UNCHANGED vars
    BY <2>3 DEF vars, TypeInv, TypeOK
  <2> QED BY <2>1, <2>2, <2>3 DEF Next
<1> QED BY <1>1, <1>2, PTL DEF Spec

\* Every value the dispatch of requests keeps is one the code can handle, for
\* any number of threads, servers and records and whatever may fail: server
\* numbers and pool records stay in range, and the failover count stays within
\* the number of servers.
THEOREM TypeCorrect == Spec => []TypeOK
<1>1. TypeInv => TypeOK
  BY DEF TypeInv
<1> QED BY <1>1, TypeInvariant, PTL

---------------------------------------------------------------------------
(* A request is not run by two servers.                                    *)

\* The stages of a request that a server may have run.
Committed == {"reconnect", "resend", "failed", "sweep", "drop", "dropped", "decide",
              "respond", "errorpage", "exit", "exiting"}

\* A request that was delivered has passed the point of no return.
CommittedInv ==
    \A t \in Threads : delivered[t] # {} => ~mayFailover[t] /\ pc[t] \in Committed

\* What an action of thread t must do to keep it: leave the other threads
\* alone, and not take a delivered request back.
CommittedStep(t) ==
    /\ \A u \in Threads \ {t} : /\ delivered'[u] = delivered[u]
                                /\ mayFailover'[u] = mayFailover[u]
                                /\ pc'[u] = pc[u]
    /\ delivered'[t] # {} => ~mayFailover'[t] /\ pc'[t] \in Committed
    /\ delivered[t] # {} => pc'[t] # "obtain"

LEMMA ScanCommitted ==
    ASSUME TypeInv, CommittedInv, NEW t \in Threads, pc[t] \in {"obtain", "queued"},
           NEW s, NEW w, ScanPool(t, s, w)
    PROVE  CommittedStep(t)
<1>1. delivered[t] = {}
  BY DEF CommittedInv, Committed
<1>2. /\ pc \in [Threads -> Stages] /\ delivered \in [Threads -> SUBSET Srv]
      /\ mayFailover \in [Threads -> BOOLEAN]
  BY DEF TypeInv, TypeOK
<1>3. CASE Refuse(t, s, w)
  BY <1>1, <1>2, <1>3 DEF Refuse, Finish, Goto, CommittedStep
<1>4. CASE WaitTurn(t, s, w)
  BY <1>1, <1>2, <1>4 DEF WaitTurn, Goto, CommittedStep
<1>5. CASE TakeExisting(t, s) \/ TakeUnused(t, s)
  <2>1. PICK i, stage : Claimed(t, i, stage)
    BY <1>5, Zenon DEF TakeExisting, TakeUnused
  <2>2. delivered' = delivered /\ mayFailover' = mayFailover /\ Goto(t, stage)
    BY <2>1 DEF Claimed
  <2> QED BY <1>1, <1>2, <2>2 DEF Goto, CommittedStep
<1> QED BY <1>3, <1>4, <1>5 DEF ScanPool

LEMMA WorkCommitted ==
    ASSUME TypeInv, CommittedInv, NEW t \in Threads, Arrive(t) \/ Work(t)
    PROVE  CommittedStep(t)
<1>0. /\ pc \in [Threads -> Stages] /\ delivered \in [Threads -> SUBSET Srv]
      /\ mayFailover \in [Threads -> BOOLEAN]
      /\ delivered[t] # {} => ~mayFailover[t] /\ pc[t] \in Committed
  BY DEF TypeInv, TypeOK, CommittedInv
<1>1. CASE ObtainPreferred(t) \/ ObtainFound(t) \/ Requeue(t)
  BY <1>1, ScanCommitted DEF ObtainPreferred, ObtainFound, Requeue
<1>2. CASE ObtainNone(t)
  BY <1>0, <1>2 DEF ObtainNone, Finish, Goto, CommittedStep, Committed
<1>3. CASE ObtainSpins(t)
  BY <1>0, <1>3 DEF ObtainSpins, request, Goto, CommittedStep, Committed
<1>4. CASE Arrive(t)
  BY <1>0, <1>4 DEF Arrive, Goto, CommittedStep, Committed
<1>5. CASE UseExisting(t)
  BY <1>0, <1>5 DEF UseExisting, request, Goto, CommittedStep, Committed
<1>6. CASE PrepareNew(t)
  BY <1>0, <1>6 DEF PrepareNew, request, Goto, CommittedStep, Committed
<1>7. CASE ConnectOk(t)
  BY <1>0, <1>7 DEF ConnectOk, Goto, CommittedStep, Committed
<1>8. CASE ConnectFails(t)
  BY <1>0, <1>8 DEF ConnectFails, Goto, CommittedStep, Committed
<1>9. CASE Discard(t)
  BY <1>0, <1>9 DEF Discard, Goto, CommittedStep, Committed
<1>10. CASE Unavailable(t)
  BY <1>0, <1>10 DEF Unavailable, FailOver, Finish, Goto, CommittedStep, Committed
<1>11. CASE ExecuteOk(t)
  BY <1>0, <1>11 DEF ExecuteOk, Answered, Goto, CommittedStep, Committed
<1>12. CASE SendFails(t)
  BY <1>0, <1>12 DEF SendFails, request, Goto, CommittedStep, Committed
<1>13. CASE ReadBreaks(t)
  BY <1>0, <1>13 DEF ReadBreaks, Answered, Goto, CommittedStep, Committed
<1>14. CASE NoAnswer(t)
  BY <1>0, <1>14 DEF NoAnswer, Answered, Goto, CommittedStep, Committed
<1>15. CASE ResendFails(t)
  BY <1>0, <1>15 DEF ResendFails, request, Goto, CommittedStep, Committed
<1>16. CASE ReconnectOk(t)
  BY <1>0, <1>16 DEF ReconnectOk, Goto, CommittedStep, Committed
<1>17. CASE ReconnectFails(t)
  BY <1>0, <1>17 DEF ReconnectFails, Goto, CommittedStep, Committed
<1>18. CASE Blame(t)
  BY <1>0, <1>18 DEF Blame, request, Goto, CommittedStep, Committed
<1>19. CASE Sweep(t)
  BY <1>0, <1>19 DEF Sweep, request, Goto, CommittedStep, Committed
<1>20. CASE Drop(t)
  BY <1>0, <1>20 DEF Drop, request, Goto, CommittedStep, Committed
<1>21. CASE Dropped(t)
  BY <1>0, <1>21 DEF Dropped, request, Goto, CommittedStep, Committed
<1>22. CASE Decide(t)
  BY <1>0, <1>22 DEF Decide, FailOver, Goto, CommittedStep, Committed
<1>23. CASE Respond(t)
  BY <1>0, <1>23 DEF Respond, Goto, CommittedStep, Committed
<1>24. CASE ExitKeep(t)
  BY <1>0, <1>24 DEF ExitKeep, Finish, Goto, CommittedStep, Committed
<1>25. CASE ExitClose(t)
  BY <1>0, <1>25 DEF ExitClose, request, Goto, CommittedStep, Committed
<1>26. CASE ExitClosed(t)
  BY <1>0, <1>26 DEF ExitClosed, Finish, Goto, CommittedStep, Committed
<1> QED BY <1>1, <1>2, <1>3, <1>4, <1>5, <1>6, <1>7, <1>8, <1>9, <1>10, <1>11, <1>12, <1>13, <1>14, <1>15, <1>16, <1>17, <1>18, <1>19, <1>20, <1>21, <1>22, <1>23, <1>24, <1>25, <1>26
        DEF Work, Obtain, Execute, Leave

\* Whatever fails and whatever the other threads do, a request that a server
\* has received in full never goes back to mg_obtain_connection.
THEOREM NoSecondDispatch == Spec => NeverDispatchedAgain
<1> DEFINE Held == \A t \in Threads : delivered[t] # {} => pc'[t] # "obtain"
<1>1. Init => CommittedInv
  BY DEF Init, CommittedInv
<1>2. TypeInv /\ CommittedInv /\ [Next]_vars => CommittedInv' /\ [Held]_vars
  <2> SUFFICES ASSUME TypeInv, CommittedInv, [Next]_vars PROVE CommittedInv' /\ [Held]_vars
    OBVIOUS
  <2>1. CASE Environment \/ UNCHANGED vars
    <3>1. UNCHANGED <<delivered, mayFailover, pc>>
      BY <2>1 DEF Environment, HealthCheckDue, AdminOffline, AdminOnline, IdleTooLong,
                  StatusPage, request, vars
    <3> QED BY <3>1 DEF CommittedInv, Committed
  <2>2. ASSUME NEW t \in Threads, Arrive(t) \/ Work(t) PROVE CommittedInv' /\ [Held]_vars
    <3>1. CommittedStep(t)
      BY <2>2, WorkCommitted
    <3>2. \A u \in Threads : delivered[u] # {} => pc[u] # "obtain"
      BY DEF CommittedInv, Committed
    <3> QED BY <3>1, <3>2 DEF CommittedInv, CommittedStep
  <2> QED BY <2>1, <2>2 DEF Next
<1> QED BY <1>1, <1>2, TypeInvariant, PTL DEF Spec, NeverDispatchedAgain

---------------------------------------------------------------------------
(* Servers marked for exclusive use are kept apart.                        *)

\* What an action of thread t must do to keep reserved servers apart.
ApartStep(t) ==
    /\ \A u \in Threads \ {t} : server'[u] = server[u]
    /\ server'[t] # server[t] /\ {server[t], server'[t]} \cap Exclusive # {}
          => "idle" \in {pc[t], pc'[t]}

LEMMA ScanApart ==
    ASSUME TypeInv, NEW t \in Threads, NEW s, NEW w, ScanPool(t, s, w),
           s = server[t] \/ (s \notin Exclusive /\ server[t] \notin Exclusive)
    PROVE  ApartStep(t)
<1>0. pc \in [Threads -> Stages] /\ server \in [Threads -> 0..(SrvMax + 1)]
  BY DEF TypeInv, TypeOK
<1>1. CASE Refuse(t, s, w)
  BY <1>0, <1>1 DEF Refuse, Finish, Goto, ApartStep
<1>2. CASE TakeExisting(t, s) \/ TakeUnused(t, s) \/ WaitTurn(t, s, w)
  <2>1. server' = [server EXCEPT ![t] = s]
    BY <1>2 DEF TakeExisting, TakeUnused, WaitTurn
  <2> QED BY <1>0, <2>1 DEF ApartStep
<1> QED BY <1>1, <1>2 DEF ScanPool

LEMMA WorkApart ==
    ASSUME TypeInv, NEW t \in Threads, Arrive(t) \/ Work(t)
    PROVE  ApartStep(t)
<1>0. /\ pc \in [Threads -> Stages] /\ server \in [Threads -> 0..(SrvMax + 1)]
      /\ cursor \in Srv
  BY DEF TypeInv, TypeOK
<1>1. CASE ObtainPreferred(t) \/ Requeue(t)
  BY <1>1, ScanApart DEF ObtainPreferred, Requeue
<1>2. CASE ObtainFound(t)
  <2>1. Outcome.server \notin Exclusive
    BY <1>0, <1>2, OutcomeType DEF ObtainFound, Outcome, Eligible
  <2>2. server[t] \notin Exclusive
    BY <1>2, ServerListAssumption DEF ObtainFound, Preferable
  <2>3. ScanPool(t, Outcome.server, 0)
    BY <1>2 DEF ObtainFound
  <2> QED BY <2>1, <2>2, <2>3, ScanApart
<1>3. CASE Arrive(t)
  BY <1>0, <1>3 DEF Arrive, ApartStep
<1>4. CASE \/ ObtainNone(t) \/ ExitKeep(t) \/ ExitClosed(t)
           \/ (Unavailable(t) /\ ~CanFailOver(t))
  <2>1. Finish(t)
    BY <1>4 DEF ObtainNone, ExitKeep, ExitClosed, Unavailable
  <2> QED BY <1>0, <2>1 DEF Finish, Goto, ApartStep
<1>5. CASE \/ ObtainSpins(t) \/ UseExisting(t) \/ PrepareNew(t) \/ ConnectOk(t)
           \/ ConnectFails(t) \/ Discard(t) \/ (Unavailable(t) /\ CanFailOver(t))
  BY <1>5 DEF ObtainSpins, UseExisting, PrepareNew, ConnectOk, ConnectFails, Discard,
              Unavailable, FailOver, request, ApartStep
<1>6. CASE Execute(t)
  BY <1>6 DEF Execute, ExecuteOk, SendFails, ReadBreaks, NoAnswer, ResendFails, ReconnectOk,
              ReconnectFails, Blame, Sweep, Drop, Dropped, Decide, Answered, FailOver,
              request, ApartStep
<1>7. CASE Respond(t) \/ ExitClose(t)
  BY <1>7 DEF Respond, ExitClose, request, ApartStep
<1> QED BY <1>1, <1>2, <1>3, <1>4, <1>5, <1>6, <1>7 DEF Work, Obtain, Leave

\* Neither the search nor a failover takes a request to a reserved server it
\* did not name, or away from one it did, for any paths and whatever fails.
THEOREM ReservedKeptApart == Spec => ReservedApart
<1> DEFINE Apart == \A t \in Threads :
                      server'[t] # server[t] /\ {server[t], server'[t]} \cap Exclusive # {}
                        => "idle" \in {pc[t], pc'[t]}
<1>1. TypeInv /\ [Next]_vars => [Apart]_vars
  <2> SUFFICES ASSUME TypeInv, [Next]_vars PROVE [Apart]_vars
    OBVIOUS
  <2>1. CASE Environment
    BY <2>1 DEF Environment, HealthCheckDue, AdminOffline, AdminOnline, IdleTooLong,
                StatusPage, request
  <2>2. ASSUME NEW t \in Threads, Arrive(t) \/ Work(t) PROVE Apart
    BY <2>2, WorkApart DEF ApartStep
  <2> QED BY <2>1, <2>2 DEF Next
<1> QED BY <1>1, TypeInvariant, PTL DEF Spec, ReservedApart

---------------------------------------------------------------------------
(* No record of the pool is lost.                                          *)

\* The stages after a failed mg_connect.
Blamed == {"discard", "unavailable", "failed", "sweep", "drop", "dropped", "decide",
           "errorpage", "exit", "exiting"}

\* The thread will clear the mark of its record.  Not all that are Holding do: the
\* loop of mg_server_offline may find nothing to release after a failed
\* reconnection, but mg_connect has given the record up by then.
WillRelease(t) ==
    Using(t) \/ pc[t] \in {"discard", "drop", "exit"} \/ (pc[t] = "failed" /\ ~connectFailed[t])

MarkInv ==
    /\ \A t \in Threads : connectFailed[t] => pc[t] \in Blamed
    /\ \A i \in Slots : slot[i].alloc /\ slot[i].inuse
           => \E t \in Threads : con[t] = i /\ WillRelease(t)

\* What an action of thread t must do to keep it: a record that is marked after
\* it is to be released by t, or was marked before and t was not to.
MarkStep(t) ==
    /\ \A u \in Threads \ {t} : /\ pc'[u] = pc[u] /\ con'[u] = con[u]
                                /\ connectFailed'[u] = connectFailed[u]
    /\ connectFailed'[t] => pc'[t] \in Blamed
    /\ \A i \in Slots : slot'[i].alloc /\ slot'[i].inuse
           => \/ con'[t] = i /\ WillRelease(t)'
              \/ slot[i].alloc /\ slot[i].inuse /\ ~(con[t] = i /\ WillRelease(t))

LEMMA MarkStepKeeps ==
    ASSUME MarkInv, NEW t \in Threads, MarkStep(t)
    PROVE  MarkInv'
<1>1. \A u \in Threads : connectFailed'[u] => pc'[u] \in Blamed
  BY DEF MarkInv, MarkStep
<1>2. ASSUME NEW i \in Slots, slot'[i].alloc, slot'[i].inuse
      PROVE  \E u \in Threads : con'[u] = i /\ WillRelease(u)'
  <2>1. CASE con'[t] = i /\ WillRelease(t)'
    BY <2>1
  <2>2. CASE slot[i].alloc /\ slot[i].inuse /\ ~(con[t] = i /\ WillRelease(t))
    <3>1. PICK u \in Threads : con[u] = i /\ WillRelease(u)
      BY <2>2 DEF MarkInv
    <3>2. pc'[u] = pc[u] /\ con'[u] = con[u] /\ connectFailed'[u] = connectFailed[u]
      BY <2>2, <3>1 DEF MarkStep
    <3> QED BY <3>1, <3>2 DEF WillRelease, Using
  <2> QED BY <1>2, <2>1, <2>2 DEF MarkStep
<1> QED BY <1>1, <1>2 DEF MarkInv

\* mg_obtain_connection: the record that the scan takes is the thread's.
LEMMA ScanMarks ==
    ASSUME TypeInv, MarkInv, NEW t \in Threads, pc[t] \in {"obtain", "queued"},
           NEW s \in Srv, NEW w, ScanPool(t, s, w)
    PROVE  MarkStep(t)
<1>0. /\ pc \in [Threads -> Stages] /\ con \in [Threads -> Slots \cup {NoSlot}]
      /\ connectFailed \in [Threads -> BOOLEAN] /\ slot \in [Slots -> SlotRecord]
      /\ ~connectFailed[t] /\ ~WillRelease(t)
  BY DEF TypeInv, TypeOK, MarkInv, Blamed, WillRelease, Using
<1>1. CASE Refuse(t, s, w)
  BY <1>0, <1>1 DEF Refuse, Finish, Goto, pool, MarkStep
<1>2. CASE WaitTurn(t, s, w)
  BY <1>0, <1>2 DEF WaitTurn, Goto, pool, MarkStep
<1>3. ASSUME NEW k \in Slots, NEW stage \in {"reuse", "fresh"}, Claimed(t, k, stage),
             \A i \in Slots \ {k} : slot'[i] = slot[i]
      PROVE  MarkStep(t)
  <2>1. /\ con' = [con EXCEPT ![t] = k] /\ pc' = [pc EXCEPT ![t] = stage]
        /\ connectFailed' = connectFailed
    BY <1>3 DEF Claimed, Goto
  <2>2. con'[t] = k /\ WillRelease(t)'
    BY <1>0, <2>1 DEF WillRelease, Using
  <2> QED BY <1>0, <1>3, <2>1, <2>2 DEF MarkStep
<1>4. CASE TakeExisting(t, s)
  <2>1. ScanStop(s) \in Slots
    BY <1>4, RequestDispatchAssumption DEF TakeExisting, Takes, Allocated, Slots, TypeInv, TypeOK
  <2> QED BY <1>0, <1>3, <1>4, <2>1 DEF TakeExisting
<1>5. CASE TakeUnused(t, s)
  <2> DEFINE k == IF SpareAfter(t, s) = NoSlot THEN nslots + 1 ELSE SpareAfter(t, s)
  <2>1. k \in Slots /\ Claimed(t, k, "fresh")
    BY <1>5 DEF TakeUnused
  <2>2. \A i \in Slots \ {k} : slot'[i] = slot[i]
    BY <1>0, <1>5 DEF TakeUnused
  <2> HIDE DEF k
  <2> QED BY <1>3, <2>1, <2>2
<1> QED BY <1>1, <1>2, <1>3, <1>4, <1>5 DEF ScanPool

\* Every other action of a thread.
LEMMA WorkMarks ==
    ASSUME TypeInv, MarkInv, NEW t \in Threads, Arrive(t) \/ Work(t)
    PROVE  MarkStep(t)
<1>0. /\ pc \in [Threads -> Stages] /\ con \in [Threads -> Slots \cup {NoSlot}]
      /\ connectFailed \in [Threads -> BOOLEAN] /\ slot \in [Slots -> SlotRecord]
      /\ pc[t] \in HasRecord => con[t] \in Slots
      /\ connectFailed[t] => pc[t] \in Blamed
  BY DEF TypeInv, TypeOK, MarkInv
<1> USE DEF HasRecord, Stages, Blamed, WillRelease, Using, SlotRecord
<1>1. CASE ObtainPreferred(t) \/ ObtainFound(t) \/ Requeue(t)
  <2>1. PICK s \in Srv : \E w : ScanPool(t, s, w)
    BY <1>1, OutcomeType, ServerListAssumption
       DEF ObtainPreferred, ObtainFound, Requeue, Outcome, Preferable, TypeInv, TypeOK, Srv
  <2> QED BY <1>1, <2>1, ScanMarks DEF ObtainPreferred, ObtainFound, Requeue
<1>2. CASE ObtainNone(t)
  BY <1>0, <1>2 DEF ObtainNone, Finish, Goto, pool, MarkStep
<1>3. CASE ObtainSpins(t)
  BY <1>0, <1>3 DEF ObtainSpins, request, pool, Goto, MarkStep
<1>4. CASE Arrive(t)
  BY <1>0, <1>4 DEF Arrive, Goto, pool, MarkStep
<1>5. CASE UseExisting(t)
  BY <1>0, <1>5 DEF UseExisting, request, Goto, MarkStep
<1>6. CASE PrepareNew(t)
  BY <1>0, <1>6 DEF PrepareNew, request, Goto, MarkStep
<1>7. CASE ConnectOk(t)
  BY <1>0, <1>7 DEF ConnectOk, Connected, Goto, MarkStep
<1>8. CASE ConnectFails(t)
  BY <1>0, <1>8 DEF ConnectFails, NotConnected, Goto, MarkStep
<1>9. CASE Discard(t)
  BY <1>0, <1>9 DEF Discard, Goto, MarkStep
<1>10. CASE Unavailable(t)
  BY <1>0, <1>10 DEF Unavailable, FailOver, Finish, Goto, pool, MarkStep
<1>11. CASE ExecuteOk(t)
  BY <1>0, <1>11 DEF ExecuteOk, Answered, Goto, pool, MarkStep
<1>12. CASE SendFails(t)
  BY <1>0, <1>12 DEF SendFails, request, Goto, MarkStep
<1>13. CASE ReadBreaks(t)
  BY <1>0, <1>13 DEF ReadBreaks, Answered, Goto, MarkStep
<1>14. CASE NoAnswer(t)
  BY <1>0, <1>14 DEF NoAnswer, Answered, Goto, MarkStep
<1>15. CASE ResendFails(t)
  BY <1>0, <1>15 DEF ResendFails, request, Goto, pool, MarkStep
<1>16. CASE ReconnectOk(t)
  BY <1>0, <1>16 DEF ReconnectOk, Connected, Goto, MarkStep
<1>17. CASE ReconnectFails(t)
  BY <1>0, <1>17 DEF ReconnectFails, NotConnected, Goto, MarkStep
<1>18. CASE Blame(t)
  BY <1>0, <1>18 DEF Blame, request, Goto, pool, MarkStep
<1>19. CASE Sweep(t)
  BY <1>0, <1>19 DEF Sweep, request, Goto, pool, MarkStep
<1>20. CASE Drop(t)
  BY <1>0, <1>20 DEF Drop, ReleaseSlot, request, Goto, MarkStep
<1>21. CASE Dropped(t)
  BY <1>0, <1>21 DEF Dropped, UnallocateSlot, request, Goto, MarkStep
<1>22. CASE Decide(t)
  BY <1>0, <1>22 DEF Decide, FailOver, Goto, pool, MarkStep
<1>23. CASE Respond(t)
  BY <1>0, <1>23 DEF Respond, Goto, pool, MarkStep
<1>24. CASE ExitKeep(t)
  BY <1>0, <1>24 DEF ExitKeep, Finish, Goto, MarkStep
<1>25. CASE ExitClose(t)
  BY <1>0, <1>25 DEF ExitClose, ReleaseSlot, request, Goto, MarkStep
<1>26. CASE ExitClosed(t)
  BY <1>0, <1>26 DEF ExitClosed, UnallocateSlot, Finish, Goto, MarkStep
<1> QED BY <1>1, <1>2, <1>3, <1>4, <1>5, <1>6, <1>7, <1>8, <1>9, <1>10, <1>11, <1>12, <1>13,
           <1>14, <1>15, <1>16, <1>17, <1>18, <1>19, <1>20, <1>21, <1>22, <1>23, <1>24, <1>25, <1>26
        DEF Work, Obtain, Execute, Leave

\* The marks, whatever the threads do.
LEMMA MarkInvariant == Spec => []MarkInv
<1>1. Init => MarkInv
  BY DEF Init, MarkInv, NewSlot
<1>2. TypeInv /\ MarkInv /\ [Next]_vars => MarkInv'
  <2> SUFFICES ASSUME TypeInv, MarkInv, [Next]_vars PROVE MarkInv'
    OBVIOUS
  <2>1. CASE Environment \/ UNCHANGED vars
    <3>1. UNCHANGED <<pc, con, connectFailed>>
      BY <2>1 DEF Environment, HealthCheckDue, AdminOffline, AdminOnline, IdleTooLong,
                  StatusPage, request, vars
    <3>2. \A i \in Slots : slot'[i].alloc = slot[i].alloc /\ slot'[i].inuse = slot[i].inuse
      BY <2>1 DEF Environment, HealthCheckDue, AdminOffline, AdminOnline, IdleTooLong,
                  StatusPage, pool, vars, TypeInv, TypeOK, SlotRecord
    <3> QED BY <3>1, <3>2 DEF MarkInv, WillRelease, Using
  <2>2. ASSUME NEW t \in Threads, Arrive(t) \/ Work(t) PROVE MarkInv'
    BY <2>2, WorkMarks, MarkStepKeeps
  <2> QED BY <2>1, <2>2 DEF Next
<1> QED BY <1>1, <1>2, TypeInvariant, PTL DEF Spec

\* Whatever fails and whatever the other threads do, a record that is marked in use
\* is in the hands of a thread that will clear the mark.
THEOREM NoRecordLost == Spec => []NoLostSlot
<1>1. TypeInv /\ MarkInv => NoLostSlot
  <2>1. TypeInv => 1..nslots \subseteq Slots
    BY RequestDispatchAssumption DEF TypeInv, TypeOK, Slots
  <2>2. \A t \in Threads : WillRelease(t) => Holding(t)
    BY DEF WillRelease, Holding
  <2> QED BY <2>1, <2>2 DEF MarkInv, NoLostSlot
<1> QED BY <1>1, TypeInvariant, MarkInvariant, PTL

---------------------------------------------------------------------------
(* A connection serves one request.                                        *)

\* The faults after which a record is always given up in one step.
Harmless == {"stale", "idle", "memory", "admin"}

\* The stages such faults leave a request in, and those of them at which it
\* has a record.
Sound == {"idle", "obtain", "queued", "spinning", "reuse", "fresh", "connect", "execute",
          "reconnect", "resend", "respond", "exit"}
Owns(t) == pc[t] \in {"reuse", "fresh", "connect", "execute", "reconnect", "resend",
                     "respond", "exit"}

\* The record of a request belongs to its server and is marked in use.
OwnerInv(t) ==
    Owns(t) => /\ con[t] \in 1..nslots
               /\ slot[con[t]].psrv = IF pc[t] = "fresh" THEN NoServer ELSE server[t]
               /\ server[t] \notin Api => slot[con[t]].inuse
               /\ pc[t] = "resend" /\ server[t] \notin Api => slot[con[t]].connected

\* Two requests share a record only where it is an API binding.
SharedInv(t, u) ==
    t # u /\ Owns(t) /\ Owns(u) /\ con[t] = con[u] => slot[con[t]].psrv \in Api

\* No record is ever unallocated, so the pool is used up from its head.
PoolInv ==
    /\ \A t \in Threads : pc[t] \in Sound /\ spare[t] = NoSlot /\ ~closing[t]
    /\ \A i \in Slots : IF i <= nslots THEN slot[i].alloc ELSE slot[i].psrv = NoServer
    /\ \A t \in Threads : OwnerInv(t)
    /\ \A t, u \in Threads : SharedInv(t, u)

\* A step of thread t that keeps its record and its server, and changes at most
\* the fields aged and connected of the record.
FieldStep(t, stage) ==
    /\ Goto(t, stage) /\ UNCHANGED <<nslots, server, con, spare, closing>>
    /\ \A i \in Slots : /\ slot'[i].alloc = slot[i].alloc
                        /\ slot'[i].inuse = slot[i].inuse
                        /\ slot'[i].psrv = slot[i].psrv
                        /\ i # con[t] => slot'[i].connected = slot[i].connected

\* A connection that is made leaves the record allocated, in use and its server's.
LEMMA ConnectedStep ==
    ASSUME slot \in [Slots -> SlotRecord], NEW t \in Threads, con[t] \in Slots,
           slot[con[t]].alloc, NEW stage, Goto(t, stage), Connected(con[t]),
           UNCHANGED <<nslots, server, con, spare, closing>>
    PROVE  FieldStep(t, stage)
<1> DEFINE i == con[t]
<1>1. i \in Slots /\ Connected(i) /\ slot[i].alloc
  OBVIOUS
<1> HIDE DEF i
<1>2. /\ \A j \in Slots \ {i} : slot'[j] = slot[j]
      /\ slot'[i].alloc /\ slot'[i].inuse = slot[i].inuse /\ slot'[i].psrv = slot[i].psrv
  BY <1>1, ConnectedFields
<1>3. slot[i].alloc \in BOOLEAN /\ slot'[i].alloc \in BOOLEAN
  BY <1>1, ConnectedFields DEF SlotRecord
<1>4. ASSUME NEW j \in Slots
      PROVE  /\ slot'[j].alloc = slot[j].alloc /\ slot'[j].inuse = slot[j].inuse
             /\ slot'[j].psrv = slot[j].psrv
             /\ j # i => slot'[j].connected = slot[j].connected
  <2>1. CASE j = i
    BY <1>1, <1>2, <1>3, <2>1
  <2>2. CASE j # i
    BY <1>2, <2>2
  <2> QED BY <2>1, <2>2
<1> QED BY <1>4 DEF FieldStep, i

LEMMA NoApiServer == NoServer \notin Api
  BY RequestDispatchAssumption, ServerListAssumption DEF Srv, NoServer

LEMMA FieldStepSound ==
    ASSUME TypeInv, PoolInv, NEW t \in Threads, Owns(t), pc[t] # "fresh",
           NEW stage \in {"execute", "connect", "reconnect", "resend", "respond", "exit"},
           FieldStep(t, stage),
           stage = "resend" /\ server[t] \notin Api => slot'[con[t]].connected
    PROVE  PoolInv'
<1>0. pc \in [Threads -> Stages] /\ nslots \in 0..MaxSlots /\ MaxSlots \in Nat
  BY RequestDispatchAssumption DEF TypeInv, TypeOK
<1>1. \A u \in Threads : pc'[u] = IF u = t THEN stage ELSE pc[u]
  BY <1>0 DEF FieldStep, Goto
<1>2. \A u \in Threads : Owns(u)' <=> Owns(u)
  BY <1>1 DEF Owns
<1>3. \A u \in Threads : pc'[u] \in Sound /\ spare'[u] = NoSlot /\ ~closing'[u]
  BY <1>1 DEF PoolInv, FieldStep, Sound
<1>4. \A i \in Slots : IF i <= nslots' THEN slot'[i].alloc ELSE slot'[i].psrv = NoServer
  BY DEF PoolInv, FieldStep
<1>5. ASSUME NEW u \in Threads, Owns(u) PROVE con[u] \in Slots
  BY <1>0, <1>5 DEF PoolInv, OwnerInv, Slots
<1>6. ASSUME NEW u \in Threads PROVE OwnerInv(u)'
  <2>0. SUFFICES ASSUME Owns(u) PROVE OwnerInv(u)'
    BY <1>2 DEF OwnerInv
  <2>1. OwnerInv(u) /\ con[u] \in Slots
    BY <1>5, <2>0 DEF PoolInv
  <2>2. CASE u = t
    BY <1>1, <2>0, <2>1, <2>2 DEF OwnerInv, FieldStep
  <2>3. CASE u # t /\ con[u] # con[t]
    BY <1>1, <2>0, <2>1, <2>3 DEF OwnerInv, FieldStep
  <2>4. CASE u # t /\ con[u] = con[t]
    <3>1. slot[con[u]].psrv \in Api
      BY <2>0, <2>4 DEF PoolInv, SharedInv
    <3>2. slot[con[u]].psrv = server[u]
      BY <2>0, <2>1, <3>1, NoApiServer DEF OwnerInv
    <3> QED BY <1>1, <2>0, <2>1, <2>4, <3>1, <3>2 DEF OwnerInv, FieldStep
  <2> QED BY <2>2, <2>3, <2>4
<1>7. ASSUME NEW u \in Threads, NEW v \in Threads PROVE SharedInv(u, v)'
  BY <1>2, <1>5 DEF SharedInv, PoolInv, FieldStep
<1> QED BY <1>3, <1>4, <1>6, <1>7 DEF PoolInv

\* A request that is not served takes nothing with it and leaves nothing.
LEMMA IdleSound ==
    ASSUME TypeInv, PoolInv, NEW t \in Threads, UNCHANGED pool,
           ~Owns(t), ~Owns(t)', pc'[t] \in Sound, spare'[t] = NoSlot, ~closing'[t],
           \A u \in Threads \ {t} : /\ pc'[u] = pc[u] /\ server'[u] = server[u]
                                   /\ con'[u] = con[u] /\ spare'[u] = spare[u]
                                   /\ closing'[u] = closing[u]
    PROVE  PoolInv'
<1>1. nslots' = nslots /\ slot' = slot
  BY DEF pool
<1>2. \A u \in Threads : OwnerInv(u)'
  BY <1>1 DEF PoolInv, OwnerInv, Owns
<1>3. \A u, v \in Threads : SharedInv(u, v)'
  BY <1>1 DEF PoolInv, SharedInv, Owns
<1> QED BY <1>1, <1>2, <1>3 DEF PoolInv

\* The scan of the pool gives out a record that nobody has, or a binding.
LEMMA ScanSound ==
    ASSUME TypeInv, PoolInv, NEW t \in Threads, pc[t] \in {"obtain", "queued"},
           NEW s \in Srv, NEW w \in Nat, ScanPool(t, s, w)
    PROVE  PoolInv'
<1>0. /\ pc \in [Threads -> Stages] /\ server \in [Threads -> 0..(SrvMax + 1)]
      /\ con \in [Threads -> Slots \cup {NoSlot}] /\ spare \in [Threads -> Slots \cup {NoSlot}]
      /\ closing \in [Threads -> BOOLEAN] /\ slot \in [Slots -> SlotRecord]
      /\ nslots \in 0..MaxSlots /\ MaxSlots \in Nat
  BY RequestDispatchAssumption DEF TypeInv, TypeOK
<1>1. SpareAfter(t, s) = NoSlot
  <2>1. {i \in 1..nslots : i < ScanStop(s) /\ ~slot[i].alloc} = {}
    BY <1>0 DEF PoolInv, Slots
  <2>2. spare[t] = NoSlot
    BY DEF PoolInv
  <2> QED BY <2>1, <2>2 DEF SpareAfter
<1>2. ~Owns(t)
  BY DEF Owns
<1>3. CASE WaitTurn(t, s, w) \/ Refuse(t, s, w)
  <2>1. UNCHANGED pool
    BY <1>3 DEF WaitTurn, Refuse
  <2>2. /\ \A u \in Threads \ {t} : /\ pc'[u] = pc[u] /\ server'[u] = server[u]
                                    /\ con'[u] = con[u] /\ spare'[u] = spare[u]
                                    /\ closing'[u] = closing[u]
        /\ pc'[t] \in {"queued", "idle"} /\ spare'[t] = NoSlot /\ ~closing'[t]
    BY <1>0, <1>1, <1>3 DEF WaitTurn, Refuse, Finish, Goto, PoolInv
  <2> QED BY <1>2, <2>1, <2>2, IdleSound DEF Sound, Owns
<1>4. ASSUME NEW i \in Slots, NEW stage \in {"reuse", "fresh"}, Claimed(t, i, stage),
             server' = [server EXCEPT ![t] = s],
             nslots' \in nslots..MaxSlots, i \in 1..nslots',
             nslots' \in {nslots, i}, nslots' <= nslots + 1,
             slot'[i].alloc, slot'[i].inuse,
             slot'[i].psrv = IF stage = "fresh" THEN NoServer ELSE s,
             \A j \in Slots \ {i} : slot'[j] = slot[j],
             \A u \in Threads : Owns(u) /\ con[u] = i =>
                 s \in Api /\ stage = "reuse" /\ pc[u] # "fresh" /\ slot'[i] = [slot[i] EXCEPT !.inuse = TRUE]
      PROVE  PoolInv'
  <2>1. /\ \A u \in Threads \ {t} : /\ pc'[u] = pc[u] /\ server'[u] = server[u]
                                    /\ con'[u] = con[u] /\ spare'[u] = spare[u]
        /\ pc'[t] = stage /\ server'[t] = s /\ con'[t] = i /\ spare'[t] = NoSlot
        /\ closing' = closing
    BY <1>0, <1>4 DEF Claimed, Goto
  <2>2. \A u \in Threads \ {t} : Owns(u)' <=> Owns(u)
    BY <2>1 DEF Owns
  <2>3. \A u \in Threads : Owns(u) => con[u] \in 1..nslots /\ con[u] \in Slots
    BY <1>0 DEF PoolInv, OwnerInv, Slots
  <2>4. \A j \in Slots : IF j <= nslots' THEN slot'[j].alloc ELSE slot'[j].psrv = NoServer
    BY <1>0, <1>4 DEF PoolInv, Slots
  <2>5. \A u \in Threads : pc'[u] \in Sound /\ spare'[u] = NoSlot /\ ~closing'[u]
    BY <2>1 DEF PoolInv, Sound
  <2>6. ASSUME NEW u \in Threads PROVE OwnerInv(u)'
    <3>0. SUFFICES ASSUME Owns(u)' PROVE OwnerInv(u)'
      BY DEF OwnerInv
    <3>1. CASE u = t
      BY <1>4, <2>1, <3>1 DEF OwnerInv
    <3>2. CASE u # t /\ con[u] # i
      BY <1>0, <1>4, <2>1, <2>2, <2>3, <3>0, <3>2 DEF PoolInv, OwnerInv
    <3>3. CASE u # t /\ con[u] = i
      <4>1. s \in Api /\ stage = "reuse" /\ pc[u] # "fresh" /\ slot'[i].psrv = s
        BY <1>4, <2>2, <3>0, <3>3
      <4>2. slot[i].psrv = server[u] /\ slot'[i] = [slot[i] EXCEPT !.inuse = TRUE]
        BY <1>4, <2>2, <3>0, <3>3, <4>1 DEF PoolInv, OwnerInv
      <4>3. slot'[i].psrv = slot[i].psrv
        BY <1>0, <4>2 DEF SlotRecord
      <4>4. server'[u] = s /\ pc'[u] # "fresh" /\ con'[u] = i /\ i \in 1..nslots'
        BY <1>4, <2>1, <3>3, <4>1, <4>2, <4>3
      <4> QED BY <4>1, <4>4 DEF OwnerInv
    <3> QED BY <3>1, <3>2, <3>3
  <2>7. ASSUME NEW u \in Threads, NEW v \in Threads PROVE SharedInv(u, v)'
    <3>0. SUFFICES ASSUME u # v, Owns(u)', Owns(v)', con'[u] = con'[v]
                   PROVE  slot'[con'[u]].psrv \in Api
      BY DEF SharedInv
    <3>1. CASE con'[u] = i
      <4>1. \E x \in {u, v} : x # t /\ Owns(x) /\ con[x] = i
        BY <2>1, <2>2, <3>0, <3>1
      <4> QED BY <1>4, <3>1, <4>1
    <3>2. CASE con'[u] # i
      BY <1>4, <2>1, <2>2, <2>3, <3>0, <3>2 DEF PoolInv, SharedInv
    <3> QED BY <3>1, <3>2
  <2> QED BY <2>4, <2>5, <2>6, <2>7 DEF PoolInv
<1>5. CASE TakeExisting(t, s)
  <2>1. PICK i \in Takes(s) : /\ slot' = [slot EXCEPT ![i].inuse = TRUE]
                              /\ server' = [server EXCEPT ![t] = s]
                              /\ Claimed(t, i, "reuse")
                              /\ nslots' = nslots
    BY <1>5 DEF TakeExisting
  <2>2. /\ i \in 1..nslots /\ i \in Slots /\ slot[i].alloc /\ slot[i].psrv = s
        /\ s \in Api \/ ~slot[i].inuse
    BY <1>0 DEF Takes, Allocated, Slots
  <2>3. /\ slot'[i] = [slot[i] EXCEPT !.inuse = TRUE]
        /\ slot'[i].alloc /\ slot'[i].inuse /\ slot'[i].psrv = s
        /\ \A j \in Slots \ {i} : slot'[j] = slot[j]
    BY <1>0, <2>1, <2>2 DEF SlotRecord
  <2>4. ASSUME NEW u \in Threads, Owns(u), con[u] = i PROVE s \in Api /\ pc[u] # "fresh"
    BY <2>2, <2>4, ServerListAssumption DEF PoolInv, OwnerInv, Srv, NoServer
  <2>5. nslots' \in nslots..MaxSlots /\ i \in 1..nslots' /\ nslots' \in {nslots, i}
        /\ nslots' <= nslots + 1
    BY <1>0, <2>1, <2>2
  <2> HIDE DEF SpareAfter
  <2> QED BY <1>4, <2>1, <2>2, <2>3, <2>4, <2>5
<1>6. CASE TakeUnused(t, s)
  <2> DEFINE i == nslots + 1
  <2>1. /\ i \in Slots
        /\ slot' = [slot EXCEPT ![i].alloc = TRUE, ![i].inuse = TRUE,
                                ![i].connected = FALSE]
        /\ nslots' = i
        /\ server' = [server EXCEPT ![t] = s]
        /\ Claimed(t, i, "fresh")
    BY <1>1, <1>6 DEF TakeUnused
  <2>2. /\ i > nslots /\ nslots' \in nslots..MaxSlots /\ i \in 1..nslots'
        /\ nslots' \in {nslots, i} /\ nslots' <= nslots + 1
    BY <1>0, <2>1 DEF Slots
  <2>3. \A u \in Threads : ~(Owns(u) /\ con[u] = i)
    BY <1>0 DEF PoolInv, OwnerInv
  <2>4. slot[i].psrv = NoServer
    BY <1>0, <2>1, <2>2 DEF PoolInv, Slots
  <2> HIDE DEF i
  <2>5. /\ slot'[i].alloc /\ slot'[i].inuse /\ slot'[i].psrv = NoServer
        /\ \A j \in Slots \ {i} : slot'[j] = slot[j]
    BY <1>0, <2>1, <2>4 DEF SlotRecord
  <2>6. slot'[i].psrv = IF "fresh" = "fresh" THEN NoServer ELSE s
    BY <2>5
  <2>7. "fresh" \in {"reuse", "fresh"}
    OBVIOUS
  <2> QED BY <1>4, <2>1, <2>2, <2>3, <2>5, <2>6, <2>7
<1> QED BY <1>3, <1>5, <1>6 DEF ScanPool

\* A new record is given its server before anything is sent over it, and an
\* idle one is closed while nobody else can have it.
LEMMA PrepareSound ==
    ASSUME TypeInv, PoolInv, NEW t \in Threads, PrepareNew(t)
    PROVE  PoolInv'
<1>0. /\ pc \in [Threads -> Stages] /\ slot \in [Slots -> SlotRecord]
      /\ nslots \in 0..MaxSlots /\ MaxSlots \in Nat
      /\ Owns(t) /\ con[t] \in Slots /\ con[t] \in 1..nslots
  BY RequestDispatchAssumption
     DEF PrepareNew, Owns, PoolInv, OwnerInv, TypeInv, TypeOK, HasRecord, Stages
<1>1. UNCHANGED <<nslots, server, con, spare, closing>> /\ Goto(t, "connect")
  BY DEF PrepareNew, request
<1>2. /\ slot'[con[t]].alloc = slot[con[t]].alloc
      /\ slot'[con[t]].inuse = slot[con[t]].inuse
      /\ slot'[con[t]].psrv = server[t]
      /\ \A i \in Slots \ {con[t]} : slot'[i] = slot[i]
  BY <1>0 DEF PrepareNew, SlotRecord
<1>3. slot[con[t]].psrv \notin Api
  BY <1>0, NoApiServer DEF PrepareNew, Expired, PoolInv, OwnerInv
<1>4. \A u \in Threads \ {t} : Owns(u) => con[u] # con[t] /\ con[u] \in Slots
  BY <1>0, <1>3 DEF PoolInv, SharedInv, OwnerInv, Slots
<1>5. /\ \A u \in Threads \ {t} : pc'[u] = pc[u] /\ (Owns(u)' <=> Owns(u))
      /\ pc'[t] = "connect"
  BY <1>0, <1>1 DEF Goto, Owns
<1>6. \A u \in Threads : pc'[u] \in Sound /\ spare'[u] = NoSlot /\ ~closing'[u]
  BY <1>1, <1>5 DEF PoolInv, Sound
<1>7. \A i \in Slots : IF i <= nslots' THEN slot'[i].alloc ELSE slot'[i].psrv = NoServer
  BY <1>0, <1>1, <1>2 DEF PoolInv
<1>8. ASSUME NEW u \in Threads PROVE OwnerInv(u)'
  <2>1. CASE u = t
    BY <1>0, <1>1, <1>2, <1>5, <2>1 DEF PoolInv, OwnerInv
  <2>2. CASE u # t
    BY <1>1, <1>2, <1>4, <1>5, <2>2 DEF PoolInv, OwnerInv
  <2> QED BY <2>1, <2>2
<1>9. ASSUME NEW u \in Threads, NEW v \in Threads PROVE SharedInv(u, v)'
  <2>1. CASE u = t \/ v = t
    BY <1>1, <1>4, <1>5, <2>1 DEF SharedInv
  <2>2. CASE u # t /\ v # t
    BY <1>1, <1>2, <1>4, <1>5, <2>2 DEF PoolInv, SharedInv
  <2> QED BY <2>1, <2>2
<1> QED BY <1>6, <1>7, <1>8, <1>9 DEF PoolInv

\* A request that ends gives its record back, if nobody shares it, and a
\* binding is never searched for by its mark.
LEMMA ExitSound ==
    ASSUME TypeInv, PoolInv, NEW t \in Threads, ExitKeep(t)
    PROVE  PoolInv'
<1>0. /\ pc \in [Threads -> Stages] /\ slot \in [Slots -> SlotRecord]
      /\ server \in [Threads -> 0..(SrvMax + 1)] /\ closing \in [Threads -> BOOLEAN]
      /\ con \in [Threads -> Slots \cup {NoSlot}] /\ spare \in [Threads -> Slots \cup {NoSlot}]
      /\ nslots \in 0..MaxSlots /\ MaxSlots \in Nat
      /\ Owns(t) /\ con[t] \in Slots
  BY RequestDispatchAssumption
     DEF ExitKeep, Owns, TypeInv, TypeOK, HasRecord, Stages
<1>1. /\ \A u \in Threads \ {t} : /\ pc'[u] = pc[u] /\ (Owns(u)' <=> Owns(u))
                                  /\ server'[u] = server[u] /\ con'[u] = con[u]
                                  /\ spare'[u] = spare[u] /\ closing'[u] = closing[u]
      /\ pc'[t] = "idle" /\ ~Owns(t)' /\ spare'[t] = NoSlot /\ ~closing'[t]
  BY <1>0 DEF ExitKeep, Finish, Goto, Owns
<1>a. nslots' = nslots
  BY DEF ExitKeep
<1>2. \A i \in Slots : /\ slot'[i].alloc = slot[i].alloc
                      /\ slot'[i].psrv = slot[i].psrv
                      /\ slot'[i].connected = slot[i].connected
  BY <1>0 DEF ExitKeep, SlotRecord
<1>b. \A i \in Slots \ {con[t]} : slot'[i] = slot[i]
  BY <1>0 DEF ExitKeep
<1>3. \A u \in Threads : Owns(u) => con[u] \in Slots
  BY <1>0 DEF PoolInv, OwnerInv, Slots
<1>4. \A u \in Threads : pc'[u] \in Sound /\ spare'[u] = NoSlot /\ ~closing'[u]
  BY <1>1 DEF PoolInv, Sound
<1>5. \A i \in Slots : IF i <= nslots' THEN slot'[i].alloc ELSE slot'[i].psrv = NoServer
  BY <1>a, <1>2 DEF PoolInv
<1>6. ASSUME NEW u \in Threads PROVE OwnerInv(u)'
  <2>0. SUFFICES ASSUME u # t, Owns(u) PROVE OwnerInv(u)'
    BY <1>1 DEF OwnerInv
  <2>1. CASE con[u] # con[t]
    BY <1>1, <1>a, <1>b, <1>3, <2>0, <2>1 DEF PoolInv, OwnerInv
  <2>2. CASE con[u] = con[t]
    <3>1. slot[con[u]].psrv \in Api
      BY <1>0, <2>0, <2>2 DEF PoolInv, SharedInv
    <3>2. slot[con[u]].psrv = server[u] /\ pc[u] # "fresh" /\ con[u] \in 1..nslots
      BY <2>0, <3>1, <1>0, NoApiServer DEF PoolInv, OwnerInv
    <3> QED BY <1>1, <1>a, <1>2, <1>3, <2>0, <3>1, <3>2 DEF OwnerInv
  <2> QED BY <2>1, <2>2
<1>7. ASSUME NEW u \in Threads, NEW v \in Threads PROVE SharedInv(u, v)'
  BY <1>1, <1>a, <1>2, <1>3 DEF PoolInv, SharedInv
<1> QED BY <1>4, <1>5, <1>6, <1>7 DEF PoolInv

LEMMA WorkSound ==
    ASSUME Faults \subseteq Harmless, TypeInv, PoolInv,
           NEW t \in Threads, Arrive(t) \/ Work(t)
    PROVE  PoolInv'
<1>0. /\ pc \in [Threads -> Stages] /\ slot \in [Slots -> SlotRecord]
      /\ server \in [Threads -> 0..(SrvMax + 1)] /\ closing \in [Threads -> BOOLEAN]
      /\ con \in [Threads -> Slots \cup {NoSlot}] /\ spare \in [Threads -> Slots \cup {NoSlot}]
      /\ pc[t] \in Sound /\ spare[t] = NoSlot /\ ~closing[t] /\ cursor \in Srv
      /\ pc[t] \in HasServer \/ pc[t] = "respond" => con[t] \in Slots
  BY DEF TypeInv, TypeOK, PoolInv, HasRecord, HasServer, Stages
<1>1. CASE Arrive(t) \/ ObtainNone(t) \/ ObtainSpins(t)
  <2>1. /\ UNCHANGED pool /\ pc[t] \in {"idle", "obtain"}
        /\ \A u \in Threads \ {t} : /\ pc'[u] = pc[u] /\ server'[u] = server[u]
                                    /\ con'[u] = con[u] /\ spare'[u] = spare[u]
                                    /\ closing'[u] = closing[u]
        /\ pc'[t] \in {"obtain", "idle", "spinning"} /\ spare'[t] = NoSlot /\ ~closing'[t]
    BY <1>0, <1>1 DEF Arrive, ObtainNone, ObtainSpins, Finish, Goto, request
  <2> QED BY <2>1, IdleSound DEF Owns, Sound
<1>2. CASE ObtainPreferred(t) \/ ObtainFound(t) \/ Requeue(t)
  <2>1. pc[t] \in {"obtain", "queued"}
    BY <1>2 DEF ObtainPreferred, ObtainFound, Requeue
  <2>2. \E s \in Srv, w \in Nat : ScanPool(t, s, w)
    <3>1. CASE ObtainPreferred(t)
      BY <3>1 DEF ObtainPreferred, Preferable
    <3>2. CASE ObtainFound(t)
      BY <1>0, <3>2, OutcomeType DEF ObtainFound, Outcome
    <3>3. CASE Requeue(t)
      BY <3>3, RequestDispatchAssumption DEF Requeue, TypeInv, TypeOK
    <3> QED BY <1>2, <3>1, <3>2, <3>3
  <2> QED BY <2>1, <2>2, ScanSound
<1>3. CASE PrepareNew(t)
  BY <1>3, PrepareSound
<1>4. CASE ExitKeep(t)
  BY <1>4, ExitSound
<1>5. CASE UseExisting(t)
  <2>1. FieldStep(t, "execute")
    BY <1>0, <1>5 DEF UseExisting, FieldStep, SlotRecord, request
  <2> QED BY <1>5, <2>1, FieldStepSound DEF UseExisting, Owns
<1>6. CASE ConnectOk(t)
  <2>1. con[t] \in Slots /\ slot[con[t]].alloc
    BY <1>0, <1>6 DEF ConnectOk, HasServer, PoolInv, OwnerInv, Owns, TypeInv, TypeOK, Slots
  <2>2. FieldStep(t, "execute")
    BY <1>0, <1>6, <2>1, ConnectedStep DEF ConnectOk
  <2> QED BY <1>6, <2>2, FieldStepSound DEF ConnectOk, Owns
<1>7. CASE ReconnectOk(t)
  <2>1. con[t] \in Slots /\ slot[con[t]].alloc /\ slot[con[t]].psrv = server[t]
    BY <1>0, <1>7 DEF ReconnectOk, HasServer, PoolInv, OwnerInv, Owns, TypeInv, TypeOK, Slots
  <2>2. FieldStep(t, "resend")
    BY <1>0, <1>7, <2>1, ConnectedStep DEF ReconnectOk, servers
  <2>3. server[t] \notin Api => slot'[con[t]].connected
    BY <1>0, <1>7, <2>1, ConnectedFields DEF ReconnectOk, NetworkSlot
  <2> QED BY <1>7, <2>2, <2>3, FieldStepSound DEF ReconnectOk, Owns
<1>8. CASE SendFails(t)
  <2>1. FieldStep(t, "reconnect")
    BY <1>0, <1>8 DEF SendFails, FieldStep, SlotRecord, request
  <2> QED BY <1>8, <2>1, FieldStepSound DEF SendFails, Owns
<1>9. CASE ExecuteOk(t)
  <2>1. FieldStep(t, "respond")
    BY <1>9 DEF ExecuteOk, Answered, pool, FieldStep
  <2> QED BY <1>9, <2>1, FieldStepSound DEF ExecuteOk, Owns
<1>10. CASE Respond(t)
  <2>1. pc[t] = "respond" /\ closing' = closing
    BY <1>0, <1>10 DEF Respond, Harmless, Sound
  <2>2. FieldStep(t, "exit")
    BY <1>10, <2>1 DEF Respond, pool, FieldStep
  <2> QED BY <2>1, <2>2, FieldStepSound DEF Owns
<1>11. ~ResendFails(t)
  <2>1. pc[t] = "resend" => slot[con[t]].psrv = server[t] /\ CanSend(t)
    BY <1>0 DEF CanSend, NetworkSlot, PoolInv, OwnerInv, Owns
  <2> QED BY <2>1 DEF ResendFails, Harmless
<1>12. /\ ~ConnectFails(t) /\ ~ReconnectFails(t) /\ ~ReadBreaks(t) /\ ~NoAnswer(t)
       /\ ~Discard(t) /\ ~Unavailable(t) /\ ~Blame(t) /\ ~Sweep(t) /\ ~Drop(t)
       /\ ~Dropped(t) /\ ~Decide(t) /\ ~ExitClose(t) /\ ~ExitClosed(t)
  BY <1>0 DEF ConnectFails, ReconnectFails, ReadBreaks, NoAnswer, Discard, Unavailable, Blame,
              Sweep, Drop, Dropped, Decide, ExitClose, ExitClosed, Harmless, Sound
<1> QED BY <1>1, <1>2, <1>3, <1>4, <1>5, <1>6, <1>7, <1>8, <1>9, <1>10, <1>11, <1>12
        DEF Work, Obtain, Execute, Leave

LEMMA PoolInvariant ==
    ASSUME Faults \subseteq Harmless PROVE Spec => []PoolInv
<1>1. Init => PoolInv
  BY NoApiServer DEF Init, PoolInv, OwnerInv, SharedInv, Owns, Sound, NewSlot, Slots
<1>2. TypeInv /\ PoolInv /\ [Next]_vars => PoolInv'
  <2> SUFFICES ASSUME TypeInv, PoolInv, [Next]_vars PROVE PoolInv'
    OBVIOUS
  <2>1. CASE Environment
    <3>1. UNCHANGED <<nslots, pc, request>>
      BY <2>1 DEF Environment, HealthCheckDue, AdminOffline, AdminOnline, IdleTooLong,
                  StatusPage, pool
    <3>2. \A i \in Slots : /\ slot'[i].alloc = slot[i].alloc
                         /\ slot'[i].inuse = slot[i].inuse
                         /\ slot'[i].psrv = slot[i].psrv
                         /\ slot'[i].connected = slot[i].connected
      <4>1. slot \in [Slots -> SlotRecord]
        BY DEF TypeInv, TypeOK
      <4>2. ASSUME NEW k \in Slots, slot' = [slot EXCEPT ![k].aged = TRUE], NEW i \in Slots
            PROVE  /\ slot'[i].alloc = slot[i].alloc /\ slot'[i].inuse = slot[i].inuse
                   /\ slot'[i].psrv = slot[i].psrv /\ slot'[i].connected = slot[i].connected
        BY <4>1, <4>2 DEF SlotRecord
      <4>3. slot' = slot \/ \E k \in Slots : slot' = [slot EXCEPT ![k].aged = TRUE]
        BY <2>1 DEF Environment, HealthCheckDue, AdminOffline, AdminOnline, IdleTooLong,
                    StatusPage, pool
      <4> QED BY <4>2, <4>3
    <3>3. \A u \in Threads : Owns(u) => con[u] \in Slots
      BY DEF Owns, TypeInv, HasRecord, Stages
    <3>4. \A u \in Threads : OwnerInv(u)'
      BY <3>1, <3>2, <3>3 DEF PoolInv, OwnerInv, Owns, request
    <3>5. \A u, v \in Threads : SharedInv(u, v)'
      BY <3>1, <3>2, <3>3 DEF PoolInv, SharedInv, Owns, request
    <3> QED BY <3>1, <3>2, <3>4, <3>5 DEF PoolInv, request
  <2>2. ASSUME NEW t \in Threads, Arrive(t) \/ Work(t) PROVE PoolInv'
    BY <2>2, WorkSound
  <2>3. CASE UNCHANGED vars
    BY <2>3 DEF vars, PoolInv, OwnerInv, SharedInv, Owns
  <2> QED BY <2>1, <2>2, <2>3 DEF Next
<1> QED BY <1>1, <1>2, TypeInvariant, PTL DEF Spec

\* While no connection attempt, answer or client fails, no two requests are
\* ever given the same network connection, for any number of threads, servers
\* and records.
THEOREM ExclusiveWhenHarmless ==
    ASSUME Faults \subseteq Harmless PROVE Spec => []ExclusiveUse
<1>1. PoolInv => ExclusiveUse
  BY DEF PoolInv, SharedInv, ExclusiveUse, Using, Owns
<1> QED BY <1>1, PoolInvariant, PTL

\* ... and each request talks to the server that was chosen for it.
THEOREM RoutedWhenHarmless ==
    ASSUME Faults \subseteq Harmless PROVE Spec => []RoutedToChosen
<1>1. PoolInv => RoutedToChosen
  BY DEF PoolInv, OwnerInv, RoutedToChosen, Owns
<1> QED BY <1>1, PoolInvariant, PTL

---------------------------------------------------------------------------
(* The search gives the lock back.                                         *)

\* Where the path balances the load or reserves no server, no thread is ever
\* stuck in mg_obtain_server with mg_global_mutex.
THEOREM LockAlwaysFree ==
    ASSUME LoadBalancing \/ Exclusive = {} PROVE Spec => []LockFree
<1>1. Init => LockFree
  BY DEF Init, LockFree
<1>2. TypeInv /\ LockFree /\ [Next]_vars => LockFree'
  <2> SUFFICES ASSUME TypeInv, LockFree, [Next]_vars PROVE LockFree'
    OBVIOUS
  <2>0. pc \in [Threads -> Stages]
    BY DEF TypeInv, TypeOK
  <2>1. CASE Environment \/ UNCHANGED vars
    BY <2>1 DEF Environment, HealthCheckDue, AdminOffline, AdminOnline, IdleTooLong,
                StatusPage, vars, LockFree
  <2>2. ASSUME NEW t \in Threads, Arrive(t) \/ Work(t) PROVE LockFree'
    <3>1. \E stage \in Stages \ {"spinning"} : Goto(t, stage)
      <4>1. ~ObtainSpins(t)
        BY NoSpin DEF ObtainSpins, Outcome, TypeInv, TypeOK
      <4>2. ASSUME NEW s, NEW w, ScanPool(t, s, w)
            PROVE  \E stage \in Stages \ {"spinning"} : Goto(t, stage)
        <5>1. CASE TakeExisting(t, s)
          BY <5>1, Zenon DEF TakeExisting, Claimed, Stages
        <5>2. CASE TakeUnused(t, s)
          BY <5>2, Zenon DEF TakeUnused, Claimed, Stages
        <5>3. CASE WaitTurn(t, s, w) \/ Refuse(t, s, w)
          BY <5>3 DEF WaitTurn, Refuse, Finish, Stages
        <5> QED BY <4>2, <5>1, <5>2, <5>3 DEF ScanPool
      <4>3. CASE ObtainPreferred(t) \/ ObtainFound(t) \/ Requeue(t)
        BY <4>2, <4>3 DEF ObtainPreferred, ObtainFound, Requeue
      <4>4. CASE \/ Arrive(t) \/ ObtainNone(t) \/ UseExisting(t) \/ PrepareNew(t)
                 \/ ConnectOk(t) \/ ConnectFails(t) \/ Discard(t) \/ Unavailable(t)
        BY <4>4 DEF Arrive, ObtainNone, UseExisting, PrepareNew, ConnectOk, ConnectFails,
                    Discard, Unavailable, FailOver, Finish, Stages
      <4>5. CASE Execute(t)
        BY <4>5 DEF Execute, ExecuteOk, SendFails, ReadBreaks, NoAnswer, ResendFails,
                    ReconnectOk, ReconnectFails, Blame, Sweep, Drop, Dropped, Decide,
                    FailOver, Stages
      <4>6. CASE Leave(t)
        BY <4>6 DEF Leave, Respond, ExitKeep, ExitClose, ExitClosed, Finish, Stages
      <4> QED BY <2>2, <4>1, <4>3, <4>4, <4>5, <4>6 DEF Work, Obtain
    <3> QED BY <2>0, <3>1 DEF Goto, LockFree
  <2> QED BY <2>1, <2>2 DEF Next
<1> QED BY <1>1, <1>2, TypeInvariant, PTL DEF Spec

---------------------------------------------------------------------------
(* With one thread, a server is under retry only while the request that retries *)
(* it is on its way.                                                         *)

\* The instances: one thread, a pool that can hold a record of each server, and, where
\* a server that fails cannot be marked offline, nobody else who does it.
Alone(t) ==
    /\ Threads = {t}
    /\ MaxSlots >= SrvMax /\ "memory" \notin Faults
    /\ Alternatives > 0 \/ "admin" \notin Faults

\* The stages of a request that has been given a server, up to the outcome of the
\* connect; and those at which its record is allocated.
Trying == {"reuse", "fresh", "connect", "discard", "unavailable"}
Allocating == {"reuse", "fresh", "connect", "execute", "reconnect"}

\* The record is allocated, and its server is the one it is used for.
Settled(t, i) == slot[i].alloc /\ ~(pc[t] = "fresh" /\ con[t] = i)

\* Each server has one record at the most, so that the pool does not run out.
OneEach(t) ==
    /\ spare[t] = NoSlot /\ pc[t] # "queued"
    /\ pc[t] \in Allocating => con[t] \in 1..nslots /\ slot[con[t]].alloc
    /\ \A i \in 1..nslots : Settled(t, i) =>
           slot[i].psrv \in Srv /\ (pc[t] = "fresh" => slot[i].psrv # server[t])
    /\ \A i, j \in 1..nslots :
           i # j /\ Settled(t, i) /\ Settled(t, j) => slot[i].psrv # slot[j].psrv

RetryInv(t) ==
    /\ \A s \in Srv : offline[s] = Retrying => server[t] = s /\ pc[t] \in Trying
    /\ pc[t] \in {"reuse", "connect"} => slot[con[t]].psrv = server[t]
    /\ pc[t] \in {"discard", "unavailable"} => connectFailed[t]
    /\ Alternatives > 0 \/ \A s \in Srv : offline[s] = Online


\* The scan stops at the first record that it can take or that fills the quota.
LEMMA ScanStopFirst ==
    ASSUME nslots \in Nat, NEW s
    PROVE  /\ ScanStop(s) \in Takes(s) \cup Fills(s) \cup {nslots + 1}
           /\ \A i \in Takes(s) \cup Fills(s) : ScanStop(s) <= i
<1> DEFINE S == Takes(s) \cup Fills(s) \cup {nslots + 1}
<1>1. S \subseteq Nat /\ S # {}
  BY DEF Takes, Fills, Allocated
<1>2. ScanStop(s) = Min(S)
  BY DEF ScanStop
<1>3. \A i \in Takes(s) \cup Fills(s) : i \in S
  OBVIOUS
<1>4. Takes(s) \cup Fills(s) \cup {nslots + 1} = S
  OBVIOUS
<1> HIDE DEF S
<1>5. Min(S) \in S /\ \A i \in S : Min(S) <= i
  BY <1>1, LeastElement DEF Min
<1> QED BY <1>2, <1>3, <1>4, <1>5

\* A pool with one record for each server but one has room for another.
LEMMA OneEachFits ==
    ASSUME NEW n \in Nat, NEW s \in Srv, NEW f, \A i \in 1..n : f[i] \in Srv \ {s},
           \A i, j \in 1..n : i # j => f[i] # f[j]
    PROVE  n < SrvMax
<1> DEFINE g == [i \in 1..n |-> f[i]]
           T == Srv \ {s}
<1>1. IsFiniteSet(Srv) /\ Cardinality(Srv) = SrvMax
  <2>1. SrvMax \in Nat /\ SrvMax # 0
    BY ServerListAssumption
  <2> QED BY <2>1, FS_Interval DEF Srv
<1>2. IsFiniteSet(T) /\ Cardinality(T) = SrvMax - 1
  BY <1>1, FS_RemoveElement
<1>3. g \in [1..n -> T] /\ \A i, j \in 1..n : i # j => g[i] # g[j]
  OBVIOUS
<1> HIDE DEF g, T
<1>4. IsFiniteSet(1..n) /\ Cardinality(1..n) = n
  <2>1. 1 \in Int /\ n \in Int /\ n = IF 1 > n THEN 0 ELSE n - 1 + 1
    OBVIOUS
  <2> QED BY <2>1, FS_Interval
<1>5. ~(Cardinality(T) < n)
  BY <1>2, <1>3, <1>4, FS_PigeonHole
<1> QED BY <1>2, <1>5, ServerListAssumption


\* A step that gives no record to a server keeps OneEach.
Shrinks(t) ==
    /\ nslots' = nslots /\ spare'[t] = NoSlot
    /\ pc[t] # "fresh" /\ pc'[t] \notin {"queued", "fresh"}
    /\ pc'[t] \in Allocating => con'[t] \in 1..nslots /\ slot'[con'[t]].alloc
    /\ \A i \in 1..nslots :
           slot'[i].alloc => slot[i].alloc /\ slot'[i].psrv = slot[i].psrv

LEMMA OneEachShrinks ==
    ASSUME NEW t, OneEach(t), Shrinks(t)
    PROVE  OneEach(t)'
<1>1. \A i \in 1..nslots : /\ Settled(t, i)' <=> slot'[i].alloc
                           /\ Settled(t, i) <=> slot[i].alloc
  BY DEF Shrinks, Settled
<1>2. \A i \in 1..nslots : Settled(t, i)' => slot[i].alloc /\ slot'[i].psrv = slot[i].psrv
  BY <1>1 DEF Shrinks
<1>3. \A i \in 1..nslots : Settled(t, i)' => slot'[i].psrv \in Srv
  BY <1>1, <1>2 DEF OneEach
<1>4. \A i, j \in 1..nslots :
          i # j /\ Settled(t, i)' /\ Settled(t, j)' => slot'[i].psrv # slot'[j].psrv
  BY <1>1, <1>2 DEF OneEach
<1> QED BY <1>3, <1>4 DEF OneEach, Shrinks

\* What the scan of the pool comes to: the idle record of the server, or one that is
\* not allocated when the server has none.
LEMMA ScanAlone ==
    ASSUME NEW t \in Threads, Alone(t), TypeInv, MarkInv, OneEach(t), pc[t] = "obtain",
           NEW s \in Srv, NEW w, ScanPool(t, s, w)
    PROVE  \/ \E i \in 1..nslots :
                  /\ slot[i].alloc /\ slot[i].psrv = s
                  /\ slot' = [slot EXCEPT ![i].inuse = TRUE]
                  /\ nslots' = nslots
                  /\ server' = [server EXCEPT ![t] = s]
                  /\ Claimed(t, i, "reuse")
           \/ \E i \in Slots :
                  /\ i \in 1..nslots' /\ Allocated(s) = {}
                  /\ slot' = [slot EXCEPT ![i].alloc = TRUE, ![i].inuse = TRUE,
                                          ![i].connected = FALSE]
                  /\ nslots' = nslots \/ (nslots' = nslots + 1 /\ i = nslots')
                  /\ server' = [server EXCEPT ![t] = s]
                  /\ Claimed(t, i, "fresh")
<1>0. /\ nslots \in 0..MaxSlots /\ MaxSlots \in Nat /\ SrvMax \in Nat
      /\ slot \in [Slots -> SlotRecord]
  BY RequestDispatchAssumption, ServerListAssumption DEF TypeInv, TypeOK
<1>1. \A i \in 1..nslots : i \in Slots
  BY <1>0 DEF Slots
<1>2. ~WillRelease(t)
  BY DEF WillRelease, Using
<1>3. \A i \in 1..nslots : slot[i].alloc => ~slot[i].inuse
  BY <1>1, <1>2 DEF MarkInv, Alone
<1>4. Takes(s) = Allocated(s) /\ Fills(s) = {}
  BY <1>3 DEF Takes, Fills, Allocated
<1>5. \A i \in Allocated(s) : ScanStop(s) <= i
  BY <1>0, <1>4, ScanStopFirst
<1>6. ~WaitTurn(t, s, w)
  BY <1>4 DEF WaitTurn
<1>7. ScanStop(s) = nslots + 1 => Allocated(s) = {}
  <2>1. \A i \in Allocated(s) : i \in 1..nslots
    BY DEF Allocated
  <2> QED BY <1>0, <1>5, <2>1
<1> DEFINE free == {i \in 1..nslots : i < ScanStop(s) /\ ~slot[i].alloc}
<1>8. SpareAfter(t, s) = IF free = {} THEN NoSlot ELSE Min(free)
  BY DEF SpareAfter, OneEach
<1>9. free # {} => Min(free) \in free
  <2>1. free \subseteq Nat
    OBVIOUS
  <2> HIDE DEF free
  <2> QED BY <2>1, LeastElement DEF Min
<1>10. SpareAfter(t, s) # NoSlot => SpareAfter(t, s) \in 1..nslots
  BY <1>8, <1>9
<1>11. SpareAfter(t, s) = NoSlot => free = {}
  <2>1. \A i \in free : i # NoSlot
    BY DEF NoSlot
  <2> HIDE DEF free
  <2> QED BY <1>8, <1>9, <2>1
<1>12. ~Refuse(t, s, w)
  <2> SUFFICES ASSUME ScanStop(s) = nslots + 1, SpareAfter(t, s) = NoSlot,
                      nslots = MaxSlots
               PROVE  FALSE
    BY <1>4 DEF Refuse, Alone
  <2> DEFINE f == [i \in 1..nslots |-> slot[i].psrv]
  <2>1. \A i \in 1..nslots : slot[i].alloc
    BY <1>0, <1>11
  <2>2. \A i \in 1..nslots : Settled(t, i)
    BY <2>1 DEF Settled
  <2>3. \A i \in 1..nslots : slot[i].psrv \in Srv /\ slot[i].psrv # s
    BY <1>7, <2>1, <2>2 DEF OneEach, Allocated
  <2>4. \A i, j \in 1..nslots : i # j => slot[i].psrv # slot[j].psrv
    BY <2>2 DEF OneEach
  <2>5. /\ \A i \in 1..nslots : f[i] \in Srv \ {s}
        /\ \A i, j \in 1..nslots : i # j => f[i] # f[j]
    BY <2>3, <2>4
  <2> HIDE DEF f
  <2>6. nslots < SrvMax
    BY <1>0, <2>5, OneEachFits
  <2> QED BY <1>0, <2>6 DEF Alone
<1>13. CASE TakeExisting(t, s)
  <2>1. PICK i \in Allocated(s) : /\ slot' = [slot EXCEPT ![i].inuse = TRUE]
                                  /\ server' = [server EXCEPT ![t] = s]
                                  /\ Claimed(t, i, "reuse")
                                  /\ nslots' = nslots
    BY <1>4, <1>13 DEF TakeExisting
  <2>2. i \in 1..nslots /\ slot[i].alloc /\ slot[i].psrv = s
    BY DEF Allocated
  <2> QED BY <2>1, <2>2
<1>14. CASE TakeUnused(t, s)
  <2> DEFINE i == IF SpareAfter(t, s) = NoSlot THEN nslots + 1 ELSE SpareAfter(t, s)
  <2>1. /\ i \in Slots /\ ScanStop(s) = nslots + 1
        /\ slot' = [slot EXCEPT ![i].alloc = TRUE, ![i].inuse = TRUE,
                                ![i].connected = FALSE]
        /\ nslots' = IF SpareAfter(t, s) = NoSlot THEN nslots + 1 ELSE nslots
        /\ server' = [server EXCEPT ![t] = s]
        /\ Claimed(t, i, "fresh")
    BY <1>14, Zenon DEF TakeUnused
  <2>2. i \in 1..nslots' /\ (nslots' = nslots \/ (nslots' = nslots + 1 /\ i = nslots'))
    BY <1>0, <1>10, <2>1
  <2>3. Allocated(s) = {}
    BY <1>7, <2>1
  <2> HIDE DEF i
  <2> QED BY <2>1, <2>2, <2>3
<1> QED BY <1>6, <1>12, <1>13, <1>14 DEF ScanPool

\* The scan keeps the two invariants, when no server is under retry but, perhaps, the
\* one that the search has just found.
LEMMA ScanRetries ==
    ASSUME NEW t \in Threads, Alone(t), TypeInv, MarkInv, OneEach(t), pc[t] = "obtain",
           NEW s \in Srv, NEW w, ScanPool(t, s, w),
           \A r \in Srv : offline'[r] = Retrying => r = s,
           Alternatives > 0 \/ \A r \in Srv : offline'[r] = Online
    PROVE  OneEach(t)' /\ RetryInv(t)'
<1>0. /\ nslots \in 0..MaxSlots /\ MaxSlots \in Nat
      /\ slot \in [Slots -> SlotRecord] /\ pc \in [Threads -> Stages]
      /\ server \in [Threads -> 0..(SrvMax + 1)] /\ con \in [Threads -> Slots \cup {NoSlot}]
      /\ spare \in [Threads -> Slots \cup {NoSlot}]
  BY RequestDispatchAssumption DEF TypeInv, TypeOK
<1>1. \A i \in 1..nslots : i \in Slots /\ (Settled(t, i) <=> slot[i].alloc)
  BY <1>0 DEF Slots, Settled
<1>2. ASSUME NEW i \in 1..nslots, slot[i].alloc, slot[i].psrv = s,
             slot' = [slot EXCEPT ![i].inuse = TRUE], nslots' = nslots,
             server' = [server EXCEPT ![t] = s], Claimed(t, i, "reuse")
      PROVE  OneEach(t)' /\ RetryInv(t)'
  <2>1. /\ pc'[t] = "reuse" /\ server'[t] = s /\ con'[t] = i /\ spare'[t] = NoSlot
    BY <1>0, <1>2 DEF Claimed, Goto
  <2>2. \A j \in 1..nslots : slot'[j].alloc = slot[j].alloc /\ slot'[j].psrv = slot[j].psrv
    BY <1>0, <1>1, <1>2 DEF SlotRecord
  <2>3. Shrinks(t)
    BY <1>2, <2>1, <2>2 DEF Shrinks
  <2>4. RetryInv(t)'
    BY <1>2, <2>1, <2>2 DEF RetryInv, Trying
  <2> QED BY <2>3, <2>4, OneEachShrinks
<1>3. ASSUME NEW i \in Slots, i \in 1..nslots', Allocated(s) = {},
             slot' = [slot EXCEPT ![i].alloc = TRUE, ![i].inuse = TRUE,
                                  ![i].connected = FALSE],
             nslots' = nslots \/ (nslots' = nslots + 1 /\ i = nslots'),
             server' = [server EXCEPT ![t] = s], Claimed(t, i, "fresh")
      PROVE  OneEach(t)' /\ RetryInv(t)'
  <2>1. /\ pc'[t] = "fresh" /\ server'[t] = s /\ con'[t] = i /\ spare'[t] = NoSlot
    BY <1>0, <1>3 DEF Claimed, Goto
  <2>2. \A j \in 1..nslots' : j # i => j \in 1..nslots
    BY <1>0, <1>3
  <2>3. \A j \in 1..nslots' : Settled(t, j)' <=> slot'[j].alloc /\ j # i
    BY <2>1 DEF Settled
  <2>4. \A j \in 1..nslots' : j # i => slot'[j] = slot[j]
    BY <1>0, <1>1, <1>3, <2>2
  <2>5. \A j \in 1..nslots' : Settled(t, j)' =>
            j \in 1..nslots /\ Settled(t, j) /\ slot'[j].psrv = slot[j].psrv
    BY <1>1, <2>2, <2>3, <2>4
  <2>6. \A j \in 1..nslots' : Settled(t, j)' =>
            slot'[j].psrv \in Srv /\ slot'[j].psrv # server'[t]
    <3>1. \A j \in 1..nslots : slot[j].alloc => slot[j].psrv \in Srv
      BY <1>1 DEF OneEach
    <3>2. \A j \in 1..nslots : slot[j].alloc => slot[j].psrv # s
      BY <1>3 DEF Allocated
    <3> QED BY <1>1, <2>1, <2>5, <3>1, <3>2
  <2>7. \A j, k \in 1..nslots' :
            j # k /\ Settled(t, j)' /\ Settled(t, k)' => slot'[j].psrv # slot'[k].psrv
    BY <2>5 DEF OneEach
  <2>8. slot'[i].alloc
    BY <1>0, <1>3 DEF SlotRecord
  <2>9. OneEach(t)'
    BY <1>3, <2>1, <2>6, <2>7, <2>8 DEF OneEach
  <2>10. RetryInv(t)'
    BY <2>1 DEF RetryInv, Trying
  <2> QED BY <2>9, <2>10
<1> QED BY <1>2, <1>3, ScanAlone

\* A step that leaves no server under retry, of a request that is not about to connect.
LEMMA NoRetryLeft ==
    ASSUME NEW t, pc'[t] \notin Trying,
           \A s \in Srv : offline'[s] # Retrying,
           Alternatives > 0 \/ \A s \in Srv : offline'[s] = Online
    PROVE  RetryInv(t)'
  BY DEF RetryInv, Trying

\* What a step does to the servers, when none of them is to be retried but s, which is
\* marked offline or online with it.
LEMMA RetryEnds ==
    ASSUME NEW t, TypeInv, RetryInv(t), NEW s,
           \/ UNCHANGED offline /\ pc[t] \notin Trying
           \/ MarkOffline(s) /\ (pc[t] \in Trying => s = server[t])
           \/ offline' = Revived(s) /\ (pc[t] \in Trying => s = server[t])
    PROVE  /\ \A r \in Srv : offline'[r] # Retrying
           /\ Alternatives > 0 \/ \A r \in Srv : offline'[r] = Online
<1>0. offline \in [Srv -> Status] /\ Online # Retrying /\ Offline # Retrying
  BY DEF TypeInv, TypeOK, Online, Offline, Retrying
<1>1. \A r \in Srv : offline[r] = Retrying => pc[t] \in Trying /\ r = server[t]
  BY DEF RetryInv
<1>2. Alternatives > 0 \/ \A r \in Srv : offline[r] = Online
  BY DEF RetryInv
<1>3. CASE UNCHANGED offline /\ pc[t] \notin Trying
  BY <1>1, <1>2, <1>3
<1>4. CASE MarkOffline(s) /\ (pc[t] \in Trying => s = server[t])
  BY <1>0, <1>1, <1>2, <1>4 DEF MarkOffline, servers
<1>5. CASE offline' = Revived(s) /\ (pc[t] \in Trying => s = server[t])
  BY <1>0, <1>1, <1>2, <1>5 DEF Revived
<1> QED BY <1>3, <1>4, <1>5

\* The record gets the server it is used for, if it has not had it before.
LEMMA PrepareRetries ==
    ASSUME NEW t \in Threads, TypeInv, OneEach(t), RetryInv(t), PrepareNew(t)
    PROVE  OneEach(t)' /\ RetryInv(t)'
<1>0. /\ nslots \in 0..MaxSlots /\ MaxSlots \in Nat
      /\ slot \in [Slots -> SlotRecord] /\ pc \in [Threads -> Stages]
      /\ con[t] \in Slots /\ server[t] \in Srv /\ pc[t] \in {"fresh", "reuse"}
  BY RequestDispatchAssumption DEF PrepareNew, TypeInv, TypeOK, HasRecord, Stages
<1>1. /\ pc'[t] = "connect" /\ nslots' = nslots /\ spare' = spare /\ con' = con
      /\ server' = server /\ offline' = offline
  BY <1>0 DEF PrepareNew, Goto, request, servers
<1>2. /\ slot'[con[t]].alloc = slot[con[t]].alloc /\ slot'[con[t]].psrv = server[t]
      /\ \A i \in Slots : i # con[t] => slot'[i] = slot[i]
  BY <1>0 DEF PrepareNew, SlotRecord
<1>3. \A i \in 1..nslots : i \in Slots
  BY <1>0 DEF Slots
<1>4. con[t] \in 1..nslots /\ slot[con[t]].alloc
  BY <1>0 DEF OneEach, Allocating
<1>5. \A i \in 1..nslots : Settled(t, i)' <=> slot'[i].alloc
  BY <1>1 DEF Settled
<1>6. \A i \in 1..nslots : i # con[t] /\ slot[i].alloc => Settled(t, i)
  BY DEF Settled
<1>7. \A i \in 1..nslots : i # con[t] /\ slot[i].alloc =>
          slot[i].psrv \in Srv /\ slot[i].psrv # server[t]
  <2>1. CASE pc[t] = "fresh"
    BY <1>6, <2>1 DEF OneEach
  <2>2. CASE pc[t] = "reuse"
    <3>1. Settled(t, con[t]) /\ slot[con[t]].psrv = server[t]
      BY <1>4, <2>2 DEF Settled, RetryInv
    <3> QED BY <1>4, <1>6, <3>1 DEF OneEach
  <2> QED BY <1>0, <2>1, <2>2
<1>8. \A i \in 1..nslots : Settled(t, i)' => slot'[i].psrv \in Srv
  BY <1>0, <1>2, <1>3, <1>5, <1>7
<1>9. ASSUME NEW i \in 1..nslots, NEW j \in 1..nslots, i # j,
             Settled(t, i)', Settled(t, j)'
      PROVE  slot'[i].psrv # slot'[j].psrv
  <2>1. CASE i = con[t] \/ j = con[t]
    BY <1>2, <1>3, <1>5, <1>7, <1>9, <2>1
  <2>2. CASE i # con[t] /\ j # con[t]
    BY <1>2, <1>3, <1>5, <1>6, <1>9, <2>2 DEF OneEach
  <2> QED BY <2>1, <2>2
<1>10. OneEach(t)'
  BY <1>1, <1>2, <1>4, <1>8, <1>9 DEF OneEach
<1>11. RetryInv(t)'
  BY <1>0, <1>1, <1>2 DEF RetryInv, Trying
<1> QED BY <1>10, <1>11

\* Every action of the thread.  Most of them write one record, and no server.
LEMMA WorkRetries ==
    ASSUME NEW t \in Threads, Alone(t), TypeInv, MarkInv, OneEach(t), RetryInv(t),
           Arrive(t) \/ Work(t)
    PROVE  OneEach(t)' /\ RetryInv(t)'
<1>0. /\ nslots \in 0..MaxSlots /\ MaxSlots \in Nat
      /\ slot \in [Slots -> SlotRecord] /\ pc \in [Threads -> Stages]
      /\ con \in [Threads -> Slots \cup {NoSlot}]
      /\ server \in [Threads -> 0..(SrvMax + 1)]
      /\ connectFailed \in [Threads -> BOOLEAN]
      /\ spare \in [Threads -> Slots \cup {NoSlot}]
      /\ offline \in [Srv -> Status] /\ cursor \in Srv
      /\ pc[t] \in HasRecord => con[t] \in Slots
  BY RequestDispatchAssumption DEF TypeInv, TypeOK
<1>a. \A i \in 1..nslots : i \in Slots
  BY <1>0 DEF Slots
<1>b. spare[t] = NoSlot /\ pc[t] # "queued"
  BY DEF OneEach
<1>c. pc[t] \in Allocating => con[t] \in 1..nslots /\ slot[con[t]].alloc
  BY DEF OneEach
\* The scans.
<1>1. CASE ObtainPreferred(t)
  <2>1. pc[t] = "obtain" /\ server[t] \in Srv /\ offline' = offline
    BY <1>1 DEF ObtainPreferred, Preferable, servers
  <2>2. ScanPool(t, server[t], 0)
    BY <1>1 DEF ObtainPreferred
  <2>3. Alternatives > 0 \/ \A r \in Srv : offline'[r] = Online
    BY <2>1 DEF RetryInv
  <2>4. \A r \in Srv : offline'[r] # Retrying
    BY <2>1 DEF RetryInv, Trying
  <2> QED BY <2>1, <2>2, <2>3, <2>4, ScanRetries
<1>2. CASE ObtainFound(t)
  <2> DEFINE s == Outcome.server
  <2>1. pc[t] = "obtain" /\ s \in Srv /\ ScanPool(t, s, 0)
    BY <1>0, <1>2, OutcomeType DEF ObtainFound, Outcome
  <2>2. offline' = IF offline[s] = Offline THEN [offline EXCEPT ![s] = Retrying] ELSE offline
    BY <1>2 DEF ObtainFound
  <2> HIDE DEF s
  <2>3. \A r \in Srv : offline[r] # Retrying
    BY <2>1 DEF RetryInv, Trying
  <2>4. \A r \in Srv : offline'[r] = Retrying => r = s
    BY <1>0, <2>1, <2>2, <2>3
  <2>5. Alternatives > 0 \/ \A r \in Srv : offline'[r] = Online
    BY <2>1, <2>2 DEF RetryInv, Online, Offline
  <2> QED BY <2>1, <2>4, <2>5, ScanRetries
<1>3. ~Requeue(t)
  BY <1>b DEF Requeue
\* The connect.
<1>4. CASE UseExisting(t)
  <2>1. /\ pc[t] = "reuse" /\ pc'[t] = "execute" /\ con'[t] = con[t] /\ spare' = spare
        /\ nslots' = nslots /\ offline' = Revived(slot[con[t]].psrv)
        /\ slot' = [slot EXCEPT ![con[t]].aged = FALSE]
    BY <1>0, <1>4 DEF UseExisting, Goto, request
  <2>2. \A i \in 1..nslots : slot'[i].alloc = slot[i].alloc /\ slot'[i].psrv = slot[i].psrv
    BY <1>0, <1>a, <2>1 DEF SlotRecord
  <2>3. Shrinks(t)
    BY <1>b, <1>c, <2>1, <2>2 DEF Shrinks, Allocating
  <2>4. slot[con[t]].psrv = server[t]
    BY <2>1 DEF RetryInv
  <2> QED BY <2>1, <2>3, <2>4, OneEachShrinks, RetryEnds, NoRetryLeft DEF Trying
<1>5. CASE PrepareNew(t)
  BY <1>5, PrepareRetries
<1>6. CASE ConnectOk(t)
  <2>1. /\ pc[t] = "connect" /\ pc'[t] = "execute" /\ con'[t] = con[t] /\ spare' = spare
        /\ nslots' = nslots /\ offline' = Revived(slot[con[t]].psrv) /\ Connected(con[t])
    BY <1>0, <1>6 DEF ConnectOk, Goto
  <2>2. con[t] \in 1..nslots /\ con[t] \in Slots /\ slot[con[t]].alloc
    BY <1>a, <1>c, <2>1 DEF Allocating
  <2>3. \A i \in 1..nslots : slot'[i].alloc = slot[i].alloc /\ slot'[i].psrv = slot[i].psrv
    BY <1>0, <1>a, <2>1, <2>2, ConnectedFields DEF SlotRecord
  <2>4. Shrinks(t)
    BY <1>b, <2>1, <2>2, <2>3 DEF Shrinks
  <2>5. slot[con[t]].psrv = server[t]
    BY <2>1 DEF RetryInv
  <2> QED BY <2>1, <2>4, <2>5, OneEachShrinks, RetryEnds, NoRetryLeft DEF Trying
<1>7. CASE ConnectFails(t)
  <2>1. /\ pc[t] = "connect" /\ pc'[t] = "discard" /\ spare' = spare /\ nslots' = nslots
        /\ offline' = offline /\ server' = server /\ connectFailed'[t]
        /\ NotConnected(con[t])
    BY <1>0, <1>7 DEF ConnectFails, Goto, servers
  <2>2. \A i \in 1..nslots : slot'[i].alloc => slot[i].alloc /\ slot'[i].psrv = slot[i].psrv
    BY <1>0, <1>a, <2>1 DEF NotConnected, SlotRecord
  <2>3. Shrinks(t)
    BY <1>b, <2>1, <2>2 DEF Shrinks, Allocating
  <2>4. RetryInv(t)'
    BY <2>1 DEF RetryInv, Trying
  <2> QED BY <2>3, <2>4, OneEachShrinks
<1>8. CASE Discard(t)
  <2>1. /\ pc[t] = "discard" /\ pc'[t] = "unavailable" /\ spare' = spare /\ nslots' = nslots
        /\ offline' = offline /\ server' = server /\ connectFailed' = connectFailed
        /\ slot' = [slot EXCEPT ![con[t]].alloc = FALSE, ![con[t]].inuse = FALSE]
    BY <1>0, <1>8 DEF Discard, Goto, servers
  <2>2. \A i \in 1..nslots : slot'[i].alloc => slot[i].alloc /\ slot'[i].psrv = slot[i].psrv
    BY <1>0, <1>a, <2>1 DEF SlotRecord
  <2>3. Shrinks(t)
    BY <1>b, <2>1, <2>2 DEF Shrinks, Allocating
  <2>4. RetryInv(t)'
    BY <2>1 DEF RetryInv, Trying
  <2> QED BY <2>3, <2>4, OneEachShrinks
<1>9. CASE Unavailable(t)
  <2>1. /\ pc[t] = "unavailable" /\ pc'[t] \in {"obtain", "idle"} /\ spare'[t] = NoSlot
        /\ nslots' = nslots /\ slot' = slot
    BY <1>0, <1>b, <1>9 DEF Unavailable, FailOver, Finish, Goto, pool
  <2>2. connectFailed[t]
    BY <2>1 DEF RetryInv
  <2>3. MarkOffline(server[t])
    BY <1>9, <2>2 DEF Unavailable
  <2>4. Shrinks(t)
    BY <2>1 DEF Shrinks, Allocating
  <2> QED BY <2>1, <2>3, <2>4, OneEachShrinks, RetryEnds, NoRetryLeft DEF Trying
\* The rest of the request.
<1>d. ASSUME pc[t] \notin Trying, pc'[t] \notin Trying \cup {"queued"}, spare'[t] = NoSlot,
             nslots' = nslots, UNCHANGED offline \/ MarkOffline(server[t]),
             pc'[t] \in Allocating => con'[t] \in 1..nslots /\ slot'[con'[t]].alloc,
             \A i \in 1..nslots : slot'[i].alloc => slot[i].alloc /\ slot'[i].psrv = slot[i].psrv
      PROVE  OneEach(t)' /\ RetryInv(t)'
  <2>1. Shrinks(t)
    BY <1>d DEF Shrinks, Trying
  <2>2. RetryInv(t)'
    BY <1>d, RetryEnds, NoRetryLeft
  <2> QED BY <2>1, <2>2, OneEachShrinks
<1>10. CASE Arrive(t) \/ ObtainSpins(t) \/ ExecuteOk(t) \/ ResendFails(t) \/ Sweep(t)
            \/ Decide(t) \/ Respond(t)
  <2>1. /\ pc[t] \notin Trying /\ pc'[t] \notin Trying \cup {"queued"} \cup Allocating
        /\ spare'[t] = NoSlot /\ nslots' = nslots /\ slot' = slot /\ offline' = offline
    BY <1>0, <1>b, <1>10
       DEF Arrive, ObtainSpins, ExecuteOk, Answered, ResendFails, Sweep, Decide, FailOver,
           Respond, Goto, pool, servers, request, Trying, Allocating
  <2> QED BY <1>d, <2>1
<1>11. CASE ObtainNone(t)
  <2>1. /\ pc[t] = "obtain" /\ pc'[t] = "idle" /\ spare'[t] = NoSlot
        /\ nslots' = nslots /\ slot' = slot
    BY <1>0, <1>11 DEF ObtainNone, Finish, Goto, pool
  <2>2. Shrinks(t)
    BY <2>1 DEF Shrinks, Allocating
  <2>3. offline' = [s \in Srv |-> Online] \/ offline' = offline
    BY <1>11 DEF ObtainNone
  <2>4. Online # Retrying
    BY DEF Online, Retrying
  <2>5. RetryInv(t)'
    BY <2>1, <2>3, <2>4 DEF RetryInv, Trying
  <2> QED BY <2>2, <2>5, OneEachShrinks
<1>12. CASE SendFails(t) \/ ReadBreaks(t)
  <2>1. /\ pc[t] = "execute" /\ pc'[t] = "reconnect" /\ con' = con /\ spare' = spare
        /\ nslots' = nslots /\ offline' = offline
        /\ slot' = [slot EXCEPT ![con[t]].connected = FALSE]
    BY <1>0, <1>12 DEF SendFails, ReadBreaks, Answered, Goto, servers, request
  <2>2. \A i \in 1..nslots : slot'[i].alloc = slot[i].alloc /\ slot'[i].psrv = slot[i].psrv
    BY <1>0, <1>a, <2>1 DEF SlotRecord
  <2> QED BY <1>b, <1>c, <1>d, <2>1, <2>2 DEF Trying, Allocating
<1>13. CASE ReconnectOk(t)
  <2>1. /\ pc[t] = "reconnect" /\ pc'[t] = "resend" /\ spare' = spare
        /\ nslots' = nslots /\ offline' = offline /\ Connected(con[t])
    BY <1>0, <1>13 DEF ReconnectOk, Goto, servers
  <2>2. con[t] \in 1..nslots /\ con[t] \in Slots /\ slot[con[t]].alloc
    BY <1>a, <1>c, <2>1 DEF Allocating
  <2>3. \A i \in 1..nslots : slot'[i].alloc = slot[i].alloc /\ slot'[i].psrv = slot[i].psrv
    BY <1>0, <1>a, <2>1, <2>2, ConnectedFields DEF SlotRecord
  <2> QED BY <1>b, <1>d, <2>1, <2>3 DEF Trying, Allocating
<1>14. CASE NoAnswer(t) \/ ReconnectFails(t) \/ Drop(t) \/ Dropped(t) \/ ExitKeep(t)
            \/ ExitClose(t) \/ ExitClosed(t)
  <2>1. /\ pc[t] \notin Trying /\ pc'[t] \notin Trying \cup {"queued"} \cup Allocating
        /\ spare'[t] = NoSlot /\ nslots' = nslots /\ offline' = offline
    BY <1>0, <1>b, <1>14
       DEF NoAnswer, Answered, ReconnectFails, Drop, Dropped, ExitKeep, ExitClose, ExitClosed,
           Finish, Goto, servers, request, Trying, Allocating
  <2>2. \/ slot' = slot
        \/ slot' = [slot EXCEPT ![con[t]].connected = FALSE]
        \/ NotConnected(con[t])
        \/ ReleaseSlot(con[t])
        \/ UnallocateSlot(con[t])
        \/ slot' = [slot EXCEPT ![con[t]].inuse = FALSE]
    BY <1>14 DEF NoAnswer, ReconnectFails, Drop, Dropped, ExitKeep, ExitClose, ExitClosed
  <2>3. \A i \in 1..nslots : slot'[i].alloc => slot[i].alloc /\ slot'[i].psrv = slot[i].psrv
    <3> DEFINE Kept == \A i \in 1..nslots : slot'[i].alloc =>
                           slot[i].alloc /\ slot'[i].psrv = slot[i].psrv
    <3>1. CASE slot' = slot
      BY <3>1
    <3>2. CASE slot' = [slot EXCEPT ![con[t]].connected = FALSE]
      BY <1>0, <1>a, <3>2 DEF SlotRecord
    <3>3. CASE NotConnected(con[t])
      BY <1>0, <1>a, <3>3 DEF NotConnected, SlotRecord
    <3>4. CASE ReleaseSlot(con[t])
      BY <1>0, <1>a, <3>4 DEF ReleaseSlot, SlotRecord
    <3>5. CASE UnallocateSlot(con[t])
      BY <1>0, <1>a, <3>5 DEF UnallocateSlot, SlotRecord
    <3>6. CASE slot' = [slot EXCEPT ![con[t]].inuse = FALSE]
      BY <1>0, <1>a, <3>6 DEF SlotRecord
    <3> QED BY <2>2, <3>1, <3>2, <3>3, <3>4, <3>5, <3>6
  <2> QED BY <1>d, <2>1, <2>3
<1>15. CASE Blame(t)
  <2>1. /\ pc[t] \notin Trying /\ pc'[t] \notin Trying \cup {"queued"} \cup Allocating
        /\ spare'[t] = NoSlot /\ nslots' = nslots /\ slot' = slot /\ MarkOffline(server[t])
    BY <1>0, <1>b, <1>15 DEF Blame, Goto, pool, request, Trying, Allocating
  <2> QED BY <1>d, <2>1
<1> QED BY <1>1, <1>2, <1>3, <1>4, <1>5, <1>6, <1>7, <1>8, <1>9, <1>10, <1>11, <1>12, <1>13,
           <1>14, <1>15
        DEF Work, Obtain, Execute, Leave

\* What happens around the requests.
LEMMA EnvironmentRetries ==
    ASSUME NEW t \in Threads, Alone(t), TypeInv, OneEach(t), RetryInv(t),
           Environment \/ UNCHANGED vars
    PROVE  OneEach(t)' /\ RetryInv(t)'
<1>0. offline \in [Srv -> Status] /\ slot \in [Slots -> SlotRecord]
  BY DEF TypeInv, TypeOK
<1>1. UNCHANGED <<nslots, pc, con, spare, server, connectFailed>>
  BY DEF Environment, HealthCheckDue, AdminOffline, AdminOnline, IdleTooLong, StatusPage,
         pool, request, vars
<1>2. \A i \in Slots : slot'[i].alloc = slot[i].alloc /\ slot'[i].psrv = slot[i].psrv
  <2>1. slot' = slot \/ \E k \in Slots : slot' = [slot EXCEPT ![k].aged = TRUE]
    BY DEF Environment, HealthCheckDue, AdminOffline, AdminOnline, IdleTooLong, StatusPage,
           pool, vars
  <2> QED BY <1>0, <2>1 DEF SlotRecord
<1>3. \A i \in 1..nslots : i \in Slots
  BY RequestDispatchAssumption DEF TypeInv, TypeOK, Slots
<1>4. \A i \in 1..nslots : /\ Settled(t, i)' <=> Settled(t, i)
                           /\ slot'[i].alloc = slot[i].alloc
                           /\ slot'[i].psrv = slot[i].psrv
  BY <1>1, <1>2, <1>3 DEF Settled
<1>5. OneEach(t)'
  BY <1>1, <1>4 DEF OneEach
<1>6. \A s \in Srv : offline'[s] = Retrying => offline[s] = Retrying
  <2>1. \/ offline' = offline
        \/ \E s \in Srv : \/ offline' = [offline EXCEPT ![s] = Offline]
                          \/ offline' = [offline EXCEPT ![s] = Online]
        \/ offline' = [s \in Srv |-> IF Recheckable(offline, due, s)
                                     THEN Online ELSE offline[s]]
    BY DEF Environment, HealthCheckDue, AdminOffline, AdminOnline, IdleTooLong, StatusPage,
           servers, vars
  <2>2. Online # Retrying /\ Offline # Retrying
    BY DEF Online, Offline, Retrying
  <2> QED BY <1>0, <2>1, <2>2
<1>7. Alternatives > 0 \/ \A s \in Srv : offline'[s] = Online
  <2> SUFFICES ASSUME ~(Alternatives > 0) PROVE \A s \in Srv : offline'[s] = Online
    OBVIOUS
  <2>1. "admin" \notin Faults /\ \A s \in Srv : offline[s] = Online
    BY DEF Alone, RetryInv
  <2>2. offline' = offline
    BY <2>1 DEF Environment, HealthCheckDue, AdminOffline, AdminOnline, IdleTooLong,
                StatusPage, servers, vars
  <2> QED BY <2>1, <2>2
<1>8. pc[t] \in {"reuse", "connect"} => slot'[con[t]].psrv = slot[con[t]].psrv
  BY <1>2 DEF TypeInv, HasRecord, Stages
<1>9. RetryInv(t)'
  BY <1>1, <1>6, <1>7, <1>8 DEF RetryInv
<1> QED BY <1>5, <1>9

\* Where one thread serves the requests, the pool has room for a connection to every
\* server, and nobody marks offline a server that has no alternative, a server under
\* retry is on its way to an outcome: online again, or offline and due for another check.
\* Without any one of these conditions a server may stay under retry for good.
THEOREM RetryStaysInProgress ==
    ASSUME NEW t \in Threads, Alone(t) PROVE Spec => []RetryInProgress
<1> DEFINE Inv == OneEach(t) /\ RetryInv(t)
<1>1. Init => Inv
  <2> SUFFICES ASSUME Init PROVE Inv
    OBVIOUS
  <2>1. OneEach(t)
    BY DEF Init, OneEach, Allocating
  <2>2. RetryInv(t)
    BY DEF Init, RetryInv, Online, Retrying
  <2> QED BY <2>1, <2>2
<1>2. TypeInv /\ MarkInv /\ Inv /\ [Next]_vars => Inv'
  <2> SUFFICES ASSUME TypeInv, MarkInv, OneEach(t), RetryInv(t), [Next]_vars
               PROVE  OneEach(t)' /\ RetryInv(t)'
    OBVIOUS
  <2>1. CASE Environment \/ UNCHANGED vars
    BY <2>1, EnvironmentRetries
  <2>2. CASE Arrive(t) \/ Work(t)
    BY <2>2, WorkRetries
  <2>3. Threads = {t}
    BY DEF Alone
  <2> QED BY <2>1, <2>2, <2>3 DEF Next
<1>3. Inv => RetryInProgress
  BY DEF RetryInv, RetryInProgress, Trying
<1> HIDE DEF Inv
<1> QED BY <1>1, <1>2, <1>3, TypeInvariant, MarkInvariant, PTL DEF Spec
===========================================================================
