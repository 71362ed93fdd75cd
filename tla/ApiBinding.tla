----------------------------- MODULE ApiBinding -----------------------------
(***************************************************************************)
(* One DBXCON record bound to a database through its API, and the requests *)
(* of a worker process that share it: mg_connect with isc_open or ydb_open,*)
(* the API branches of mg_web_execute, mg_release_connection and           *)
(* mg_worker_exit.                                                         *)
(*                                                                         *)
(* A network connection serves one request at a time.  An API record is    *)
(* handed to every request of its server as soon as it is allocated, and   *)
(* what keeps them apart is the mutex of the record, DbMutex, through the  *)
(* macros DBX_LOCK and DBX_UNLOCK.  What RequestDispatch says of the pool  *)
(* is not repeated: a request of another server, or one that arrives while *)
(* the record has no server yet, takes another record.                     *)
(***************************************************************************)
EXTENDS Naturals, FiniteSets

CONSTANTS
    Threads, NoThread,
    MaxBindings, \* bindings mg_malloc can provide before it fails
    Faults       \* what may go wrong: a subset of FaultKinds

\* "load"   the library cannot be loaded   "attach" the database refuses
\* "call"   a request ends in an error     "client" the browser goes away
FaultKinds == {"load", "attach", "call", "client"}

ASSUME ApiBindingAssumption ==
    /\ NoThread \notin Threads
    /\ MaxBindings \in Nat \ {0}
    /\ Faults \subseteq FaultKinds

Bindings == 1..MaxBindings
NoBinding == 0

VARIABLES
    dbtype,    \* pcon->psrv->dbtype: "isc" (Cache, IRIS) or "ydb" (YottaDB)
    holder, thid, stack, at, nesting, \* pcon->p_db_mutex, see DbMutex
    alloc,     \* pcon->alloc
    placed,    \* pcon->psrv has been set
    useMutex,  \* pcon->use_db_mutex
    binding,   \* pcon->p_isc_so or p_ydb_so
    library,   \* what each binding that was ever made has come to
    made,      \* how many were made; none is given back
    global,    \* mg_isc_so_global or mg_ydb_so_global
    stage,     \* where each thread is in its request
    failed,    \* its call has returned an error, and the response is not written
    worker,    \* the worker process
    calm       \* history: a request has opened the binding with no other about

mutex == <<holder, thid, stack, at, nesting>>
record == <<alloc, placed, useMutex, binding, library, made, global>>
vars == <<dbtype, holder, thid, stack, at, nesting, alloc, placed, useMutex, binding, library,
          made, global, stage, failed, worker, calm>>

Mutex == INSTANCE DbMutex WITH MaxDepth <- 2

\* "empty" no library, "mapped" loaded with its functions resolved, "attached"
\* connected to the database, "ended" by p_CacheEnd or p_ydb_exit, "closed"
\* after mg_dso_unload.
LibraryStates == {"empty", "mapped", "attached", "ended", "closed"}

Stages == {"idle", "prepare", "mark", "lockOpen", "allocate", "load", "attach", "lockSpace",
           "space", "unlockSpace", "bind", "unlockOpen", "opened", "abandon",
           "lockCall", "call", "answer", "unlockCall", "respond",
           "release", "lockEnd", "end", "unlockEnd", "exit", "unload", "unallocate"}

TypeOK ==
    /\ dbtype \in {"isc", "ydb"}
    /\ Mutex!TypeOK
    /\ alloc \in BOOLEAN /\ placed \in BOOLEAN /\ useMutex \in BOOLEAN
    /\ binding \in Bindings \cup {NoBinding}
    /\ library \in [Bindings -> LibraryStates]
    /\ made \in 0..MaxBindings
    /\ global \in Bindings \cup {NoBinding}
    /\ stage \in [Threads -> Stages]
    /\ failed \in [Threads -> BOOLEAN]
    /\ worker \in {"up", "down", "crashed"}
    /\ calm \in BOOLEAN

Init ==
    /\ dbtype \in {"isc", "ydb"}
    /\ Mutex!Init
    /\ alloc = FALSE /\ placed = FALSE /\ useMutex = FALSE
    /\ binding = NoBinding
    /\ library = [b \in Bindings |-> "empty"]
    /\ made = 0
    /\ global = NoBinding
    /\ stage = [t \in Threads |-> "idle"]
    /\ failed = [t \in Threads |-> FALSE]
    /\ worker = "up"
    /\ calm = FALSE

Goto(t, to) == stage' = [stage EXCEPT ![t] = to]
Unmoved == UNCHANGED <<dbtype, failed, worker, calm>>

\* The bindings whose flag "loaded" is set.  Through any other one a function
\* pointer is NULL, or points into a library that has been unloaded, and the
\* call ends the process.
Usable == {b \in Bindings : library[b] \notin {"empty", "closed"}}
Crash == worker' = "crashed" /\ UNCHANGED <<dbtype, mutex, record, stage, failed, calm>>

\* "Cannot create multiple connections to the database"
OpenAlready == dbtype = "isc" /\ library[binding] \in {"attached", "ended"}

---------------------------------------------------------------------------
\* DBX_LOCK and DBX_UNLOCK look at use_db_mutex each time; the namespace is
\* changed under a lock that does not (isc_change_namespace).
Unconditional == {"lockSpace", "unlockSpace"}
MutexUsed(t) == useMutex \/ stage[t] \in Unconditional

AfterLock == [lockOpen |-> "allocate", lockSpace |-> "space", lockCall |-> "call",
              lockEnd |-> "end"]

Lock(t) ==
    /\ stage[t] \in DOMAIN AfterLock
    /\ \/ /\ MutexUsed(t)
          /\ Mutex!Wait(t) \/ Mutex!Acquire(t)
          /\ UNCHANGED stage
       \/ /\ MutexUsed(t)
          /\ Mutex!Relock(t) \/ Mutex!Sign(t)
          /\ Goto(t, AfterLock[stage[t]])
       \/ /\ ~MutexUsed(t)
          /\ Goto(t, AfterLock[stage[t]])
          /\ UNCHANGED mutex
    /\ UNCHANGED record /\ Unmoved

\* Where the thread goes after its section.
AfterUnlock(t) ==
    CASE stage[t] = "unlockOpen" -> "opened"
      [] stage[t] = "unlockSpace" -> "bind"
      [] stage[t] = "unlockCall" -> IF failed[t] THEN "release" ELSE "respond"
      [] stage[t] = "unlockEnd" -> "unload"

Unlock(t) ==
    /\ stage[t] \in {"unlockOpen", "unlockSpace", "unlockCall", "unlockEnd"}
    /\ \/ /\ MutexUsed(t)
          /\ Mutex!Erase(t)
          /\ UNCHANGED stage
       \/ /\ MutexUsed(t)
          /\ Mutex!Unstack(t) \/ Mutex!Release(t)
          /\ Goto(t, AfterUnlock(t))
       \/ /\ ~MutexUsed(t)
          /\ Goto(t, AfterUnlock(t))
          /\ UNCHANGED mutex
    /\ UNCHANGED record /\ Unmoved

---------------------------------------------------------------------------
\* A request of the server comes to the pool (under mg_global_mutex): it
\* shares the record, or has to open it.
Share(t) ==
    /\ stage[t] = "idle" /\ alloc /\ placed
    /\ Goto(t, "lockCall")
    /\ UNCHANGED <<mutex, record>> /\ Unmoved

\* MUTANT of Claim: a record that is allocated is claimed, and opened anew.
ClaimAllocated(t) ==
    /\ stage[t] = "idle"
    /\ alloc' = TRUE
    /\ Goto(t, "prepare")
    /\ UNCHANGED <<mutex, placed, useMutex, binding, library, made, global>> /\ Unmoved

Claim(t) ==
    /\ stage[t] = "idle" /\ ~alloc
    /\ alloc' = TRUE
    /\ Goto(t, "prepare")
    /\ UNCHANGED <<mutex, placed, useMutex, binding, library, made, global>> /\ Unmoved

\* The rest of mg_obtain_connection, without the lock.
Prepare(t) ==
    /\ stage[t] = "prepare"
    /\ binding' = NoBinding
    /\ placed' = TRUE
    /\ Goto(t, "mark")
    /\ UNCHANGED <<mutex, alloc, useMutex, library, made, global>> /\ Unmoved

Mark(t) ==
    /\ stage[t] = "mark"
    /\ useMutex' = TRUE
    /\ Goto(t, "lockOpen")
    /\ UNCHANGED <<mutex, alloc, placed, binding, library, made, global>> /\ Unmoved

---------------------------------------------------------------------------
\* isc_open and ydb_open, in the section of mg_connect.

\* MUTANT of OpenFails: a return without DBX_UNLOCK.
OpenFailsLocked(t) ==
    /\ alloc' = FALSE
    /\ Goto(t, "opened")
    /\ UNCHANGED <<mutex, placed, useMutex, binding, library, made, global>> /\ Unmoved

OpenFails(t) ==
    /\ alloc' = FALSE
    /\ Goto(t, "unlockOpen")
    /\ UNCHANGED <<mutex, placed, useMutex, binding, library, made, global>> /\ Unmoved

\* MUTANT of Allocate: the failure of mg_malloc is not noticed.
AllocateOneMore(t) ==
    /\ stage[t] = "allocate"
    /\ made' = made + 1
    /\ binding' = made + 1
    /\ Goto(t, "load")
    /\ UNCHANGED <<mutex, alloc, placed, useMutex, library, global>> /\ Unmoved

\* A binding is made where the record has none.
Allocate(t) ==
    /\ stage[t] = "allocate"
    /\ IF binding # NoBinding
       THEN Goto(t, "load") /\ UNCHANGED <<mutex, record>> /\ Unmoved
       ELSE \/ /\ made < MaxBindings
               /\ made' = made + 1
               /\ binding' = made + 1
               /\ Goto(t, "load")
               /\ UNCHANGED <<mutex, alloc, placed, useMutex, library, global>> /\ Unmoved
            \/ made = MaxBindings /\ OpenFails(t)

\* A library that cannot be found, or lacks a function.
LoadFails(t) ==
    /\ binding # NoBinding
    /\ OpenAlready \/ (binding \notin Usable /\ "load" \in Faults)
    /\ OpenFails(t)

Load(t) ==
    /\ stage[t] = "load"
    /\ \/ binding = NoBinding /\ Crash
       \/ LoadFails(t)
       \/ /\ binding # NoBinding /\ ~OpenAlready
          /\ library' = IF binding \in Usable THEN library
                        ELSE [library EXCEPT ![binding] = "mapped"]
          /\ Goto(t, "attach")
          /\ UNCHANGED <<mutex, alloc, placed, useMutex, binding, made, global>> /\ Unmoved

\* p_CacheSecureStartA or p_ydb_init.  The namespace is left alone if none is
\* configured, or if Cache says that the process is already connected.
Attach(t) ==
    /\ stage[t] = "attach"
    /\ \/ binding \notin Usable /\ Crash
       \/ binding \in Usable /\ "attach" \in Faults /\ OpenFails(t)
       \/ /\ binding \in Usable
          /\ Goto(t, "bind") \/ (dbtype = "isc" /\ Goto(t, "lockSpace"))
          /\ UNCHANGED <<mutex, record>> /\ Unmoved

ChangeNamespace(t) ==
    /\ stage[t] = "space"
    /\ IF binding \notin Usable THEN Crash
       ELSE Goto(t, "unlockSpace") /\ UNCHANGED <<mutex, record>> /\ Unmoved

Bind(t) ==
    /\ stage[t] = "bind"
    /\ IF binding \notin Usable THEN Crash
       ELSE /\ library' = [library EXCEPT ![binding] = "attached"]
            /\ global' = binding
            /\ alloc' = TRUE
            /\ Goto(t, "unlockOpen")
            /\ UNCHANGED <<mutex, placed, useMutex, binding, made>> /\ Unmoved

\* Whether the binding is open is read from the record, after the section.
Opened(t) ==
    /\ stage[t] = "opened"
    /\ Goto(t, IF alloc THEN "lockCall" ELSE "abandon")
    /\ calm' = (calm \/ (alloc /\ \A u \in Threads \ {t} : stage[u] = "idle"))
    /\ UNCHANGED <<dbtype, mutex, record, failed, worker>>

\* The client gets 503, or the request goes to another server.
Abandon(t) ==
    /\ stage[t] = "abandon"
    /\ alloc' = FALSE
    /\ Goto(t, "idle")
    /\ UNCHANGED <<mutex, placed, useMutex, binding, library, made, global>> /\ Unmoved

---------------------------------------------------------------------------
\* mg_web_execute: its first call through the binding, and its last.
Call(t) ==
    /\ stage[t] = "call"
    /\ IF binding \notin Usable THEN Crash
       ELSE Goto(t, "answer") /\ UNCHANGED <<mutex, record>> /\ Unmoved

Answer(t) ==
    /\ stage[t] = "answer"
    /\ IF binding \notin Usable THEN Crash
       ELSE /\ \E err \in BOOLEAN :
                 /\ err => library[binding] # "attached" \/ "call" \in Faults
                 /\ ~err => library[binding] = "attached"
                 /\ failed' = [failed EXCEPT ![t] = err]
            /\ Goto(t, "unlockCall")
            /\ UNCHANGED <<dbtype, mutex, record, worker, calm>>

\* The response, or the error page.  When the client has gone the connection
\* is closed.
Respond(t) ==
    /\ stage[t] = "respond"
    /\ \/ Goto(t, "idle")
       \/ "client" \in Faults /\ Goto(t, "release")
    /\ UNCHANGED <<mutex, record>> /\ Unmoved

---------------------------------------------------------------------------
\* mg_release_connection with close_connection.
AfterEnd == IF dbtype = "isc" THEN "unload" ELSE "unallocate"

\* MUTANT of Release: p_CacheEnd is called without the lock.
ReleaseUnlocked(t) ==
    /\ stage[t] = "release"
    /\ IF binding = NoBinding THEN Crash
       ELSE /\ Goto(t, IF binding \notin Usable THEN AfterEnd ELSE "end")
            /\ UNCHANGED <<mutex, record>> /\ Unmoved

Release(t) ==
    /\ stage[t] = "release"
    /\ IF binding = NoBinding THEN Crash
       ELSE /\ Goto(t, IF binding \notin Usable THEN AfterEnd
                       ELSE IF dbtype = "isc" THEN "lockEnd" ELSE "exit")
            /\ UNCHANGED <<mutex, record>> /\ Unmoved

\* p_CacheEnd, in its section ...
Ended == [library EXCEPT ![binding] = IF @ = "attached" THEN "ended" ELSE @]

End(t) ==
    /\ stage[t] = "end"
    /\ IF binding \notin Usable THEN Crash
       ELSE /\ library' = Ended
            /\ Goto(t, "unlockEnd")
            /\ UNCHANGED <<mutex, alloc, placed, useMutex, binding, made, global>> /\ Unmoved

\* ... or p_ydb_exit, in none.  Its library stays loaded.
Exit(t) ==
    /\ stage[t] = "exit"
    /\ IF binding \notin Usable THEN Crash
       ELSE /\ library' = Ended
            /\ Goto(t, "unallocate")
            /\ UNCHANGED <<mutex, alloc, placed, useMutex, binding, made, global>> /\ Unmoved

\* mg_dso_unload, outside the section.  Where there is nothing to unload it
\* passes NULL to dlclose, which crashes with some C libraries and returns an
\* error with others.
Unloaded(b) == [library EXCEPT ![b] = IF @ = "empty" THEN @ ELSE "closed"]

Unload(t) ==
    /\ stage[t] = "unload"
    /\ \/ binding # NoBinding /\ binding \notin Usable /\ Crash
       \/ /\ library' = IF binding = NoBinding THEN library ELSE Unloaded(binding)
          /\ Goto(t, "unallocate")
          /\ UNCHANGED <<mutex, alloc, placed, useMutex, binding, made, global>> /\ Unmoved

\* A request whose call has failed still has its error page to write, and
\* keeps the record it has released.
Unallocate(t) ==
    /\ stage[t] = "unallocate"
    /\ alloc' = FALSE
    /\ Goto(t, IF failed[t] THEN "respond" ELSE "idle")
    /\ failed' = [failed EXCEPT ![t] = FALSE]
    /\ UNCHANGED <<dbtype, mutex, placed, useMutex, binding, library, made, global,
                   worker, calm>>

---------------------------------------------------------------------------
\* mg_worker_exit, with no request under way: the record is released as
\* above, and the API is ended once more through the global pointer.
WorkerExit ==
    /\ \A t \in Threads : stage[t] = "idle"
    /\ library' = IF binding = NoBinding THEN library
                  ELSE IF dbtype = "isc" THEN Unloaded(binding) ELSE Ended
    /\ worker' \in IF \/ placed /\ binding = NoBinding
                      \/ dbtype = "isc" /\ global # NoBinding /\ library'[global] = "closed"
                   THEN {"crashed"}
                   ELSE IF dbtype = "isc" /\ binding # NoBinding /\ binding \notin Usable
                   THEN {"crashed", "down"} ELSE {"down"}
    /\ global' = NoBinding
    /\ UNCHANGED <<dbtype, mutex, alloc, placed, useMutex, binding, made, stage, failed, calm>>

Arrive(t) == Share(t) \/ Claim(t)

Open(t) ==
    Prepare(t) \/ Mark(t) \/ Allocate(t) \/ Load(t) \/ Attach(t) \/ ChangeNamespace(t)
    \/ Bind(t) \/ Opened(t) \/ Abandon(t)

Close(t) == Release(t) \/ End(t) \/ Exit(t) \/ Unload(t) \/ Unallocate(t)

Serve(t) == Lock(t) \/ Unlock(t) \/ Open(t) \/ Call(t) \/ Answer(t) \/ Respond(t) \/ Close(t)

Next ==
    /\ worker = "up"
    /\ WorkerExit \/ \E t \in Threads : Arrive(t) \/ Serve(t)

\* A thread with a request runs; pthread_mutex_lock gives no turn to anybody.
Spec == Init /\ [][Next]_vars /\ \A t \in Threads : WF_vars(worker = "up" /\ Serve(t))

---------------------------------------------------------------------------
\* The API is entered, other than by p_ydb_exit.
InApi(t) == stage[t] \in {"allocate", "load", "attach", "lockSpace", "space", "unlockSpace",
                          "bind", "call", "answer", "end"}

\* Once the binding has been opened quietly, the calls of one request to the
\* API are not mixed with those of another, nor with the opening of a binding,
\* nor with p_CacheEnd, whatever fails.
SoleCaller ==
    calm /\ worker = "up" => \A t, u \in Threads : InApi(t) /\ InApi(u) => t = u

\* After the binding has been opened quietly, no request makes the worker
\* process crash until one, having failed, has closed a binding.
SafeUntilClosed ==
    [][calm /\ worker = "up" /\ worker' = "crashed" =>
         \/ \A t \in Threads : stage[t] = "idle"
         \/ \E b \in Bindings : library[b] \in {"ended", "closed"}]_vars

\* After the binding has been opened quietly, no request makes the worker
\* process crash (README, v2.1.10: errors "will now be handled gracefully").
ServedSafely ==
    [][calm /\ worker = "up" /\ worker' = "crashed" => \A t \in Threads : stage[t] = "idle"]_vars

\* The mutex of the record is not kept: what holds it gives it back.
MutexGivenBack ==
    calm /\ holder # NoThread ~> holder = NoThread \/ worker # "up"

\* The bindings are closed when the worker process ends.
ExitsGracefully == [][WorkerExit => worker' # "crashed"]_vars

============================================================================
