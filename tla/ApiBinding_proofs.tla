-------------------------- MODULE ApiBinding_proofs --------------------------
(***************************************************************************)
(* Requests that share the API binding of a record, for any number of them.*)
(***************************************************************************)
EXTENDS ApiBinding, TLAPS

LockStages == {"lockOpen", "lockSpace", "lockCall", "lockEnd"}
UnlockStages == {"unlockOpen", "unlockSpace", "unlockCall", "unlockEnd"}

LEMMA LockDomain ==
    /\ DOMAIN AfterLock = LockStages
    /\ AfterLock["lockOpen"] = "allocate" /\ AfterLock["lockSpace"] = "space"
    /\ AfterLock["lockCall"] = "call" /\ AfterLock["lockEnd"] = "end"
BY DEF AfterLock, LockStages

---------------------------------------------------------------------------
(* Types.                                                                  *)

\* The recorded owner has taken the mutex more often than it is stacked; an
\* unlock by a thread that has not locked cannot change that.
OwnerCounted == \A t \in Threads : thid = t => at[t] = "outside" /\ stack < nesting[t]
TypeInv == TypeOK /\ OwnerCounted

LEMMA LockType ==
    ASSUME TypeInv, NEW t \in Threads, Lock(t)
    PROVE  TypeInv'
<1> USE ApiBindingAssumption DEF TypeInv, TypeOK, Mutex!TypeOK, OwnerCounted
<1>1. /\ alloc' = alloc /\ placed' = placed /\ useMutex' = useMutex
      /\ binding' = binding /\ library' = library /\ made' = made /\ global' = global
      /\ failed' = failed /\ worker' = worker /\ calm' = calm /\ dbtype' = dbtype
  BY DEF Lock, record, Unmoved
<1>2. stage' \in [Threads -> Stages]
  <2>1. stage[t] \in DOMAIN AfterLock => AfterLock[stage[t]] \in Stages
    BY LockDomain DEF LockStages, Stages
  <2> QED BY <2>1 DEF Lock, Goto
<1>3. Mutex!TypeOK' /\ OwnerCounted'
  <2>1. CASE Mutex!Wait(t)
    BY <2>1 DEF Mutex!Wait, Mutex!Move
  <2>2. CASE Mutex!Acquire(t)
    BY <2>2 DEF Mutex!Acquire, Mutex!Move
  <2>3. CASE Mutex!Relock(t)
    BY <2>3 DEF Mutex!Relock
  <2>4. CASE Mutex!Sign(t)
    BY <2>4 DEF Mutex!Sign, Mutex!Move
  <2>5. CASE UNCHANGED mutex
    BY <2>5 DEF mutex
  <2> QED BY <2>1, <2>2, <2>3, <2>4, <2>5 DEF Lock
<1> QED BY <1>1, <1>2, <1>3

LEMMA UnlockType ==
    ASSUME TypeInv, NEW t \in Threads, Unlock(t)
    PROVE  TypeInv'
<1> USE ApiBindingAssumption DEF TypeInv, TypeOK, Mutex!TypeOK, OwnerCounted
<1>1. /\ alloc' = alloc /\ placed' = placed /\ useMutex' = useMutex
      /\ binding' = binding /\ library' = library /\ made' = made /\ global' = global
      /\ failed' = failed /\ worker' = worker /\ calm' = calm /\ dbtype' = dbtype
  BY DEF Unlock, record, Unmoved
<1>2. stage' \in [Threads -> Stages]
  <2>1. stage[t] \in UnlockStages => AfterUnlock(t) \in Stages
    BY DEF UnlockStages, AfterUnlock, Stages
  <2> QED BY <2>1 DEF Unlock, Goto, UnlockStages
<1>3. Mutex!TypeOK' /\ OwnerCounted'
  <2>1. CASE Mutex!Unstack(t)
    BY <2>1 DEF Mutex!Unstack, Mutex!Nested
  <2>2. CASE Mutex!Erase(t)
    BY <2>2 DEF Mutex!Erase, Mutex!Move
  <2>3. CASE Mutex!Release(t)
    BY <2>3 DEF Mutex!Release, Mutex!Move
  <2>4. CASE UNCHANGED mutex
    BY <2>4 DEF mutex
  <2> QED BY <2>1, <2>2, <2>3, <2>4 DEF Unlock
<1> QED BY <1>1, <1>2, <1>3

\* The steps of a request outside mg_mutex_lock and mg_mutex_unlock.
Plain(t) ==
    Arrive(t) \/ Open(t) \/ Call(t) \/ Answer(t) \/ Respond(t) \/ Close(t)

LEMMA PlainMutex ==
    ASSUME NEW t \in Threads, Plain(t)
    PROVE  UNCHANGED mutex
BY DEF Plain, Arrive, Share, Claim, Open, Prepare, Mark, Allocate, OpenFails, Load, LoadFails,
       Attach, ChangeNamespace, Bind, Opened, Abandon, Call, Answer, Respond, Close, Release,
       End, Exit, Unload, Unallocate, Crash

LEMMA MutexTyped ==
    ASSUME TypeInv, UNCHANGED mutex
    PROVE  Mutex!TypeOK' /\ OwnerCounted'
BY DEF TypeInv, TypeOK, Mutex!TypeOK, OwnerCounted, mutex

RecordTyped ==
    /\ alloc \in BOOLEAN /\ placed \in BOOLEAN /\ useMutex \in BOOLEAN
    /\ binding \in Bindings \cup {NoBinding}
    /\ library \in [Bindings -> LibraryStates]
    /\ made \in 0..MaxBindings
    /\ global \in Bindings \cup {NoBinding}

RequestsTyped ==
    /\ dbtype \in {"isc", "ydb"}
    /\ stage \in [Threads -> Stages]
    /\ failed \in [Threads -> BOOLEAN]
    /\ worker \in {"up", "down", "crashed"}
    /\ calm \in BOOLEAN

LEMMA PlainRequests ==
    ASSUME TypeInv, NEW t \in Threads, Plain(t)
    PROVE  RequestsTyped'
<1> USE DEF TypeInv, TypeOK, RequestsTyped, Stages, Goto, Unmoved
<1>1. CASE Arrive(t)
  BY <1>1 DEF Arrive, Share, Claim
<1>2. CASE Prepare(t) \/ Mark(t) \/ ChangeNamespace(t) \/ Bind(t) \/ Abandon(t)
  BY <1>2 DEF Prepare, Mark, ChangeNamespace, Bind, Abandon, Crash
<1>3. CASE Allocate(t)
  BY <1>3 DEF Allocate, OpenFails
<1>4. CASE Load(t) \/ Attach(t)
  BY <1>4 DEF Load, LoadFails, Attach, OpenFails, Crash
<1>5. CASE Opened(t)
  BY <1>5 DEF Opened
<1>6. CASE Call(t) \/ Answer(t) \/ Respond(t)
  BY <1>6 DEF Call, Answer, Respond, Crash
<1>7. CASE Close(t)
  BY <1>7, ApiBindingAssumption DEF Close, Release, End, Exit, Unload, Unallocate, Crash, AfterEnd
<1> QED BY <1>1, <1>2, <1>3, <1>4, <1>5, <1>6, <1>7 DEF Plain, Open

LEMMA PlainRecord ==
    ASSUME TypeInv, NEW t \in Threads, Plain(t)
    PROVE  RecordTyped'
<1> USE ApiBindingAssumption
    DEF TypeInv, TypeOK, RecordTyped, Bindings, NoBinding, LibraryStates, record
<1>1. CASE Arrive(t)
  BY <1>1 DEF Arrive, Share, Claim
<1>2. CASE Prepare(t) \/ Mark(t) \/ ChangeNamespace(t) \/ Abandon(t) \/ Opened(t)
  BY <1>2 DEF Prepare, Mark, ChangeNamespace, Abandon, Opened, Crash
<1>3. CASE Allocate(t)
  <2>1. CASE OpenFails(t)
    BY <2>1 DEF OpenFails
  <2>2. CASE UNCHANGED record
    BY <2>2
  <2>3. CASE /\ made < MaxBindings /\ made' = made + 1 /\ binding' = made + 1
             /\ UNCHANGED <<alloc, placed, useMutex, library, global>>
    BY <2>3
  <2> QED BY <1>3, <2>1, <2>2, <2>3 DEF Allocate
<1>4. CASE Load(t)
  BY <1>4 DEF Load, LoadFails, OpenFails, Crash
<1>5. CASE Attach(t)
  BY <1>5 DEF Attach, OpenFails, Crash
<1>6. CASE Bind(t)
  BY <1>6 DEF Bind, Usable, Crash
<1>7. CASE Call(t) \/ Answer(t) \/ Respond(t)
  BY <1>7 DEF Call, Answer, Respond, Crash
<1>8. CASE Close(t)
  BY <1>8 DEF Close, Release, End, Exit, Ended, Unload, Unloaded, Unallocate, Crash
<1> QED BY <1>1, <1>2, <1>3, <1>4, <1>5, <1>6, <1>7, <1>8 DEF Plain, Open

LEMMA PlainType ==
    ASSUME TypeInv, NEW t \in Threads, Plain(t)
    PROVE  TypeInv'
BY PlainMutex, MutexTyped, PlainRequests, PlainRecord
   DEF TypeInv, TypeOK, RecordTyped, RequestsTyped

LEMMA ExitType == TypeInv /\ WorkerExit => TypeInv'
<1> SUFFICES ASSUME TypeInv, WorkerExit PROVE TypeInv'
  OBVIOUS
<1>1. Mutex!TypeOK' /\ OwnerCounted'
  BY MutexTyped DEF WorkerExit
<1>2. library' \in [Bindings -> LibraryStates]
  BY DEF TypeInv, TypeOK, WorkerExit, Ended, Unloaded, LibraryStates
<1>3. worker' \in {"up", "down", "crashed"}
  BY DEF WorkerExit
<1> QED BY <1>1, <1>2, <1>3 DEF TypeInv, TypeOK, WorkerExit

LEMMA InitType == Init => TypeInv
<1> SUFFICES ASSUME Init PROVE TypeInv
  OBVIOUS
<1>1. Mutex!TypeOK /\ OwnerCounted
  BY ApiBindingAssumption DEF Init, Mutex!Init, Mutex!TypeOK, OwnerCounted
<1>2. RecordTyped
  <2>1. alloc \in BOOLEAN /\ placed \in BOOLEAN /\ useMutex \in BOOLEAN
    BY DEF Init
  <2>2. library \in [Bindings -> LibraryStates]
    BY DEF Init, LibraryStates
  <2>3. /\ binding \in Bindings \cup {NoBinding} /\ global \in Bindings \cup {NoBinding}
        /\ made \in 0..MaxBindings
    BY ApiBindingAssumption DEF Init
  <2> QED BY <2>1, <2>2, <2>3 DEF RecordTyped
<1>3. RequestsTyped
  BY DEF Init, RequestsTyped, Stages
<1> QED BY <1>1, <1>2, <1>3 DEF TypeInv, TypeOK, RecordTyped, RequestsTyped

LEMMA NextCases ==
    ASSUME Next
    PROVE  WorkerExit \/ \E t \in Threads : Lock(t) \/ Unlock(t) \/ Plain(t)
BY DEF Next, Serve, Plain

LEMMA TypeInvariant == Spec => []TypeInv
<1>1. TypeInv /\ [Next]_vars => TypeInv'
  <2>1. TypeInv /\ UNCHANGED vars => TypeInv'
    BY DEF TypeInv, TypeOK, Mutex!TypeOK, OwnerCounted, vars
  <2> QED BY <2>1, NextCases, LockType, UnlockType, PlainType, ExitType
<1> QED BY InitType, <1>1, PTL DEF Spec

\* Types are preserved, whoever locks, unlocks, opens and closes.
THEOREM TypeCorrect == Spec => []TypeOK
BY TypeInvariant, PTL DEF TypeInv

---------------------------------------------------------------------------
(* The section of the record.                                              *)

\* The stages inside the section that DBX_LOCK begins, and those inside the
\* one that isc_change_namespace begins within it.
Outer == {"allocate", "load", "attach", "lockSpace", "bind", "unlockOpen",
          "call", "answer", "unlockCall", "end", "unlockEnd"}
Inner == {"space", "unlockSpace"}
Section == Outer \cup Inner

\* A request that opens the binding has put the mutex of the record to use.
Opening == {"lockOpen", "allocate", "load", "attach", "lockSpace", "space", "unlockSpace",
            "bind", "unlockOpen", "opened"}

\* What is true whatever the threads that have not locked do to the mutex:
\* no trace of a request is left in it when the request is over.
TraceInv ==
    \A t \in Threads :
        /\ at[t] \in {"waiting", "acquired"} => stage[t] \in LockStages
        /\ at[t] = "erased" => stage[t] \in UnlockStages
        /\ stage[t] \in Opening => useMutex
        /\ at[t] # "outside" \/ holder = t \/ thid = t => useMutex
        /\ thid = t => \/ stage[t] \in Outer /\ stack = 0
                       \/ stage[t] \in Inner /\ stack <= 1
        /\ holder = t => at[t] = "acquired" \/ stage[t] \in Section

\* Once the binding has been opened quietly, a request is in its section only
\* while it holds the mutex.
CalmInv ==
    calm =>
      /\ useMutex
      /\ \A t \in Threads :
            /\ at[t] = "waiting" => stage[t] # "lockSpace"
            /\ at[t] = "acquired" => holder = t /\ stage[t] # "lockSpace"
            /\ at[t] = "erased" => holder = t /\ stage[t] # "unlockSpace"
            /\ stage[t] \in Section /\ at[t] = "outside" =>
                  holder = t /\ thid = t /\ (stage[t] \in Inner => stack = 1)

SectionInv == TypeInv /\ TraceInv /\ CalmInv

LEMMA InitSection == Init => SectionInv
<1> SUFFICES ASSUME Init PROVE TraceInv /\ CalmInv
  BY InitType DEF SectionInv
<1> QED BY ApiBindingAssumption
        DEF Init, Mutex!Init, TraceInv, CalmInv, Opening, Section, Outer, Inner

LEMMA LockSection ==
    ASSUME SectionInv, NEW t \in Threads, Lock(t)
    PROVE  TraceInv' /\ CalmInv'
<1> USE ApiBindingAssumption
    DEF SectionInv, TypeInv, TypeOK, Mutex!TypeOK, OwnerCounted, TraceInv, CalmInv
<1>1. stage[t] \in LockStages /\ useMutex' = useMutex /\ calm' = calm
  BY LockDomain DEF Lock, record, Unmoved
<1>2. CASE MutexUsed(t) /\ Mutex!Wait(t) /\ UNCHANGED stage
  <2>1. useMutex
    BY <1>2, <1>1 DEF MutexUsed, Unconditional, Opening, LockStages
  <2>2. calm => stage[t] # "lockSpace"
    BY <1>2 DEF Mutex!Wait, Mutex!Move, Section, Outer
  <2> QED BY <1>1, <1>2, <2>1, <2>2 DEF Mutex!Wait, Mutex!Move
<1>3. CASE MutexUsed(t) /\ Mutex!Acquire(t) /\ UNCHANGED stage
  BY <1>1, <1>3 DEF Mutex!Acquire, Mutex!Move
<1>4. CASE Mutex!Relock(t) /\ Goto(t, AfterLock[stage[t]])
  <2>1. stage[t] = "lockSpace" /\ stack = 0 /\ useMutex
    BY <1>1, <1>4 DEF Mutex!Relock, LockStages, Outer, Inner
  <2>2. stage' = [stage EXCEPT ![t] = "space"]
    BY <1>4, <2>1, LockDomain DEF Goto
  <2>3. stage[t] \in Outer /\ "space" \in Inner /\ "space" \notin Outer /\ stack' = 1
    BY <1>4, <2>1 DEF Outer, Inner, Mutex!Relock
  <2> QED BY <1>1, <1>4, <2>1, <2>2, <2>3 DEF Mutex!Relock, Section, Opening
<1>5. CASE Mutex!Sign(t) /\ Goto(t, AfterLock[stage[t]])
  <2>1. PICK s \in {"allocate", "space", "call", "end"} :
             /\ stage' = [stage EXCEPT ![t] = s]
             /\ s = "space" => stage[t] = "lockSpace"
    BY <1>1, <1>5, LockDomain DEF Goto, LockStages
  <2>2. /\ at[t] = "acquired" /\ at' = [at EXCEPT ![t] = "outside"] /\ holder' = holder
        /\ thid' = t /\ stack' = 0 /\ useMutex
    BY <1>5 DEF Mutex!Sign, Mutex!Move
  <2>3. s \in Section /\ (s \in Inner => s = "space") /\ (s \notin Inner => s \in Outer)
    BY DEF Section, Outer, Inner
  <2>4. TraceInv'
    BY <1>1, <2>1, <2>2, <2>3
  <2>5. CalmInv'
    BY <1>1, <2>1, <2>2, <2>3
  <2> QED BY <2>4, <2>5
<1>6. CASE ~MutexUsed(t) /\ Goto(t, AfterLock[stage[t]]) /\ UNCHANGED mutex
  <2>1. ~useMutex /\ stage[t] \in {"lockCall", "lockEnd"}
    BY <1>1, <1>6 DEF MutexUsed, Opening, LockStages
  <2>2. PICK s \in {"call", "end"} : stage' = [stage EXCEPT ![t] = s]
    BY <1>6, <2>1, LockDomain DEF Goto
  <2>3. s \notin Opening
    BY DEF Opening
  <2> QED BY <1>1, <1>6, <2>1, <2>2, <2>3 DEF mutex
<1> QED BY <1>2, <1>3, <1>4, <1>5, <1>6 DEF Lock

LEMMA UnlockSection ==
    ASSUME SectionInv, NEW t \in Threads, Unlock(t)
    PROVE  TraceInv' /\ CalmInv'
<1> USE ApiBindingAssumption
    DEF SectionInv, TypeInv, TypeOK, Mutex!TypeOK, OwnerCounted, TraceInv, CalmInv
<1>1. stage[t] \in UnlockStages /\ useMutex' = useMutex /\ calm' = calm
  BY DEF Unlock, record, Unmoved, UnlockStages
<1>2. PICK s \in {"opened", "bind", "release", "respond", "unload"} :
           /\ AfterUnlock(t) = s
           /\ s = "bind" <=> stage[t] = "unlockSpace"
           /\ s = "opened" <=> stage[t] = "unlockOpen"
  BY <1>1 DEF AfterUnlock, UnlockStages
<1>3. /\ stage[t] \in Section
      /\ stage[t] \in Inner <=> stage[t] = "unlockSpace"
      /\ stage[t] \in Outer <=> stage[t] # "unlockSpace"
      /\ s \in Section => s = "bind" /\ s \in Outer /\ s \notin Inner
      /\ s \in Opening => stage[t] \in Opening
  BY <1>1, <1>2 DEF Section, Outer, Inner, UnlockStages, Opening
<1>4. CASE MutexUsed(t) /\ Mutex!Erase(t) /\ UNCHANGED stage
  <2>1. useMutex
    BY <1>4, <1>1 DEF MutexUsed, Unconditional, Opening
  <2>2. /\ at[t] = "outside" /\ at' = [at EXCEPT ![t] = "erased"] /\ ~Mutex!Nested(t)
        /\ thid' = NoThread /\ holder' = holder
    BY <1>4 DEF Mutex!Erase, Mutex!Move
  <2>3. calm => stage[t] # "unlockSpace" /\ holder = t
    BY <2>2, <1>3 DEF Mutex!Nested
  <2>4. TraceInv'
    BY <1>1, <1>4, <2>1, <2>2
  <2>5. CalmInv'
    BY <1>1, <1>4, <2>2, <2>3
  <2> QED BY <2>4, <2>5
<1>5. CASE Mutex!Unstack(t) /\ Goto(t, AfterUnlock(t))
  <2>1. thid = t /\ stage[t] = "unlockSpace" /\ stack = 1 /\ stack' = 0
    BY <1>3, <1>5 DEF Mutex!Unstack, Mutex!Nested
  <2>2. stage' = [stage EXCEPT ![t] = "bind"] /\ UNCHANGED <<holder, thid, at>>
    BY <1>2, <1>5, <2>1 DEF Goto, Mutex!Unstack
  <2>3. "bind" \in Section /\ "bind" \in Outer /\ "bind" \notin Inner
    BY DEF Section, Outer, Inner
  <2> QED BY <1>1, <1>3, <2>1, <2>2, <2>3
<1>6. CASE Mutex!Release(t) /\ Goto(t, AfterUnlock(t))
  <2>1. /\ at[t] = "erased" /\ at' = [at EXCEPT ![t] = "outside"]
        /\ thid' = thid /\ stack' = stack /\ thid # t
        /\ holder' = NoThread \/ (holder # t /\ holder' = holder)
    BY <1>6 DEF Mutex!Release, Mutex!Move
  <2>2. stage' = [stage EXCEPT ![t] = s]
    BY <1>2, <1>6 DEF Goto
  <2>3. TraceInv'
    BY <1>1, <1>3, <2>1, <2>2 DEF LockStages
  <2>4. CalmInv'
    BY <1>1, <1>2, <1>3, <2>1, <2>2
  <2> QED BY <2>3, <2>4
<1>7. CASE ~MutexUsed(t) /\ Goto(t, AfterUnlock(t)) /\ UNCHANGED mutex
  <2>1. ~useMutex /\ stage' = [stage EXCEPT ![t] = s] /\ s \notin Opening
    BY <1>1, <1>2, <1>3, <1>7 DEF MutexUsed, Goto
  <2> QED BY <1>1, <1>7, <2>1 DEF mutex
<1> QED BY <1>4, <1>5, <1>6, <1>7 DEF Unlock

\* A step within a section, or outside of any, that leaves the mutex alone.
LEMMA MoveSection ==
    ASSUME SectionInv, NEW t \in Threads, NEW s,
           stage[t] \notin LockStages \cup UnlockStages,
           stage' = [stage EXCEPT ![t] = s],
           UNCHANGED mutex,
           useMutex => useMutex', s \in Opening => useMutex',
           s \in Inner <=> stage[t] \in Inner,
           s \in Outer <=> stage[t] \in Outer,
           calm' = calm
    PROVE  TraceInv' /\ CalmInv'
<1> USE DEF SectionInv, TypeInv, TypeOK, Mutex!TypeOK, TraceInv, CalmInv, Section
<1>1. at[t] = "outside" /\ UNCHANGED <<holder, thid, stack, at>>
  BY DEF mutex
<1>2. TraceInv'
  BY <1>1
<1>3. CalmInv'
  BY <1>1
<1> QED BY <1>2, <1>3

\* The first quiet opening: there is no other request, and no trace of one.
LEMMA OpenedSection ==
    ASSUME SectionInv, NEW t \in Threads, Opened(t)
    PROVE  TraceInv' /\ CalmInv'
<1> USE DEF SectionInv, TypeInv, TypeOK, Mutex!TypeOK, TraceInv, CalmInv
<1>1. PICK s \in {"lockCall", "abandon"} : stage' = [stage EXCEPT ![t] = s]
  BY DEF Opened, Goto
<1>2. /\ stage[t] = "opened" /\ useMutex /\ useMutex' = useMutex
      /\ UNCHANGED <<holder, thid, stack, at>>
      /\ calm' => calm \/ \A u \in Threads \ {t} : stage[u] = "idle"
  BY DEF Opened, mutex, record, Opening
<1>3. /\ s \notin Section /\ s \notin Opening /\ s \notin Outer /\ s \notin Inner
      /\ stage[t] \notin Section /\ stage[t] \notin LockStages \cup UnlockStages
      /\ stage[t] \notin Outer /\ stage[t] \notin Inner
      /\ "idle" \notin Section /\ "idle" \notin LockStages \cup UnlockStages
  BY <1>2 DEF Section, Outer, Inner, Opening, LockStages, UnlockStages
<1>4. TraceInv'
  BY <1>1, <1>2, <1>3
<1>5. CalmInv'
  BY <1>1, <1>2, <1>3
<1> QED BY <1>4, <1>5

LEMMA CrashSection ==
    ASSUME SectionInv, UNCHANGED <<mutex, useMutex, stage, calm>>
    PROVE  TraceInv' /\ CalmInv'
BY DEF SectionInv, TraceInv, CalmInv, mutex

LEMMA PlainSection ==
    ASSUME SectionInv, NEW t \in Threads, Plain(t)
    PROVE  TraceInv' /\ CalmInv'
<1> DEFINE Moves(s) ==
        /\ stage[t] \notin LockStages \cup UnlockStages
        /\ stage' = [stage EXCEPT ![t] = s]
        /\ useMutex => useMutex'
        /\ s \in Opening => useMutex'
        /\ s \in Inner <=> stage[t] \in Inner
        /\ s \in Outer <=> stage[t] \in Outer
        /\ calm' = calm
<1> DEFINE Stays == UNCHANGED <<mutex, useMutex, stage, calm>>
<1> USE DEF Goto, Unmoved, Opening, Inner, Outer, LockStages, UnlockStages, record, Crash
<1>1. stage[t] \in Opening => useMutex
  BY DEF SectionInv, TraceInv
<1>2. CASE Arrive(t)
  BY <1>2, MoveSection, PlainMutex DEF Arrive, Share, Claim
<1>3. CASE Prepare(t)
  BY <1>3, MoveSection, PlainMutex DEF Prepare
<1>4. CASE Mark(t)
  BY <1>4, MoveSection, PlainMutex DEF Mark
<1>5. CASE Allocate(t)
  <2>1. Moves("load") \/ Moves("unlockOpen")
    BY <1>1, <1>5 DEF Allocate, OpenFails
  <2> QED BY <2>1, MoveSection, PlainMutex
<1>6. CASE Load(t)
  <2>1. Moves("attach") \/ Moves("unlockOpen") \/ Stays
    BY <1>1, <1>6 DEF Load, LoadFails, OpenFails
  <2> QED BY <2>1, MoveSection, CrashSection, PlainMutex
<1>7. CASE Attach(t)
  <2>1. Moves("lockSpace") \/ Moves("bind") \/ Moves("unlockOpen") \/ Stays
    BY <1>1, <1>7 DEF Attach, OpenFails
  <2> QED BY <2>1, MoveSection, CrashSection, PlainMutex
<1>8. CASE ChangeNamespace(t)
  <2>1. Moves("unlockSpace") \/ Stays
    BY <1>1, <1>8 DEF ChangeNamespace
  <2> QED BY <2>1, MoveSection, CrashSection, PlainMutex
<1>9. CASE Bind(t)
  <2>1. Moves("unlockOpen") \/ Stays
    BY <1>1, <1>9 DEF Bind
  <2> QED BY <2>1, MoveSection, CrashSection, PlainMutex
<1>10. CASE Opened(t)
  BY <1>10, OpenedSection
<1>11. CASE Abandon(t)
  BY <1>11, MoveSection, PlainMutex DEF Abandon
<1>12. CASE Call(t)
  <2>1. Moves("answer") \/ Stays
    BY <1>1, <1>12 DEF Call
  <2> QED BY <2>1, MoveSection, CrashSection, PlainMutex
<1>13. CASE Answer(t)
  <2>1. Moves("unlockCall") \/ Stays
    BY <1>1, <1>13 DEF Answer
  <2> QED BY <2>1, MoveSection, CrashSection, PlainMutex
<1>14. CASE Respond(t)
  <2>1. Moves("idle") \/ Moves("release")
    BY <1>1, <1>14 DEF Respond
  <2> QED BY <2>1, MoveSection, PlainMutex
<1>15. CASE Release(t)
  <2>1. Moves("unload") \/ Moves("unallocate") \/ Moves("lockEnd") \/ Moves("exit") \/ Stays
    BY <1>1, <1>15 DEF Release, AfterEnd
  <2> QED BY <2>1, MoveSection, CrashSection, PlainMutex
<1>16. CASE End(t)
  <2>1. Moves("unlockEnd") \/ Stays
    BY <1>1, <1>16 DEF End
  <2> QED BY <2>1, MoveSection, CrashSection, PlainMutex
<1>17. CASE Unload(t)
  <2>1. Moves("unallocate") \/ Stays
    BY <1>1, <1>17 DEF Unload
  <2> QED BY <2>1, MoveSection, CrashSection, PlainMutex
<1>18. CASE Exit(t)
  <2>1. Moves("unallocate") \/ Stays
    BY <1>1, <1>18 DEF Exit
  <2> QED BY <2>1, MoveSection, CrashSection, PlainMutex
<1>19. CASE Unallocate(t)
  <2>1. Moves("respond") \/ Moves("idle")
    BY <1>1, <1>19 DEF Unallocate
  <2> QED BY <2>1, MoveSection, PlainMutex
<1> QED BY <1>2, <1>3, <1>4, <1>5, <1>6, <1>7, <1>8, <1>9, <1>10, <1>11, <1>12, <1>13, <1>14,
           <1>15, <1>16, <1>17, <1>18, <1>19 DEF Plain, Open, Close

LEMMA SectionInvariant == Spec => []SectionInv
<1>1. SectionInv /\ [Next]_vars => SectionInv'
  <2> SUFFICES ASSUME SectionInv, [Next]_vars PROVE SectionInv'
    OBVIOUS
  <2>1. CASE UNCHANGED vars
    BY <2>1 DEF SectionInv, TypeInv, TypeOK, Mutex!TypeOK, OwnerCounted, TraceInv, CalmInv, vars
  <2>2. CASE WorkerExit
    BY <2>2, ExitType, CrashSection DEF SectionInv, WorkerExit
  <2>3. ASSUME NEW t \in Threads, Lock(t) \/ Unlock(t) \/ Plain(t) PROVE SectionInv'
    BY <2>3, LockType, UnlockType, PlainType, LockSection, UnlockSection, PlainSection
       DEF SectionInv
  <2> QED BY <2>1, <2>2, <2>3, NextCases
<1> QED BY InitSection, <1>1, PTL DEF Spec

\* The calls of concurrent requests to the API of a database are not mixed,
\* for any number of requests, whatever fails, once the binding has been opened
\* quietly.
THEOREM CallsSerialised == Spec => []SoleCaller
<1>1. SectionInv => SoleCaller
  <2> SUFFICES ASSUME SectionInv, calm, NEW t \in Threads, InApi(t)
               PROVE  holder = t
    BY DEF SoleCaller
  <2>1. /\ stage[t] \in Section
        /\ stage[t] \in LockStages => stage[t] = "lockSpace"
        /\ stage[t] \in UnlockStages => stage[t] = "unlockSpace"
    BY DEF InApi, Section, Outer, Inner, LockStages, UnlockStages
  <2>2. at[t] \in {"outside", "waiting", "acquired", "erased"}
    BY DEF SectionInv, TypeInv, TypeOK, Mutex!TypeOK
  <2> QED BY <2>1, <2>2 DEF SectionInv, TraceInv, CalmInv
<1> QED BY SectionInvariant, <1>1, PTL
---------------------------------------------------------------------------
(* No crash before a binding is closed.                                    *)

\* The stages at which a request opens the binding, those after it has reset the
\* pointer of the record, and those of a request that finds it open.
Midway == {"prepare", "mark", "lockOpen", "allocate", "load", "attach", "lockSpace", "space",
           "unlockSpace", "bind"}
Resetting == Midway \ {"prepare"}
Serving == {"idle", "lockCall", "call", "answer", "unlockCall", "respond", "release", "lockEnd",
            "end", "exit"}

Attached == binding # NoBinding /\ library[binding] = "attached"
ClosedOnes == {b \in Bindings : library[b] \in {"ended", "closed"}}

\* A binding that was closed may be loaded anew by a request that opens the record
\* while another one closes it; not when it is no longer that of the record, or
\* nobody is opening.
Gone == \E b \in ClosedOnes :
            b <= made /\ (binding # b \/ \A u \in Threads : stage[u] \notin Resetting)

\* What the library holds is what was made; a record that is allocated is attached
\* or about to be; and after the quiet opening, until a binding is closed for
\* good, each request finds it attached.
BoundInv ==
    /\ binding <= made /\ \A b \in Bindings : library[b] # "empty" => b <= made
    /\ alloc /\ ClosedOnes = {} => Attached \/ \E u \in Threads : stage[u] \in Midway
    /\ calm => \/ Gone
               \/ /\ alloc /\ Attached /\ ClosedOnes = {}
                  /\ \A u \in Threads : stage[u] \in Serving

SafeInv == TypeInv /\ BoundInv

\* What SafeUntilClosed says of a step.
Graceful ==
    calm /\ worker = "up" /\ worker' = "crashed" =>
        (\A t \in Threads : stage[t] = "idle") \/ ClosedOnes # {}

\* A step that leaves the record alone moves the request on, and neither into the
\* opening nor out of it before the binding is attached or given up.
Moves(t, to) == UNCHANGED <<record, calm>> /\ Goto(t, to)

LEMMA MoveSafe ==
    ASSUME SafeInv, NEW t \in Threads, NEW to, Moves(t, to),
           stage[t] \in Midway => to \in Midway,
           to \in Resetting => stage[t] \in Resetting,
           stage[t] \in Serving => to \in Serving \/ ClosedOnes # {}
    PROVE  BoundInv'
<1>1. stage \in [Threads -> Stages] /\ stage' = [stage EXCEPT ![t] = to]
  BY DEF SafeInv, TypeInv, TypeOK, Moves, Goto
<1>2. /\ alloc' = alloc /\ binding' = binding /\ library' = library /\ made' = made
      /\ calm' = calm
  BY DEF Moves, record
<1>3. ClosedOnes' = ClosedOnes /\ Attached' = Attached
  BY <1>2 DEF ClosedOnes, Attached
<1>4. (\E u \in Threads : stage[u] \in Midway) => \E u \in Threads : stage'[u] \in Midway
  BY <1>1
<1>5. Gone => Gone'
  BY <1>1, <1>2, <1>3 DEF Gone
<1>6. ClosedOnes = {} /\ (\A u \in Threads : stage[u] \in Serving)
         => \A u \in Threads : stage'[u] \in Serving
  BY <1>1
<1> QED BY <1>2, <1>3, <1>4, <1>5, <1>6 DEF SafeInv, BoundInv

LEMMA StillSafe ==
    ASSUME SafeInv, UNCHANGED <<record, calm, stage>>
    PROVE  BoundInv'
<1>1. /\ alloc' = alloc /\ binding' = binding /\ library' = library /\ made' = made
      /\ calm' = calm /\ stage' = stage
  BY DEF record
<1> QED BY <1>1 DEF SafeInv, BoundInv, Gone, ClosedOnes, Attached

\* The steps within a section's lock and unlock, and the calls to the API.
LEMMA SectionSafe ==
    ASSUME SafeInv, NEW t \in Threads, Lock(t) \/ Unlock(t)
    PROVE  BoundInv'
<1>1. UNCHANGED <<record, calm>>
  BY DEF Lock, Unlock, Unmoved
<1>2. CASE UNCHANGED stage
  BY <1>1, <1>2, StillSafe
<1>3. CASE stage[t] \in LockStages /\ Goto(t, AfterLock[stage[t]])
  <2>1. AfterLock[stage[t]] = CASE stage[t] = "lockOpen" -> "allocate"
                                [] stage[t] = "lockSpace" -> "space"
                                [] stage[t] = "lockCall" -> "call"
                                [] stage[t] = "lockEnd" -> "end"
    BY <1>3, LockDomain DEF LockStages
  <2> QED BY <1>1, <1>3, <2>1, MoveSafe DEF Moves, LockStages, Midway, Resetting, Serving
<1>4. CASE stage[t] \in UnlockStages /\ Goto(t, AfterUnlock(t))
  BY <1>1, <1>4, MoveSafe DEF Moves, UnlockStages, AfterUnlock, Midway, Resetting, Serving
<1> QED BY <1>2, <1>3, <1>4, LockDomain DEF Lock, Unlock, UnlockStages

\* The opening of a binding.
LEMMA OpenFailsSafe ==
    ASSUME SafeInv, NEW t \in Threads, stage[t] \in {"allocate", "load", "attach"}, OpenFails(t)
    PROVE  BoundInv'
<1>0. stage \in [Threads -> Stages] /\ made \in Nat /\ binding \in Bindings \cup {NoBinding}
  BY ApiBindingAssumption DEF SafeInv, TypeInv, TypeOK
<1>1. /\ ~alloc' /\ binding' = binding /\ library' = library /\ made' = made /\ calm' = calm
      /\ stage' = [stage EXCEPT ![t] = "unlockOpen"]
  BY DEF OpenFails, Unmoved, Goto
<1>2. calm => Gone
  BY DEF SafeInv, BoundInv, Serving
<1>3. Gone => Gone'
  BY <1>0, <1>1 DEF Gone, ClosedOnes, Resetting, Midway
<1> QED BY <1>1, <1>2, <1>3 DEF SafeInv, BoundInv

LEMMA OpenSafe ==
    ASSUME SafeInv, NEW t \in Threads, Open(t)
    PROVE  BoundInv'
<1>0. /\ stage \in [Threads -> Stages] /\ made \in Nat /\ binding \in Bindings \cup {NoBinding}
      /\ library \in [Bindings -> LibraryStates] /\ made <= MaxBindings /\ calm \in BOOLEAN
      /\ binding <= made /\ \A b \in Bindings : library[b] # "empty" => b <= made
      /\ Bindings \subseteq Nat /\ NoBinding \notin Bindings /\ NoBinding = 0
  BY ApiBindingAssumption DEF SafeInv, TypeInv, TypeOK, BoundInv, Bindings, NoBinding
<1> DEFINE Awake == calm => Gone
<1>1. stage[t] \notin Serving => Awake
  BY DEF SafeInv, BoundInv
<1>2. CASE Prepare(t)
  <2>1. /\ alloc' = alloc /\ binding' = NoBinding /\ library' = library /\ made' = made
        /\ calm' = calm /\ stage' = [stage EXCEPT ![t] = "mark"]
    BY <1>2 DEF Prepare, Unmoved, Goto
  <2>2. Gone => Gone'
    BY <1>0, <2>1 DEF Gone, ClosedOnes
  <2>3. stage'[t] \in Midway
    BY <1>0, <2>1 DEF Midway
  <2> QED BY <1>0, <1>1, <1>2, <2>1, <2>2, <2>3 DEF Prepare, Serving, BoundInv
<1>3. CASE Mark(t)
  <2>1. /\ alloc' = alloc /\ binding' = binding /\ library' = library /\ made' = made
        /\ calm' = calm /\ stage' = [stage EXCEPT ![t] = "lockOpen"] /\ stage[t] = "mark"
    BY <1>3 DEF Mark, Unmoved, Goto
  <2>2. Gone => Gone'
    BY <1>0, <2>1 DEF Gone, ClosedOnes, Resetting, Midway
  <2>3. stage'[t] \in Midway
    BY <1>0, <2>1 DEF Midway
  <2> QED BY <1>0, <1>1, <2>1, <2>2, <2>3 DEF Serving, BoundInv
<1>4. CASE Allocate(t)
  <2>1. stage[t] = "allocate"
    BY <1>4 DEF Allocate
  <2>2. CASE OpenFails(t)
    BY <2>1, <2>2, OpenFailsSafe
  <2>3. CASE UNCHANGED record /\ Unmoved /\ Goto(t, "load")
    BY <2>1, <2>3, MoveSafe DEF Unmoved, Moves, Midway, Resetting, Serving
  <2>4. CASE /\ made < MaxBindings /\ made' = made + 1 /\ binding' = made + 1
             /\ Goto(t, "load") /\ UNCHANGED <<alloc, library>> /\ Unmoved
    <3>1. /\ alloc' = alloc /\ library' = library /\ calm' = calm
          /\ stage' = [stage EXCEPT ![t] = "load"]
      BY <2>4 DEF Unmoved, Goto
    <3>2. Gone => Gone'
      BY <1>0, <2>4, <3>1 DEF Gone, ClosedOnes
    <3>3. stage'[t] \in Midway
      BY <1>0, <3>1 DEF Midway
    <3> QED BY <1>0, <1>1, <2>1, <2>4, <3>1, <3>2, <3>3 DEF Serving, BoundInv
  <2> QED BY <1>4, <2>2, <2>3, <2>4 DEF Allocate
<1>5. CASE Load(t)
  <2>1. stage[t] = "load"
    BY <1>5 DEF Load
  <2>2. CASE Crash
    BY <2>2, StillSafe DEF Crash
  <2>3. CASE LoadFails(t)
    BY <2>1, <2>3, OpenFailsSafe DEF LoadFails
  <2>4. CASE /\ binding # NoBinding /\ Goto(t, "attach")
             /\ library' = IF binding \in Usable THEN library
                           ELSE [library EXCEPT ![binding] = "mapped"]
             /\ UNCHANGED <<alloc, binding, made>> /\ Unmoved
    <3>1. calm' = calm /\ stage' = [stage EXCEPT ![t] = "attach"] /\ binding \in Bindings
      BY <1>0, <2>4 DEF Unmoved, Goto
    <3>2. \A b \in Bindings \ {binding} : library'[b] = library[b]
      BY <1>0, <2>4
    <3>3. Gone => Gone'
      BY <1>0, <2>1, <2>4, <3>1, <3>2 DEF Gone, ClosedOnes, Resetting, Midway
    <3>4. stage'[t] \in Midway
      BY <1>0, <3>1 DEF Midway
    <3>5. \A b \in Bindings : library'[b] # "empty" => b <= made
      BY <1>0, <3>1, <3>2
    <3> QED BY <1>0, <1>1, <2>1, <2>4, <3>1, <3>3, <3>4, <3>5 DEF Serving, BoundInv
  <2> QED BY <1>5, <2>2, <2>3, <2>4 DEF Load
<1>6. CASE Attach(t)
  <2>1. stage[t] = "attach"
    BY <1>6 DEF Attach
  <2>2. CASE Crash
    BY <2>2, StillSafe DEF Crash
  <2>3. CASE OpenFails(t)
    BY <2>1, <2>3, OpenFailsSafe
  <2>4. CASE UNCHANGED record /\ Unmoved /\ (Goto(t, "bind") \/ Goto(t, "lockSpace"))
    BY <2>1, <2>4, MoveSafe DEF Unmoved, Moves, Midway, Resetting, Serving
  <2> QED BY <1>6, <2>2, <2>3, <2>4 DEF Attach
<1>7. CASE ChangeNamespace(t)
  <2>1. stage[t] = "space"
    BY <1>7 DEF ChangeNamespace
  <2>2. CASE Crash
    BY <2>2, StillSafe DEF Crash
  <2>3. CASE UNCHANGED record /\ Unmoved /\ Goto(t, "unlockSpace")
    BY <2>1, <2>3, MoveSafe DEF Unmoved, Moves, Midway, Resetting, Serving
  <2> QED BY <1>7, <2>2, <2>3 DEF ChangeNamespace
<1>8. CASE Bind(t)
  <2>1. stage[t] = "bind"
    BY <1>8 DEF Bind
  <2>2. CASE Crash
    BY <2>2, StillSafe DEF Crash
  <2>3. CASE binding \in Usable /\ ~Crash
    <3>1. /\ library' = [library EXCEPT ![binding] = "attached"] /\ binding \in Bindings
          /\ alloc' /\ binding' = binding /\ made' = made /\ calm' = calm
          /\ stage' = [stage EXCEPT ![t] = "unlockOpen"]
      BY <1>8, <2>3 DEF Bind, Usable, Unmoved, Goto
    <3>2. Attached'
      BY <1>0, <3>1 DEF Attached
    <3>3. \A b \in Bindings \ {binding} : library'[b] = library[b]
      BY <1>0, <3>1
    <3>4. Gone => Gone'
      BY <1>0, <2>1, <3>1, <3>3 DEF Gone, ClosedOnes, Resetting, Midway
    <3>5. \A b \in Bindings : library'[b] # "empty" => b <= made
      BY <1>0, <3>1, <3>3
    <3> QED BY <1>0, <1>1, <2>1, <3>1, <3>2, <3>4, <3>5 DEF Serving, BoundInv
  <2> QED BY <1>8, <2>2, <2>3 DEF Bind
<1>9. CASE Opened(t)
  <2> DEFINE to == IF alloc THEN "lockCall" ELSE "abandon"
             alone == \A u \in Threads \ {t} : stage[u] = "idle"
  <2>1. /\ alloc' = alloc /\ binding' = binding /\ library' = library /\ made' = made
        /\ stage' = [stage EXCEPT ![t] = to] /\ stage[t] = "opened"
        /\ calm' = (calm \/ (alloc /\ alone))
    BY <1>9 DEF Opened, record, Goto
  <2>2. Gone => Gone'
    BY <1>0, <2>1 DEF Gone, ClosedOnes, Resetting, Midway
  <2>3. ClosedOnes' = ClosedOnes /\ Attached' = Attached
    BY <2>1 DEF ClosedOnes, Attached
  <2>4. (\E u \in Threads : stage[u] \in Midway) => \E u \in Threads : stage'[u] \in Midway
    BY <1>0, <2>1 DEF Midway
  <2>5. ASSUME alloc, alone
        PROVE  Gone' \/ (alloc' /\ Attached' /\ ClosedOnes' = {}
                         /\ \A u \in Threads : stage'[u] \in Serving)
    <3>1. CASE ClosedOnes # {}
      <4>1. PICK b \in Bindings : b \in ClosedOnes
        BY <3>1 DEF ClosedOnes
      <4>2. b <= made /\ \A u \in Threads : stage[u] \notin Resetting
        BY <1>0, <2>1, <2>5, <4>1 DEF ClosedOnes, Resetting, Midway
      <4> QED BY <2>2, <4>1, <4>2 DEF Gone
    <3>2. CASE ClosedOnes = {}
      <4>1. \A u \in Threads : stage[u] \notin Midway
        BY <2>1, <2>5 DEF Midway
      <4>2. \A u \in Threads : stage'[u] \in Serving
        BY <1>0, <2>1, <2>5 DEF Serving
      <4> QED BY <2>1, <2>3, <2>5, <3>2, <4>1, <4>2 DEF SafeInv, BoundInv
    <3> QED BY <3>1, <3>2
  <2> QED BY <1>0, <1>1, <2>1, <2>2, <2>3, <2>4, <2>5 DEF SafeInv, BoundInv, Serving
<1>10. CASE Abandon(t)
  <2>1. /\ ~alloc' /\ binding' = binding /\ library' = library /\ made' = made /\ calm' = calm
        /\ stage' = [stage EXCEPT ![t] = "idle"] /\ stage[t] = "abandon"
    BY <1>10 DEF Abandon, Unmoved, Goto
  <2>2. Gone => Gone'
    BY <1>0, <2>1 DEF Gone, ClosedOnes, Resetting, Midway
  <2> QED BY <1>0, <1>1, <2>1, <2>2 DEF Serving, BoundInv
<1> QED BY <1>2, <1>3, <1>4, <1>5, <1>6, <1>7, <1>8, <1>9, <1>10 DEF Open

\* What ends a binding, once it has been found open, ends it for good.
LEMMA EndSafe ==
    ASSUME SafeInv, NEW t \in Threads, NEW to, stage[t] \notin Midway, to \notin Midway,
           stage[t] # "unallocate",
           stage[t] \in Serving => binding # NoBinding /\ library' = Ended,
           library' \in {library, Ended, Unloaded(binding)},
           library' = Unloaded(binding) => binding # NoBinding,
           library' = Ended => binding # NoBinding,
           UNCHANGED <<alloc, binding, made, calm>>, Goto(t, to)
    PROVE  BoundInv'
<1>0. /\ stage \in [Threads -> Stages] /\ made \in Nat /\ binding \in Bindings \cup {NoBinding}
      /\ library \in [Bindings -> LibraryStates] /\ calm \in BOOLEAN
      /\ binding <= made /\ \A b \in Bindings : library[b] # "empty" => b <= made
      /\ stage' = [stage EXCEPT ![t] = to]
  BY ApiBindingAssumption DEF SafeInv, TypeInv, TypeOK, BoundInv, Goto
<1>1. \A b \in Bindings \ {binding} : library'[b] = library[b]
  BY <1>0 DEF Ended, Unloaded
<1>2. binding \in Bindings => \/ library'[binding] = library[binding]
                              \/ library'[binding] \in {"ended", "closed"} /\ library[binding] # "empty"
  BY <1>0 DEF Ended, Unloaded
<1>3. ClosedOnes \subseteq ClosedOnes'
  BY <1>0, <1>1, <1>2 DEF ClosedOnes, Ended, Unloaded
<1>4. Gone => Gone'
  BY <1>0, <1>3 DEF Gone, Resetting
<1>5. ClosedOnes' = {} /\ Attached => Attached'
  BY <1>0, <1>2 DEF ClosedOnes, Attached
<1>6. \A u \in Threads : stage[u] \in Midway => stage'[u] \in Midway
  BY <1>0
<1>7. \A b \in Bindings : library'[b] # "empty" => b <= made
  BY <1>0, <1>1, <1>2
<1>8. CASE calm /\ ~Gone
  <2>1. stage[t] \in Serving /\ Attached /\ \A u \in Threads : stage[u] \in Serving
    BY <1>8 DEF SafeInv, BoundInv
  <2>2. binding \in ClosedOnes'
    BY <1>0, <2>1 DEF ClosedOnes, Ended, Attached
  <2>3. \A u \in Threads : stage'[u] \notin Resetting
    BY <1>0, <2>1 DEF Serving, Resetting, Midway
  <2>4. Gone'
    BY <1>0, <2>2, <2>3 DEF Gone
  <2> QED BY <1>0, <1>3, <1>5, <1>6, <1>7, <2>4 DEF SafeInv, BoundInv
<1>9. CASE ~calm \/ Gone
  BY <1>0, <1>3, <1>4, <1>5, <1>6, <1>7, <1>9 DEF SafeInv, BoundInv
<1> QED BY <1>8, <1>9

LEMMA CloseSafe ==
    ASSUME SafeInv, NEW t \in Threads, Close(t)
    PROVE  BoundInv'
<1>0. /\ stage \in [Threads -> Stages] /\ made \in Nat /\ binding \in Bindings \cup {NoBinding}
      /\ library \in [Bindings -> LibraryStates] /\ calm \in BOOLEAN
  BY ApiBindingAssumption DEF SafeInv, TypeInv, TypeOK
<1>1. Crash => BoundInv'
  BY StillSafe DEF Crash
<1>2. CASE Release(t) /\ ~Crash
  <2>1. /\ stage[t] = "release" /\ binding # NoBinding /\ UNCHANGED record /\ Unmoved
        /\ Goto(t, IF binding \notin Usable THEN AfterEnd
                   ELSE IF dbtype = "isc" THEN "lockEnd" ELSE "exit")
    BY <1>2 DEF Release
  <2>2. binding \notin Usable => ~Attached
    BY <1>0, <2>1 DEF Usable, Attached
  <2>3. CASE binding \in Usable
    BY <2>1, <2>3, MoveSafe DEF Moves, Unmoved, Midway, Resetting, Serving
  <2>4. CASE binding \notin Usable
    <3>1. AfterEnd \notin Midway
      BY DEF AfterEnd, Midway
    <3>2. binding \in Bindings /\ library[binding] \in {"empty", "closed"}
      BY <1>0, <2>1, <2>4 DEF Usable
    <3>3. /\ alloc' = alloc /\ binding' = binding /\ library' = library /\ made' = made
          /\ calm' = calm /\ stage' = [stage EXCEPT ![t] = AfterEnd]
      BY <2>1, <2>4 DEF record, Unmoved, Goto
    <3>4. Gone => Gone'
      BY <1>0, <3>1, <3>3 DEF Gone, ClosedOnes, Resetting
    <3>5. (\E u \in Threads : stage[u] \in Midway) => \E u \in Threads : stage'[u] \in Midway
      BY <1>0, <2>1, <3>3 DEF Midway
    <3>6. ClosedOnes' = ClosedOnes /\ Attached' = Attached
      BY <3>3 DEF ClosedOnes, Attached
    <3> QED BY <2>2, <2>4, <3>3, <3>4, <3>5, <3>6 DEF SafeInv, BoundInv
  <2> QED BY <2>3, <2>4
<1>3. CASE End(t) /\ ~Crash
  <2>1. /\ stage[t] = "end" /\ binding \in Usable /\ library' = Ended /\ Goto(t, "unlockEnd")
        /\ UNCHANGED <<alloc, binding, made, calm>>
    BY <1>3 DEF End, Unmoved
  <2> QED BY <1>0, <2>1, EndSafe, ApiBindingAssumption DEF Midway, Usable, NoBinding, Bindings
<1>4. CASE Exit(t) /\ ~Crash
  <2>1. /\ stage[t] = "exit" /\ binding \in Usable /\ library' = Ended /\ Goto(t, "unallocate")
        /\ UNCHANGED <<alloc, binding, made, calm>>
    BY <1>4 DEF Exit, Unmoved
  <2> QED BY <1>0, <2>1, EndSafe, ApiBindingAssumption DEF Midway, Usable, NoBinding, Bindings
<1>5. CASE Unload(t) /\ ~Crash
  <2>1. /\ stage[t] = "unload" /\ Goto(t, "unallocate")
        /\ library' = IF binding = NoBinding THEN library ELSE Unloaded(binding)
        /\ UNCHANGED <<alloc, binding, made, calm>>
    BY <1>5 DEF Unload, Unmoved
  <2>2. CASE binding = NoBinding
    <3>1. UNCHANGED record
      BY <1>5, <2>1, <2>2 DEF Unload, record
    <3> QED BY <2>1, <3>1, MoveSafe DEF Moves, Midway, Resetting, Serving
  <2>3. CASE binding # NoBinding
    BY <2>1, <2>3, EndSafe DEF Midway, Serving
  <2> QED BY <2>2, <2>3
<1>6. CASE Unallocate(t)
  <2> DEFINE to == IF failed[t] THEN "respond" ELSE "idle"
  <2>1. /\ ~alloc' /\ binding' = binding /\ library' = library /\ made' = made /\ calm' = calm
        /\ stage' = [stage EXCEPT ![t] = to] /\ stage[t] = "unallocate"
    BY <1>6 DEF Unallocate, Goto
  <2>2. Gone => Gone'
    BY <1>0, <2>1 DEF Gone, ClosedOnes, Resetting, Midway
  <2>3. calm => Gone
    BY <2>1 DEF SafeInv, BoundInv, Serving
  <2> QED BY <2>1, <2>2, <2>3 DEF SafeInv, BoundInv
<1> QED BY <1>1, <1>2, <1>3, <1>4, <1>5, <1>6 DEF Close

\* A request that finds the binding open, or comes to open it.
LEMMA ServeSafe ==
    ASSUME SafeInv, NEW t \in Threads, Arrive(t) \/ Call(t) \/ Answer(t) \/ Respond(t)
    PROVE  BoundInv'
<1>0. stage \in [Threads -> Stages] /\ made \in Nat /\ calm \in BOOLEAN
  BY ApiBindingAssumption DEF SafeInv, TypeInv, TypeOK
<1>1. CASE Share(t)
  BY <1>1, MoveSafe DEF Share, Unmoved, Moves, Midway, Resetting, Serving
<1>2. CASE Claim(t)
  <2>1. /\ ~alloc /\ binding' = binding /\ library' = library /\ made' = made /\ calm' = calm
        /\ stage' = [stage EXCEPT ![t] = "prepare"]
    BY <1>2 DEF Claim, Unmoved, Goto
  <2>2. Gone => Gone'
    BY <1>0, <2>1 DEF Gone, ClosedOnes, Resetting, Midway
  <2>3. stage'[t] \in Midway
    BY <1>0, <2>1 DEF Midway
  <2> QED BY <2>1, <2>2, <2>3 DEF SafeInv, BoundInv
<1>3. CASE Call(t)
  BY <1>3, MoveSafe, StillSafe DEF Call, Crash, Unmoved, Moves, Midway, Resetting, Serving
<1>4. CASE Answer(t)
  BY <1>4, MoveSafe, StillSafe DEF Answer, Crash, Moves, Midway, Resetting, Serving
<1>5. CASE Respond(t)
  BY <1>5, MoveSafe DEF Respond, Unmoved, Moves, Midway, Resetting, Serving
<1> QED BY <1>1, <1>2, <1>3, <1>4, <1>5 DEF Arrive

LEMMA ExitSafe ==
    ASSUME SafeInv, WorkerExit
    PROVE  BoundInv'
<1>0. /\ made \in Nat /\ binding \in Bindings \cup {NoBinding} /\ calm \in BOOLEAN
      /\ library \in [Bindings -> LibraryStates] /\ NoBinding \notin Bindings
      /\ \A t \in Threads : stage[t] = "idle"
      /\ alloc' = alloc /\ binding' = binding /\ made' = made /\ calm' = calm /\ stage' = stage
      /\ library' = IF binding = NoBinding THEN library
                    ELSE IF dbtype = "isc" THEN Unloaded(binding) ELSE Ended
  BY ApiBindingAssumption DEF SafeInv, TypeInv, TypeOK, WorkerExit, Bindings, NoBinding
<1>1. \A b \in Bindings : \/ library'[b] = library[b]
                          \/ library'[b] \in {"ended", "closed"} /\ library[b] # "empty"
  BY <1>0 DEF Unloaded, Ended
<1>2. ClosedOnes \subseteq ClosedOnes'
  BY <1>0, <1>1 DEF ClosedOnes, Unloaded, Ended
<1>3. Gone => Gone'
  BY <1>0, <1>2 DEF Gone
<1>4. ClosedOnes' = {} /\ Attached => Attached'
  BY <1>0, <1>1 DEF ClosedOnes, Attached
<1>5. Attached => binding \in ClosedOnes'
  BY <1>0 DEF Attached, ClosedOnes, Unloaded, Ended
<1>6. Attached => Gone'
  BY <1>0, <1>5 DEF SafeInv, BoundInv, Gone, Resetting, Midway
<1>7. \A b \in Bindings : library'[b] # "empty" => b <= made
  BY <1>1 DEF SafeInv, BoundInv
<1> QED BY <1>0, <1>2, <1>3, <1>4, <1>6, <1>7 DEF SafeInv, BoundInv

\* A request that crashes goes through a binding that is not usable.
LEMMA CrashCauses ==
    ASSUME SafeInv, [Next]_vars
    PROVE  Graceful
<1> SUFFICES ASSUME calm, worker = "up", worker' = "crashed", ClosedOnes = {},
                    ~\A t \in Threads : stage[t] = "idle"
             PROVE  FALSE
  BY DEF Graceful
<1>1. /\ binding \in Usable /\ binding # NoBinding
      /\ \A t \in Threads : stage[t] \in Serving
  BY DEF SafeInv, TypeInv, TypeOK, BoundInv, Gone, Attached, Usable
<1>2. ~WorkerExit /\ ~UNCHANGED vars
  BY DEF WorkerExit, vars
<1>3. PICK t \in Threads : Lock(t) \/ Unlock(t) \/ Plain(t)
  BY <1>2, NextCases
<1>4. worker' # worker
  OBVIOUS
<1>5. ~Lock(t) /\ ~Unlock(t)
  BY <1>4 DEF Lock, Unlock, Unmoved
<1> QED BY <1>1, <1>3, <1>4, <1>5
        DEF Plain, Arrive, Share, Claim, Open, Prepare, Mark, Allocate, OpenFails, Load, LoadFails,
            Attach, ChangeNamespace, Bind, Opened, Abandon, Call, Answer, Respond, Close, Release,
            End, Exit, Unload, Unallocate, Unmoved, Serving

\* Once the binding has been opened quietly no request makes the worker process
\* crash before one has closed a binding, for any number of requests and bindings
\* and whatever fails.
THEOREM SafeBeforeClosing == Spec => SafeUntilClosed
<1>1. Init => BoundInv
  BY ApiBindingAssumption DEF Init, BoundInv, NoBinding
<1>2. SafeInv /\ [Next]_vars => BoundInv'
  <2> SUFFICES ASSUME SafeInv, [Next]_vars PROVE BoundInv'
    OBVIOUS
  <2>1. CASE UNCHANGED vars
    BY <2>1, StillSafe DEF vars, record
  <2>2. CASE WorkerExit
    BY <2>2, ExitSafe
  <2>3. ASSUME NEW t \in Threads, Lock(t) \/ Unlock(t) \/ Plain(t) PROVE BoundInv'
    BY <2>3, SectionSafe, OpenSafe, CloseSafe, ServeSafe DEF Plain
  <2> QED BY <2>1, <2>2, <2>3, NextCases
<1>3. SafeInv /\ [Next]_vars =>
        [calm /\ worker = "up" /\ worker' = "crashed" =>
           \/ \A t \in Threads : stage[t] = "idle"
           \/ \E b \in Bindings : library[b] \in {"ended", "closed"}]_vars
  BY CrashCauses DEF Graceful, ClosedOnes
<1> QED BY <1>1, <1>2, <1>3, TypeInvariant, PTL DEF Spec, SafeInv, SafeUntilClosed
=============================================================================
