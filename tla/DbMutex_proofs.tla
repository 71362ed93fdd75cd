--------------------------- MODULE DbMutex_proofs ---------------------------
(***************************************************************************)
(* DBXMUTEX is a recursive lock for any number of threads and any nesting  *)
(* of their sections.                                                      *)
(***************************************************************************)
EXTENDS DbMutex, TLAPS

\* A thread in the middle of the two functions: it holds the mutex from
\* acquired to erased, and thid names it in between only.
OwnerInv ==
    \A t \in Threads :
        /\ at[t] = "waiting" => nesting[t] = 0
        /\ at[t] = "acquired" => holder = t /\ nesting[t] = 0
        /\ at[t] = "erased" => holder = t /\ nesting[t] = 1
        /\ at[t] = "outside" /\ nesting[t] > 0 =>
               holder = t /\ thid = t /\ stack + 1 = nesting[t]
        /\ thid = t => at[t] = "outside" /\ nesting[t] > 0

MutexInv == TypeOK /\ OwnerInv

LEMMA InitEstablishes == Init => MutexInv
BY DbMutexAssumption DEF Init, MutexInv, TypeOK, OwnerInv

LEMMA LockKeeps ==
    ASSUME MutexInv, NEW t \in Threads, Relock(t) \/ Wait(t)
    PROVE  MutexInv'
<1>1. CASE Relock(t)
  BY <1>1, DbMutexAssumption DEF MutexInv, TypeOK, OwnerInv, Relock
<1>2. CASE Wait(t)
  BY <1>2, DbMutexAssumption DEF MutexInv, TypeOK, OwnerInv, Wait, Move
<1> QED BY <1>1, <1>2

LEMMA AcquireKeeps ==
    ASSUME MutexInv, NEW t \in Threads, Acquire(t)
    PROVE  MutexInv'
BY DbMutexAssumption DEF MutexInv, TypeOK, OwnerInv, Acquire, Move

LEMMA SignKeeps ==
    ASSUME MutexInv, NEW t \in Threads, Sign(t)
    PROVE  MutexInv'
BY DbMutexAssumption DEF MutexInv, TypeOK, OwnerInv, Sign, Move

\* The caller is inside a section, so it is the recorded owner.
LEMMA UnlockKeeps ==
    ASSUME MutexInv, NEW t \in Threads, Unlock(t)
    PROVE  MutexInv'
<1>1. /\ at[t] = "outside" => holder = t /\ thid = t /\ stack + 1 = nesting[t]
      /\ nesting[t] > 0
  BY DEF MutexInv, OwnerInv, Unlock
<1>2. CASE Unstack(t)
  BY <1>1, <1>2, DbMutexAssumption DEF MutexInv, TypeOK, OwnerInv, Unstack, Nested
<1>3. CASE Erase(t)
  BY <1>1, <1>3, DbMutexAssumption DEF MutexInv, TypeOK, OwnerInv, Erase, Nested, Move
<1> QED BY <1>2, <1>3 DEF Unlock

LEMMA ReleaseKeeps ==
    ASSUME MutexInv, NEW t \in Threads, Release(t)
    PROVE  MutexInv'
BY DbMutexAssumption DEF MutexInv, TypeOK, OwnerInv, Release, Move

LEMMA StutterKeeps == MutexInv /\ UNCHANGED vars => MutexInv'
BY DEF MutexInv, TypeOK, OwnerInv, vars

LEMMA MutexInvariant == Spec => []MutexInv
<1>1. MutexInv /\ [Next]_vars => MutexInv'
  BY LockKeeps, AcquireKeeps, SignKeeps, UnlockKeeps, ReleaseKeeps, StutterKeeps
     DEF Next, Lock
<1> QED BY InitEstablishes, <1>1, PTL DEF Spec

\* Each place of the code finds the mutex in a state that it can handle: the
\* counters of nested sections never fall below 0.
THEOREM TypeCorrect == Spec => []TypeOK
<1>1. MutexInv => TypeOK
  BY DEF MutexInv
<1> QED BY MutexInvariant, <1>1, PTL

---------------------------------------------------------------------------
\* Two threads are never inside sections at once, although mg_mutex_lock reads
\* the owner without holding the mutex.
THEOREM MutualExclusion == Spec => []Exclusion
<1>1. MutexInv => Exclusion
  BY DEF MutexInv, TypeOK, OwnerInv, Exclusion
<1> QED BY MutexInvariant, <1>1, PTL

\* The counter of the mutex is the nesting of the sections of its owner.
THEOREM NestingCounted == Spec => []CountedByOwner
<1>1. MutexInv => CountedByOwner
  BY DEF MutexInv, OwnerInv, CountedByOwner
<1> QED BY MutexInvariant, <1>1, PTL

---------------------------------------------------------------------------
\* Each step of DbMutex is a step of RecursiveLock, or none.
LEMMA InitAbstract == Init => Abstract!Init
BY DEF Init, Abstract!Init, Depth

LEMMA StepAbstract ==
    ASSUME MutexInv, [Next]_vars
    PROVE  [Abstract!Next]_(Abstract!vars)
<1> USE DEF MutexInv, TypeOK, OwnerInv
<1> SUFFICES ASSUME NEW t \in Threads,
                    Lock(t) \/ Acquire(t) \/ Sign(t) \/ Unlock(t) \/ Release(t)
             PROVE  Abstract!Take(t) \/ Abstract!TakeAgain(t) \/ Abstract!GiveBack(t)
                    \/ UNCHANGED Abstract!vars
  BY DEF Next, vars, Abstract!Next, Abstract!vars, Depth
<1>1. CASE Relock(t)
  <2>1. holder = t /\ at[t] = "outside"
    BY <1>1 DEF Relock
  <2>2. Depth' = [Depth EXCEPT ![t] = @ + 1]
    BY <1>1, <2>1 DEF Relock, Depth
  <2> QED BY <1>1, <2>1, <2>2 DEF Abstract!TakeAgain, Relock
<1>2. CASE Wait(t)
  BY <1>2 DEF Wait, Move, Abstract!vars, Depth
<1>3. CASE Acquire(t)
  <2>1. Depth' = [Depth EXCEPT ![t] = 1]
    BY <1>3 DEF Acquire, Move, Depth
  <2> QED BY <1>3, <2>1 DEF Abstract!Take, Acquire
<1>4. CASE Sign(t)
  BY <1>4 DEF Sign, Move, Abstract!vars, Depth
<1>5. CASE nesting[t] > 0 /\ Unstack(t)
  <2>1. holder = t /\ at[t] = "outside" /\ stack + 1 = nesting[t] /\ stack > 0
    BY <1>5 DEF Unstack, Nested
  <2>2. Depth' = [Depth EXCEPT ![t] = @ - 1] /\ Depth[t] # 1
    BY <1>5, <2>1 DEF Unstack, Depth
  <2> QED BY <1>5, <2>1, <2>2 DEF Abstract!GiveBack, Unstack
<1>6. CASE Erase(t)
  BY <1>6 DEF Erase, Move, Abstract!vars, Depth
<1>7. CASE Release(t)
  <2>1. holder = t /\ nesting[t] = 1 /\ at[t] = "erased" /\ holder' = NoThread
    BY <1>7 DEF Release, Move
  <2>2. Depth' = [Depth EXCEPT ![t] = @ - 1] /\ Depth[t] = 1
    BY <1>7, <2>1 DEF Release, Move, Depth
  <2> QED BY <2>1, <2>2 DEF Abstract!GiveBack
<1> QED BY <1>1, <1>2, <1>3, <1>4, <1>5, <1>6, <1>7 DEF Lock, Unlock

\* mg_mutex_lock and mg_mutex_unlock implement a recursive lock.
THEOREM MutexImplementsLock == Spec => ImplementsLock
<1>1. MutexInv /\ [Next]_vars => [Abstract!Next]_(Abstract!vars)
  BY StepAbstract
<1> QED BY InitAbstract, MutexInvariant, <1>1, PTL DEF Spec, ImplementsLock, Abstract!Spec

=============================================================================
