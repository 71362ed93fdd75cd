------------------------------ MODULE DbMutex ------------------------------
(***************************************************************************)
(* DBXMUTEX: a recursive lock made of a pthread mutex that is not, of the  *)
(* id of its owner, and of a counter (mg_mutex_lock, mg_mutex_unlock).     *)
(*                                                                         *)
(* mg_mutex_lock compares thid with the calling thread before it holds     *)
(* anything, while the owner may be writing it.  A step is therefore one   *)
(* access to thid or to the pthread mutex; stack belongs to the thread     *)
(* that thid names and is written together with it.                        *)
(***************************************************************************)
EXTENDS Naturals

CONSTANTS
    Threads,
    NoThread,   \* the value 0 of thid
    MaxDepth    \* bound of the runs on the nesting of the sections of a caller

ASSUME DbMutexAssumption ==
    /\ NoThread \notin Threads
    /\ MaxDepth \in Nat \ {0}

VARIABLES
    holder,   \* the thread that holds the pthread mutex h_mutex
    thid,     \* the thread recorded as the owner
    stack,    \* locks taken by the owner beyond its first
    at,       \* where each thread is in mg_mutex_lock or mg_mutex_unlock
    nesting   \* history: locks each caller has taken and not given back

vars == <<holder, thid, stack, at, nesting>>

TypeOK ==
    /\ holder \in Threads \cup {NoThread}
    /\ thid \in Threads \cup {NoThread}
    /\ stack \in Nat
    /\ at \in [Threads -> {"outside", "waiting", "acquired", "erased"}]
    /\ nesting \in [Threads -> Nat]

Init ==
    /\ holder = NoThread
    /\ thid = NoThread
    /\ stack = 0
    /\ at = [t \in Threads |-> "outside"]
    /\ nesting = [t \in Threads |-> 0]

Move(t, from, to) == at[t] = from /\ at' = [at EXCEPT ![t] = to]

---------------------------------------------------------------------------
\* mg_mutex_lock, with timeout 0.

\* MUTANT of Relock: any owner will do.
RelockAnyones(t) ==
    /\ at[t] = "outside" /\ thid # NoThread
    /\ stack' = stack + 1
    /\ nesting' = [nesting EXCEPT ![t] = @ + 1]
    /\ UNCHANGED <<holder, thid, at>>

\* The owner takes the lock once more.
Relock(t) ==
    /\ at[t] = "outside" /\ thid = t
    /\ stack' = stack + 1
    /\ nesting' = [nesting EXCEPT ![t] = @ + 1]
    /\ UNCHANGED <<holder, thid, at>>

\* thid names another thread, or nobody: pthread_mutex_lock is called ...
Wait(t) ==
    /\ thid # t
    /\ Move(t, "outside", "waiting")
    /\ UNCHANGED <<holder, thid, stack, nesting>>

\* ... and returns ...
Acquire(t) ==
    /\ holder = NoThread
    /\ Move(t, "waiting", "acquired")
    /\ holder' = t
    /\ UNCHANGED <<thid, stack, nesting>>

\* ... and the owner is recorded.
Sign(t) ==
    /\ Move(t, "acquired", "outside")
    /\ thid' = t
    /\ stack' = 0
    /\ nesting' = [nesting EXCEPT ![t] = @ + 1]
    /\ UNCHANGED holder

---------------------------------------------------------------------------
\* mg_mutex_unlock.

\* MUTANT of Nested: the counter is not looked at.
NestedAnyway(t) == thid = t

Nested(t) == thid = t /\ stack > 0

\* MUTANT of Unstack: the counter stays.
UnstackNothing(t) ==
    /\ at[t] = "outside" /\ Nested(t)
    /\ nesting' = [nesting EXCEPT ![t] = @ - 1]
    /\ UNCHANGED <<holder, thid, stack, at>>

\* An inner section ends.
Unstack(t) ==
    /\ at[t] = "outside" /\ Nested(t)
    /\ stack' = stack - 1
    /\ nesting' = [nesting EXCEPT ![t] = @ - 1]
    /\ UNCHANGED <<holder, thid, at>>

\* MUTANT of Erase: the owner is not erased.
EraseStack(t) ==
    /\ ~Nested(t)
    /\ Move(t, "outside", "erased")
    /\ stack' = 0
    /\ UNCHANGED <<holder, thid, nesting>>

\* The outermost section ends: the owner is erased, whoever it is ...
Erase(t) ==
    /\ ~Nested(t)
    /\ Move(t, "outside", "erased")
    /\ thid' = NoThread
    /\ stack' = 0
    /\ UNCHANGED <<holder, nesting>>

\* ... and pthread_mutex_unlock is called.  On a mutex that another thread
\* holds it has no defined effect: it may free the mutex or do nothing.
Release(t) ==
    /\ Move(t, "erased", "outside")
    /\ holder' \in {NoThread} \cup IF holder = t THEN {} ELSE {holder}
    /\ nesting' = [nesting EXCEPT ![t] = 0]
    /\ UNCHANGED <<thid, stack>>

---------------------------------------------------------------------------
\* The callers: each unlocks what it has locked.
Lock(t) == nesting[t] < MaxDepth /\ (Relock(t) \/ Wait(t))
Unlock(t) == nesting[t] > 0 /\ (Unstack(t) \/ Erase(t))

Next == \E t \in Threads : Lock(t) \/ Acquire(t) \/ Sign(t) \/ Unlock(t) \/ Release(t)

Spec == Init /\ [][Next]_vars

---------------------------------------------------------------------------
\* At most one thread is inside its sections, although the test for recursion
\* reads the owner without holding the mutex (7982).
Exclusion == \A t, u \in Threads : nesting[t] > 0 /\ nesting[u] > 0 => t = u

\* A caller inside n sections is the recorded owner, with n - 1 locks stacked:
\* its next lock does not wait for itself, and its last unlock, and no earlier
\* one, frees the mutex.
CountedByOwner ==
    \A t \in Threads : at[t] = "outside" /\ nesting[t] > 0 =>
        holder = t /\ thid = t /\ stack + 1 = nesting[t]

\* What the threads see is a recursive lock: it is owned from the return of
\* pthread_mutex_lock to the call of pthread_mutex_unlock.
Depth == [t \in Threads |-> IF at[t] = "acquired" THEN 1 ELSE nesting[t]]

Abstract == INSTANCE RecursiveLock WITH owner <- holder, depth <- Depth

\* The mutex implements a recursive lock: every step of mg_mutex_lock and
\* mg_mutex_unlock takes it, takes it again, gives it back, or is internal.
ImplementsLock == Abstract!Spec

============================================================================
