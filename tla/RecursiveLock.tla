--------------------------- MODULE RecursiveLock ---------------------------
(***************************************************************************)
(* What the recursive mutex of mg_web promises to its callers: at most one *)
(* thread owns it, its owner may take it again, and it is free when it has *)
(* been given back as often as it was taken.                               *)
(***************************************************************************)
EXTENDS Naturals

CONSTANTS Threads, NoThread

VARIABLES
    owner,   \* the thread that owns the lock, NoThread when it is free
    depth    \* how often each thread has taken it and not given it back

vars == <<owner, depth>>

Init ==
    /\ owner = NoThread
    /\ depth = [t \in Threads |-> 0]

Take(t) ==
    /\ owner = NoThread
    /\ owner' = t
    /\ depth' = [depth EXCEPT ![t] = 1]

TakeAgain(t) ==
    /\ owner = t
    /\ depth' = [depth EXCEPT ![t] = @ + 1]
    /\ UNCHANGED owner

GiveBack(t) ==
    /\ owner = t
    /\ depth' = [depth EXCEPT ![t] = @ - 1]
    /\ owner' = IF depth[t] = 1 THEN NoThread ELSE t

Next == \E t \in Threads : Take(t) \/ TakeAgain(t) \/ GiveBack(t)

Spec == Init /\ [][Next]_vars

============================================================================
