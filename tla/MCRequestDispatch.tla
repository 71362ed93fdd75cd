------------------------ MODULE MCRequestDispatch ------------------------
(***************************************************************************)
(* Instances of RequestDispatch for TLC.                                   *)
(***************************************************************************)
EXTENDS RequestDispatch, TLC

CONSTANTS t1, t2, t3

Symmetry == Permutations(Threads)

\* max_connections of the servers of an instance.
NoLimit == [s \in 1..SrvMax |-> 0]
LimitOne == [s \in 1..SrvMax |-> 1]
LimitTwo == [s \in 1..SrvMax |-> 2]
===========================================================================
