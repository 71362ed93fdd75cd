--------------------------- MODULE MCRequestBuffer ---------------------------
(***************************************************************************)
(* Instances of RequestBuffer for TLC.  With the variables of Plain a      *)
(* block takes 35 bytes where the string of 232 limits it, and 79 where    *)
(* the largest buffer does: contents end before, at and after both.        *)
(***************************************************************************)
EXTENDS RequestBuffer

Plain == [variables |-> <<3, 9>>, how |-> "none", len |-> 0, sse |-> FALSE, websocket |-> FALSE, limit |-> 300]

\* The string is what limits the block, or the buffer.
Limits == {232, 300}

Contents ==
    {[Plain EXCEPT !.how = "length", !.len = n, !.limit = m] : n \in {1} \cup 30..38 \cup 75..82, m \in Limits}
    \cup {[Plain EXCEPT !.how = "chunked", !.limit = m] : m \in Limits}

Headers == {[Plain EXCEPT !.variables = v, !.websocket = w] : v \in {<<>>, <<7>>}, w \in BOOLEAN}

Events(r) == [r EXCEPT !.sse = TRUE]

MixedRequests == Contents \cup Headers \cup {Events(r) : r \in Headers \ {h \in Headers : h.websocket}}
    \cup {Events([Plain EXCEPT !.how = h, !.len = n]) : <<h, n>> \in {<<"length", 1>>, <<"length", 60>>, <<"chunked", 0>>}}

\* Two are called over the network, one as an API; the second has the longer name.
TwoLinks == [s \in 1..3 |-> IF s = 3 THEN "api" ELSE "tcp"]
Names == [s \in 1..3 |-> IF s = 2 THEN 31 ELSE s]

\* Two servers with the same database, both by its API.
OnlyApi == [s \in 1..2 |-> "api"]
ShortNames == [s \in 1..2 |-> s]
==============================================================================
