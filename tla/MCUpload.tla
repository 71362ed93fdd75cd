------------------------------ MODULE MCUpload ------------------------------
(***************************************************************************)
(* Instances of Upload for TLC: blocks of three bytes, contents that end   *)
(* one byte before the end of a block, at the end of it, and after it; a   *)
(* path and the administrator's below it; two servers and two variables.   *)
(***************************************************************************)
EXTENDS Upload

Plain(h, n) == [how |-> h, len |-> n, partial |-> 0]

MixedBodies ==
    {Plain("none", 0)} \cup {Plain("length", n) : n \in {2, 3, 4, 6, 8}}
    \cup {Plain("chunked", n) : n \in {0, 2, 3, 5, 6}}
    \cup {[Plain(h, 4) EXCEPT !.partial = 1] : h \in {"length", "chunked"}}

\* The first server of the path takes the shorter strings.
Limits == [s \in 1..2 |-> s + 2]

TwoPaths == << [name |-> <<"mgweb", "admin">>, admin |-> TRUE], [name |-> <<"mgweb">>, admin |-> FALSE],
               [name |-> <<>>, admin |-> FALSE] >>
SomeScripts == {<<"mgweb", "page">>, <<"mgweb", "admin", "x">>, <<"else">>, <<"image">>}
Image == {<<"image">>}

TwoServers == <<"local", "remote">>
TwoVariables == <<"site", "server">>

To(n, v) == [to |-> n, value |-> v, cut |-> Number(0)]

SomeAsks ==
    {[query |-> q, form |-> f, cookies |-> c] :
        q \in {<<>>, <<To("server", Name("remote"))>>,
               <<To("site", Name("nowhere")), To("site", Number(1)), To("server", Number(0))>>},
        f \in {<<>>, <<To("site", Number(32)), To("server", Number(1)), To("site", Name("local"))>>},
        c \in {<<>>, <<To("other", Number(1)), To("mg", Number(1))>>, <<To("mg", Number(2))>>}}
===========================================================================
