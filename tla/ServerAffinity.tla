---------------------------- MODULE ServerAffinity ----------------------------
(***************************************************************************)
(* Server affinity: a variable of the query or of a form, or a cookie, may *)
(* name the DB Server that a request has to go to.  mg_find_sa_variable,   *)
(* mg_find_sa_cookie, and the choice between them in mg_web_process.       *)
(***************************************************************************)
EXTENDS Naturals, Sequences, SequencesExt

CONSTANTS
    Names,     \* the servers of the path, in its order
    Variables, \* sa_variables, in the order of the configuration
    Cookie     \* sa_cookie, or ""

NoAffinity == 0

\* What is assigned to a variable or to a cookie: the number of a server, from
\* 0, when it begins with a digit, and a name otherwise.
Value == [numeric : BOOLEAN, number : Nat, name : STRING]
Number(n) == [numeric |-> TRUE, number |-> n, name |-> ""]
Name(s) == [numeric |-> FALSE, number |-> 0, name |-> s]

\* A variable or a cookie of the request, and what the end of a block that
\* comes in the middle of its value leaves of it.
Assignment == [to : STRING, value : Value, cut : Value]

\* A request: its query, its form and its cookies.
AskRecord == [query : Seq(Assignment), form : Seq(Assignment), cookies : Seq(Assignment)]

ASSUME ServerAffinityAssumption ==
    /\ Names \in Seq(STRING) /\ Len(Names) \in 1..32
    /\ Variables \in Seq(STRING) /\ Cookie \in STRING

---------------------------------------------------------------------------
\* The server, from 1, that a value names.
ServerOf(v) ==
    IF v.numeric THEN (IF v.number < Len(Names) THEN v.number + 1 ELSE NoAffinity)
    ELSE SelectInSeq(Names, LAMBDA n : n = v.name)

\* MUTANT of FirstNamed: one that names no server ends the search.
FirstNamedAtAll(assignments, name) ==
    LET i == SelectInSeq(assignments, LAMBDA a : a.to = name)
    IN  IF i = 0 THEN NoAffinity ELSE ServerOf(assignments[i].value)

\* mg_find_sa_variable_ex and its like for a multipart form: the first time the
\* name is given a value that names a server.
FirstNamed(assignments, name) ==
    LET i == SelectInSeq(assignments, LAMBDA a : a.to = name /\ ServerOf(a.value) # NoAffinity)
    IN  IF i = 0 THEN NoAffinity ELSE ServerOf(assignments[i].value)

\* What the first block of a long content holds of a form: so many assignments,
\* and the beginning of the next one.
InFirstBlock(form, whole) ==
    [i \in 1..(IF whole < Len(form) THEN whole + 1 ELSE Len(form)) |->
        IF i <= whole THEN form[i] ELSE [form[i] EXCEPT !.value = form[i].cut]]

\* The server that a variable names, in the query or else in the form.
NamedBy(ask, variable) ==
    LET inQuery == FirstNamed(ask.query, variable)
    IN  IF inQuery # NoAffinity THEN inQuery ELSE FirstNamed(ask.form, variable)

\* mg_find_sa_variable: the first of the variables that names one.
FindVariable(ask) ==
    LET n == SelectInSeq(Variables, LAMBDA variable : NamedBy(ask, variable) # NoAffinity)
    IN  IF n = 0 THEN NoAffinity ELSE NamedBy(ask, Variables[n])

FindCookie(ask) == IF Cookie = "" THEN NoAffinity ELSE FirstNamed(ask.cookies, Cookie)

\* sa_order: what the configuration mentions first, "variable" or "cookie".
\* Only mg_find_sa_variable makes its result the server of the request; that of
\* mg_find_sa_cookie decides whether the variables are looked at.
PreferredServer(order, ask) ==
    IF Len(Names) = 1 THEN NoAffinity
    ELSE CASE order = "variable" -> FindVariable(ask)
           [] order = "cookie" -> IF FindCookie(ask) = NoAffinity THEN FindVariable(ask) ELSE NoAffinity
           [] OTHER -> NoAffinity

---------------------------------------------------------------------------
(* For the properties: who names a server, the most important first.  A    *)
(* source is a variable, 1 for the query or 2 for the form, and a place.   *)

Part(ask, s) == IF s[2] = 1 THEN ask.query ELSE ask.form

Sources(ask) ==
    {s \in (DOMAIN Variables) \X {1, 2} \X (1..(Len(ask.query) + Len(ask.form))) :
        /\ s[3] <= Len(Part(ask, s))
        /\ Part(ask, s)[s[3]].to = Variables[s[1]]
        /\ ServerOf(Part(ask, s)[s[3]].value) # NoAffinity}

Before(s, t) ==
    \/ s[1] < t[1]
    \/ s[1] = t[1] /\ s[2] < t[2]
    \/ s[1] = t[1] /\ s[2] = t[2] /\ s[3] < t[3]

\* The server a request asks for with its variables.
AskedByVariable(ask) ==
    IF Sources(ask) = {} THEN NoAffinity
    ELSE LET first == CHOOSE s \in Sources(ask) : \A t \in Sources(ask) \ {s} : Before(s, t)
         IN  ServerOf(Part(ask, first)[first[3]].value)
===============================================================================
