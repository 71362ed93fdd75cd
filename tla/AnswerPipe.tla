----------------------------- MODULE AnswerPipe -----------------------------
(***************************************************************************)
(* What the client of mg_web may rely on, whatever happens between mg_web  *)
(* and the DB Server: for each request a growing prefix of the content     *)
(* that the application wrote for it, and a verdict.                       *)
(***************************************************************************)
EXTENDS SequencesExt

VARIABLES
    content,  \* what the application wrote for this request
    seen,     \* what the client has received of it
    verdict   \* what the client takes it for

Verdicts == {"pending", "whole", "cut", "open", "error"}

Init == content = <<>> /\ seen = <<>> /\ verdict = "pending"

\* The next request, when the last one has its verdict.
Ask ==
    /\ verdict # "pending" \/ content = <<>>
    /\ seen' = <<>> /\ verdict' = "pending"

\* More of the content arrives.
Arrive ==
    /\ verdict = "pending" /\ UNCHANGED <<content, verdict>>
    /\ IsPrefix(seen, seen') /\ IsPrefix(seen', content)

\* The answer ends.  Only a whole one is taken for whole, and an error page
\* replaces the content rather than following a part of it.
Conclude ==
    /\ verdict = "pending" /\ UNCHANGED <<content, seen>>
    /\ verdict' \in Verdicts \ {"pending"}
    /\ verdict' = "whole" => seen = content
    /\ verdict' = "error" => seen = <<>>

Next == Ask \/ Arrive \/ Conclude

Spec == Init /\ [][Next]_<<content, seen, verdict>>
===========================================================================
