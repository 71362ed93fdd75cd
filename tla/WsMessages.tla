----------------------------- MODULE WsMessages -----------------------------
(***************************************************************************)
(* What a WebSocket promises to the DB Server: it hears the messages of the*)
(* client, each of them once, whole and in the order they were sent; when  *)
(* the conversation is over it has heard all of them, unless something was *)
(* cut off on the way.                                                     *)
(***************************************************************************)
EXTENDS Naturals, Sequences

VARIABLES
    said,   \* the complete messages of the client
    heard,  \* what the DB Server has received
    over    \* "no", "whole" or "cut"

vars == <<said, heard, over>>

Init == said \in Seq(Seq(0..255)) /\ heard = <<>> /\ over = "no"

Hear ==
    /\ over = "no"
    /\ Len(heard) < Len(said)
    /\ heard' = Append(heard, said[Len(heard) + 1])
    /\ UNCHANGED <<said, over>>

End ==
    /\ over = "no"
    /\ over' \in {"whole", "cut"}
    /\ over' = "whole" => heard = said
    /\ UNCHANGED <<said, heard>>

Spec == Init /\ [][Hear \/ End]_vars
=============================================================================
