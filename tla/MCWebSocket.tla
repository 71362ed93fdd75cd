---------------------------- MODULE MCWebSocket ----------------------------
(***************************************************************************)
(* Clients for TLC: fragments with control frames between them, lengths of *)
(* every form, and each way to be refused.                                 *)
(***************************************************************************)
EXTENDS WebSocket

Frame(op, data) == [fin |-> TRUE, rsv |-> FALSE, op |-> op, masked |-> TRUE, zero |-> FALSE,
                    form |-> 0, huge |-> FALSE, data |-> data]
Part(op, data) == [Frame(op, data) EXCEPT !.fin = FALSE]
Close == Frame(CloseOp, <<>>)

\* 195 169 is one character; 128 begins none.
Clients == {
    <<Part(Text, <<65, 195>>), Frame(PingOp, <<7>>), Frame(PingOp, <<8>>), Frame(0, <<169, 66>>),
      Close>>,
    <<[Frame(Binary, [i \in 1..12 |-> i]) EXCEPT !.form = 2], Frame(PongOp, <<9>>), Frame(PingOp, <<>>)>>,
    <<[Frame(Binary, <<128>>) EXCEPT !.form = 8], [Part(Text, <<224, 160>>) EXCEPT !.zero = TRUE],
      Frame(0, <<128>>)>>,
    <<Frame(Text, <<>>), Frame(Text, <<65>>), Frame(Text, <<65, 128, 66>>), Frame(Text, <<67>>)>>,
    <<Frame(Binary, <<1>>), [Frame(Binary, <<>>) EXCEPT !.form = 8, !.huge = TRUE]>>,
    <<Frame(Text, <<65>>), Frame(Text, <<66, 195>>), Frame(Text, <<67>>)>>,
    <<Frame(Text, <<65>>), Frame(0, <<66>>), Close>>,
    <<Part(Text, <<65>>), Frame(Binary, <<66>>), Close>>,
    <<Frame(Text, <<65>>), Part(PingOp, <<1>>), Frame(Text, <<66>>)>>,
    <<Frame(3, <<65>>), Frame(Text, <<66>>)>>,
    <<[Frame(Text, <<65>>) EXCEPT !.rsv = TRUE]>>,
    <<[Frame(Text, <<65, 66, 67, 68, 69>>) EXCEPT !.masked = FALSE]>>,
    <<Frame(Binary, <<1>>), [Frame(PingOp, <<1>>) EXCEPT !.form = 2]>> }
=============================================================================
