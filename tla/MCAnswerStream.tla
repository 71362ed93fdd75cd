--------------------------- MODULE MCAnswerStream ---------------------------
(***************************************************************************)
(* Instances of AnswerStream for TLC: buffers of four bytes, so that a few *)
(* bytes of content overrun one buffer, several, and both limits.          *)
(***************************************************************************)
EXTENDS AnswerStream

Answer(m, p) == [mode |-> m, parts |-> p, clen |-> FALSE, broken |-> FALSE]
Counted(m, p) == [Answer(m, p) EXCEPT !.clen = TRUE]
Broken(p) == [Answer("block", p) EXCEPT !.broken = TRUE]

\* Content that fits, that fills the buffer to the byte, and that exceeds it,
\* MaxClen and Chunking; a first block that holds the header alone.
MixedAnswers ==
    {Answer("plain", <<2>>), Answer("plain", <<7>>),
     Answer("ascii", <<1>>), Answer("ascii", <<4>>), Answer("ascii", <<7>>),
     Answer("block", <<0, 2>>), Answer("block", <<3, 6, 3>>), Counted("block", <<9, 3>>),
     Broken(<<1, 5>>), Broken(<<2, 5>>), Broken(<<3, 6, 4>>), Broken(<<4, 2, 9>>),
     Answer("sse", <<1, 1>>)}

\* These are answers that the theorems of AnswerStream_proofs speak of.
ASSUME MixedAnswersAreRegular == \A a \in MixedAnswers : Regular(a)

PlainAnswers == {Answer("plain", <<2>>), Answer("plain", <<7>>)}
===========================================================================
