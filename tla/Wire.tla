-------------------------------- MODULE Wire --------------------------------
(***************************************************************************)
(* A byte stream as the protocols of this repository see it.  Their        *)
(* parsers look for CR LF, or count bytes; so a stream is a sequence of    *)
(* tokens, where a CR, an LF and a run of text between them is one token   *)
(* each, and a record whose field text tells it apart.  TCP may cut the    *)
(* stream between any two tokens; a cut inside a run of text looks to      *)
(* these parsers like one before it.                                       *)
(***************************************************************************)
EXTENDS Naturals, Sequences, FiniteSetsExt

CR == [text |-> "CR"]
LF == [text |-> "LF"]
CRLF == <<CR, LF>>

\* Buffer::findCRLF: the place of the first CR LF in the readable bytes, or 0.
findCRLF(buf) ==
    LET places == {i \in 1 .. Len(buf) - 1 : SubSeq(buf, i, i + 1) = CRLF}
    IN  IF places = {} THEN 0 ELSE Min(places)

Line(buf) == SubSeq(buf, 1, findCRLF(buf) - 1)

\* Buffer::retrieve and retrieveUntil, of n bytes and of the line with its CR LF.
Retrieve(buf, n) == SubSeq(buf, n + 1, Len(buf))
RetrieveLine(buf) == Retrieve(buf, findCRLF(buf) + 1)
=============================================================================
