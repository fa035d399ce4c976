--------------------------- MODULE MCMessageSplit ---------------------------
(***************************************************************************)
(* Texts of three to five pieces: words and lines that a limit of 60 cuts  *)
(* in every way, and fences that open and close code blocks between them;  *)
(* and texts that begin with a long line behind a fence.                   *)
(***************************************************************************)
EXTENDS MessageSplit
Word(n)  == [i \in 1..n |-> "x"]
Ticks    == <<"tick", "tick", "tick">>
MCPieces == {Word(15) \o <<"space">>, Word(31) \o <<"newline">>, Word(28), Word(40),
             <<"newline">> \o Ticks \o <<"x", "newline">>, <<"newline">> \o Ticks \o <<"newline">>}
MCTexts  == UNION {{FlattenSeq(p) : p \in [1..k -> MCPieces]} : k \in 3..5}
MCLong   == {Ticks \o Word(n) \o <<"newline">> \o Word(40) : n \in {20, 52, 60}}
=============================================================================
