---------------------------- MODULE MessageSplit ----------------------------
(***************************************************************************)
(* pkg/channels/split.go, SplitMessage: a text that is longer than the     *)
(* platform allows becomes several chunks, cut at a newline or a space,    *)
(* with a code block that has to be cut closed in one chunk and opened     *)
(* again in the next.  The manager cuts every outgoing text this way.      *)
(*                                                                         *)
(* A rune is a record of its kind and its place in the text, 0 if          *)
(* SplitMessage has added it.  Indices count from 0, as in the code: rune  *)
(* i is rest[i + 1].  One step is one turn of the loop; `start' is 0,      *)
(* since what precedes it is cut off.                                      *)
(***************************************************************************)
EXTENDS Integers, Sequences, FiniteSets, SequencesExt

CONSTANTS Messages,   \* the texts, sequences of "tick", "newline", "space", and "x" for the rest
          Limits      \* maxLen

RuneKinds == {"tick", "newline", "space", "x"}
White == {"newline", "space"}

ASSUME SplitAssumption == Messages \subseteq Seq(RuneKinds) /\ Limits \subseteq Nat \ {0}

VARIABLES content,   \* the text
          maxLen,
          rest,      \* what is not in a chunk yet
          chunks,    \* messages
          splitting  \* the loop goes on
splitVars == <<content, maxLen, rest, chunks, splitting>>

Rune(kind, from) == [kind |-> kind, from |-> from]
SplitInit ==
    /\ \E text \in Messages : content = [i \in 1..Len(text) |-> Rune(text[i], i)]
    /\ maxLen \in Limits /\ rest = content /\ chunks = <<>> /\ splitting = TRUE

Largest(S)  == CHOOSE i \in S : \A j \in S : j <= i
Smallest(S) == CHOOSE i \in S : \A j \in S : i <= j
AtMost(a, b) == IF a < b THEN a ELSE b
AtLeast(a, b) == IF a > b THEN a ELSE b
Is(i, kinds) == rest[i + 1].kind \in kinds
\* findLastNewlineInRange, findLastSpaceInRange: -1 if there is none.
FindLast(kinds, end, window) ==
    LET found == {i \in AtLeast(end - window, 0)..end - 1 : Is(i, kinds)}
    IN  IF found = {} THEN -1 ELSE Largest(found)
Fence(i, end) == i + 2 < end /\ \A d \in 0..2 : Is(i + d, {"tick"})
\* findLastUnclosedCodeBlockInRange: each fence opens or closes a block.
UnclosedCodeBlock(end) ==
    LET Scan(s, i) == IF i < s.next \/ ~Fence(i, end) THEN s
                      ELSE [next |-> i + 3, inside |-> ~s.inside, at |-> IF s.inside THEN s.at ELSE i]
        scanned[k \in 0..end] ==
            IF k = 0 THEN [next |-> 0, inside |-> FALSE, at |-> -1] ELSE Scan(scanned[k - 1], k - 1)
    IN  IF scanned[end].inside THEN scanned[end].at ELSE -1
\* findNextClosingCodeBlockInRange: the index after the fence.
ClosingCodeBlock(from) ==
    LET fences == {i \in from..Len(rest) - 1 : Fence(i, Len(rest))}
    IN  IF fences = {} THEN -1 ELSE Smallest(fences) + 3

CodeBlockBuffer == AtMost(AtLeast(maxLen \div 10, 50), maxLen \div 2)
EffectiveLimit  == AtLeast(maxLen - CodeBlockBuffer, maxLen \div 2)
\* The cut that a text without code blocks gets.
NaturalEnd ==
    LET newline == FindLast({"newline"}, EffectiveLimit, 200)
        space   == FindLast({"space"}, EffectiveLimit, 100)
    IN  IF newline > 0 THEN newline ELSE IF space > 0 THEN space ELSE EffectiveLimit

TrimmedRight(s) == LET ink == {i \in DOMAIN s : s[i].kind \notin White}
                   IN  IF ink = {} THEN <<>> ELSE SubSeq(s, 1, Largest(ink))
TrimmedLeft(s)  == LET ink == {i \in DOMAIN s : s[i].kind \notin White}
                   IN  IF ink = {} THEN <<>> ELSE SubSeq(s, Smallest(ink), Len(s))
Added(s) == [i \in DOMAIN s |-> Rune(s[i].kind, 0)]
Newline  == <<Rune("newline", 0)>>
Closing  == Newline \o [i \in 1..3 |-> Rune("tick", 0)]

\* A chunk is cut off, and the white space after it.
CutAt(end) ==
    LET cut == IF end <= 0 THEN EffectiveLimit ELSE end
    IN  /\ chunks' = Append(chunks, SubSeq(rest, 1, cut))
        /\ rest' = TrimmedLeft(SubSeq(rest, cut + 1, Len(rest)))
        /\ splitting' = (rest' # <<>>)
\* a cut that does not close the block
CutInside_LeavesOpen(end, header) ==
    /\ chunks' = Append(chunks, TrimmedRight(SubSeq(rest, 1, end)))
    /\ rest' = TrimmedRight(TrimmedLeft(Added(header) \o Newline \o SubSeq(rest, end + 1, Len(rest))))
    /\ splitting' = (rest' # <<>>)
\* The block is closed in this chunk, and opened with its header in the next.
CutInside(end, header) ==
    /\ chunks' = Append(chunks, TrimmedRight(SubSeq(rest, 1, end)) \o Closing)
    /\ rest' = TrimmedRight(TrimmedLeft(Added(header) \o Newline \o SubSeq(rest, end + 1, Len(rest))))
    /\ splitting' = (rest' # <<>>)

\* Room is left for the fence.
InnerLimit == AtMost(maxLen - 5, Len(rest))

\* The block at `open' does not fit: after its header, before it, or, in the end, inside.
CutBlock(open, msgEnd) ==
    LET ends      == {i \in open..Len(rest) - 1 : Is(i, {"newline"})}
        header    == TrimmedRight(IF ends = {} THEN SubSeq(rest, open + 1, open + 3)
                                  ELSE SubSeq(rest, open + 1, Smallest(ends)))
        headerEnd == IF ends = {} THEN open + Len(header) ELSE Smallest(ends)
        better    == FindLast({"newline"}, InnerLimit, 200)
        newline   == FindLast({"newline"}, open, 200)
        before    == IF newline > 0 THEN newline ELSE FindLast({"space"}, open, 100)
    IN  IF msgEnd > headerEnd + 20 THEN CutInside(IF better > headerEnd THEN better ELSE InnerLimit, header)
        ELSE IF before > 0 THEN CutAt(before)
        ELSE IF open > 20 THEN CutAt(open)
        ELSE CutInside(InnerLimit, header)

SplitStep ==
    /\ splitting /\ UNCHANGED <<content, maxLen>>
    /\ IF Len(rest) <= maxLen THEN chunks' = Append(chunks, rest) /\ rest' = <<>> /\ splitting' = FALSE
       ELSE LET open    == UnclosedCodeBlock(NaturalEnd)
                closing == ClosingCodeBlock(NaturalEnd)
            IN  IF open < 0 THEN CutAt(NaturalEnd)
                ELSE IF closing > 0 /\ closing <= maxLen THEN CutAt(closing)
                ELSE CutBlock(open, NaturalEnd)

SplitSpec == SplitInit /\ [][SplitStep]_splitVars
-----------------------------------------------------------------------------
Shows(r) == r.from # 0 /\ r.kind \notin White
\* The runes of the text that are in s and show.
Ink(s) == LET ink[k \in 0..Len(s)] ==
                  IF k = 0 THEN <<>> ELSE IF Shows(s[k]) THEN Append(ink[k - 1], s[k]) ELSE ink[k - 1]
          IN  ink[Len(s)]
InkOfAll(pieces) == LET ink[k \in 0..Len(pieces)] == IF k = 0 THEN <<>> ELSE ink[k - 1] \o Ink(pieces[k])
                    IN  ink[Len(pieces)]
Fences(s)  == {i \in 1..Len(s) - 2 : \A d \in 0..2 : s[i + d].kind = "tick"}
Closed(s)  == Cardinality(Fences(s)) % 2 = 0

\* Nothing of the text is lost, repeated or moved by the cuts, apart from white space.
InkKept == InkOfAll(chunks) \o Ink(rest) = Ink(content)
\* No chunk is longer than the platform takes.
ChunksFit == \A k \in DOMAIN chunks : Len(chunks[k]) <= maxLen
\* If the code blocks of the text are closed, so are those of every chunk (split.go:7), as
\* long as fences begin a line.
BlocksClosed == Closed(content) => \A k \in DOMAIN chunks : Closed(chunks[k])

\* A fence begins the text or a line of it.
Lined(s) == \A i \in Fences(s) : i = 1 \/ s[i - 1].kind = "newline"
\* What the last promise is made for (the least limit of a channel is 100, of Telegram's second split).
LinedMessages == /\ \A text \in Messages : Lined([i \in 1..Len(text) |-> Rune(text[i], i)])
                 /\ \A n \in Limits : n >= 10
\* Each turn leaves less to split, so that the loop ends.  (Does not hold when the
\* first line of a code block is about as long as a chunk: the header that is repeated
\* is then as long as what was taken away.)
SplitAdvances == [][Len(rest') < Len(rest)]_splitVars

\* What splitting keeps, text, lengths and code blocks: the three of above.
SplitSound == InkKept /\ ChunksFit /\ BlocksClosed
=============================================================================
