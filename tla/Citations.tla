----------------------------- MODULE Citations -----------------------------
(***************************************************************************)
(* The check of an answer against the context it was generated from        *)
(* (packages/core/src/generator/citation.ts).  An answer is the sequence   *)
(* of the pieces it is split into, sentences and whole lines of code:      *)
(*   kind    fence (begins with ```), blank, label (headings, rules,       *)
(*           tables and short labels, which claim nothing) or text,        *)
(*   cites   the [REC-...#...] markers in the piece,                       *)
(*   copies  the chunk the piece was copied from, 0 when it was made up,   *)
(*   inner   more of its line follows: the newline is that of the last     *)
(*           piece.  A line whose last sentence has its full stop leaves   *)
(*           the newline as a blank piece.                                 *)
(***************************************************************************)
EXTENDS Lists, Integers, FiniteSets, SequencesExt

StartsLine(answer, i) == i = 1 \/ ~answer[i - 1].inner

\* isFenceLine looks at whole lines only.
FenceLine(answer, i) == answer[i].kind = "fence" /\ StartsLine(answer, i)

\* The piece is preceded by an odd number of fence lines.
InFence(answer, i) == Cardinality({j \in 1 .. i - 1 : FenceLine(answer, j)}) % 2 = 1

\* nonClaimReason: blank is decided before code, also inside a fence.  Three
\* backticks within a line are text.
Piece(answer, i) ==
    IF answer[i].kind = "blank" THEN "blank"
    ELSE IF FenceLine(answer, i) \/ InFence(answer, i) THEN "code"
    ELSE IF answer[i].kind = "fence" THEN "text"
    ELSE answer[i].kind

\* What splitAnswerSentences returns for some text: a line of code, or a blank
\* one, is one piece, and blank is only the rest of a line.
WellSplit(answer) ==
    \A i \in DOMAIN answer :
        answer[i].inner => i < Len(answer) /\ Piece(answer, i) \notin {"blank", "code"}
                           /\ ~InFence(answer, i)

Claims(answer) == {i \in DOMAIN answer : Piece(answer, i) = "text"}

CitedOk(piece, allowed) == piece.cites # {} /\ piece.cites \subseteq allowed

\* The code joined to piece i without another kind of piece between.
Block(answer, i) ==
    {j \in DOMAIN answer :
        \A k \in DOMAIN answer :
            (i <= k /\ k <= j) \/ (j <= k /\ k <= i) => Piece(answer, k) = "code"}

\* The nearest pieces around a block that are not blank, if any.
Neighbours(answer, block) ==
    {j \in DOMAIN answer \ block :
        /\ Piece(answer, j) # "blank"
        /\ \E i \in block : \A k \in DOMAIN answer :
              (i < k /\ k < j) \/ (j < k /\ k < i) =>
                  k \in block \/ Piece(answer, k) = "blank"}

\* The block without its fences occurs in one text of the context.
Copied(answer, block, texts) ==
    LET body == {j \in block : answer[j].kind # "fence"}
    IN  body # {} /\ \E c \in texts : \A j \in body : answer[j].copies = c

\* ungroundedCodeIndexes
UngroundedCode(answer, allowed, texts) ==
    {i \in DOMAIN answer :
        LET block == Block(answer, i)
        IN  /\ Piece(answer, i) = "code"
            /\ ~\E j \in Neighbours(answer, block) : CitedOk(answer[j], allowed)
            /\ ~Copied(answer, block, texts)}

\* verifyAnswerCitations: the pieces with a violation ...
Violations(answer, allowed, texts) ==
    {i \in Claims(answer) : ~CitedOk(answer[i], allowed)}
        \cup UngroundedCode(answer, allowed, texts)

\* ... and its verdict: an answer that claims nothing is not grounded either.
Verified(answer, allowed, texts) ==
    Claims(answer) # {} /\ Violations(answer, allowed, texts) = {}

\* stripUngroundedSentences: what is left, as it was, and whether it is an
\* answer.  A last piece takes the newline of its line with it: what follows
\* is joined to what is left of that line, and is read as a part of it.  (Two
\* sentences joined so are two pieces still; in the text they may be one.)
Stripped(answer, bad) == Picked(answer, DOMAIN answer \ bad)

\* Mutant: anything that is left is an answer.
StillGrounded_AnythingLeft(answer, bad) == DOMAIN answer \ bad # {}

StillGrounded(answer, bad) == \E i \in Claims(answer) \ bad : answer[i].cites # {}
=============================================================================
