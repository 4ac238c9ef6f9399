---------------------------- MODULE MCAnswering ----------------------------
(* Instances of Answering for TLC.                                         *)
EXTENDS Answering

\* Chunks 1 and 2 are pieces of one section of record 1; record 2 recurs
\* from record 3, which nothing but the relation need find.
MCChunks == 1 .. 4
MCRecordOf == <<1, 1, 2, 3>>
MCSectionOf == <<"resolution", "resolution", "symptom", "resolution">>
Relation(from, type, to) == [from |-> from, type |-> type, to |-> to]
MCRelations == {Relation(2, 1, 3), Relation(1, 2, 3), Relation(3, 1, 3), Relation(1, 3, 2)}

Sentence(k, cites, copies) == [kind |-> k, cites |-> cites, copies |-> copies, inner |-> FALSE]
Inner(sentence) == [sentence EXCEPT !.inner = TRUE]
Fabricated == {<<9, "resolution">>}
Cited == Sentence("text", {CitationOf(1)}, 0)
Uncited == Sentence("text", {}, 0)
Copied4 == Sentence("text", {}, 4)
Fence == Sentence("fence", {}, 0)
Blank == Sentence("blank", {}, 0)

\* Sentences with a citation, with a made-up one and with none, alone on a line
\* or with more after them, a command copied from a record, a heading, a
\* fence, and a cited sentence that begins with three backticks.
MCPieces == {Cited, Inner(Cited), Uncited, Inner(Sentence("text", Fabricated, 0)),
             Copied4, Sentence("label", {}, 0), Fence, Sentence("fence", {CitationOf(1)}, 0)}

\* At most two pieces, alone, before a block of code or around one.
MCOpenings == BoundedSeq(MCPieces, 1) \cup
    {<<a, b>> : a \in {Cited, Inner(Cited), Uncited, Inner(Sentence("text", Fabricated, 0))},
                b \in MCPieces}
MCBlocks == {<<Fence, Copied4>>, <<Fence, Uncited, Fence>>}
MCWritten == MCOpenings \cup {o \o b : o \in MCOpenings, b \in MCBlocks}
                \cup {<<Inner(Cited), Uncited>> \o b \o <<Cited>> : b \in MCBlocks}

\* Answers of at most five pieces with blank lines.
MCSparsePieces == {Cited, Inner(Cited), Uncited, Fence, Blank}
MCSparseWritten == BoundedSeq(MCSparsePieces, 5)
=============================================================================
