----------------------------- MODULE Retrieval -----------------------------
(***************************************************************************)
(* What the hybrid retriever computes between its database calls           *)
(* (packages/core/src/retriever): the two result lists are capped per      *)
(* record, fused by reciprocal ranks, capped again, cut to the limit and,  *)
(* when the experiment is on, followed along one hop of record relations.  *)
(*                                                                         *)
(* A candidate is a chunk together with the flag it carried when it was    *)
(* read.  Chunk ids are numbers so that "lexicographic" has a meaning;     *)
(* inside a record they follow section and seq.                            *)
(***************************************************************************)
EXTENDS Lists, Integers, FiniteSets, SequencesExt

CONSTANTS
    Chunks,               \* chunk ids
    RecordOf,             \* RecordOf[c]: the record chunk c was cut from
    SectionOf,            \* SectionOf[c]: the section of that record
    Relations,            \* [from, type, to]: the relations records declare
    VectorK, TextK,       \* candidates a path hands to the fusion
    Overfetch,            \* how many times more it asks the index for
    RrfK,                 \* the damping constant
    MaxChunksPerRecord,
    MaxRelationChunks     \* MAX_RELATION_CHUNKS

Records == {RecordOf[c] : c \in Chunks}

ASSUME RetrievalAssumption ==
    /\ Chunks \subseteq Nat /\ IsFiniteSet(Chunks) /\ IsFiniteSet(Relations)
    /\ DOMAIN RecordOf = Chunks /\ DOMAIN SectionOf = Chunks
    /\ \A e \in Relations : e.from \in Records /\ e.to \in Records /\ e.type \in 1 .. 3
    /\ {VectorK, TextK, Overfetch, RrfK, MaxChunksPerRecord} \subseteq Nat \ {0}
    /\ MaxRelationChunks \in Nat

Candidates == [chunk : Chunks, suspect : BOOLEAN]
Hits == [chunk : Chunks, suspect : BOOLEAN, via : {"search", "relation"}]

ChunksIn(list) == {list[i].chunk : i \in DOMAIN list}
RecordsIn(list) == {RecordOf[c] : c \in ChunksIn(list)}
Cut(list, k) == SubSeq(list, 1, IF Len(list) < k THEN Len(list) ELSE k)

-----------------------------------------------------------------------------
(* rrf.ts                                                                  *)

\* The 1-based rank of a chunk on a path; 0 (null in the code) when absent.
Rank(list, c) ==
    IF c \in ChunksIn(list)
    THEN CHOOSE i \in DOMAIN list : list[i].chunk = c ELSE 0

\* dedupeByRecordId: a candidate goes when MaxChunksPerRecord of its record
\* come before it.
Dedupe(list) ==
    LET Before(i) == {j \in 1 .. i - 1 : RecordOf[list[j].chunk] = RecordOf[list[i].chunk]}
    IN  Picked(list, {i \in DOMAIN list : Cardinality(Before(i)) < MaxChunksPerRecord})

\* Mutant: the list is cut before the records are capped.
Cap_CutFirst(list, k) == Dedupe(Cut(list, k))

\* capByRecordId
Cap(list, k) == Cut(Dedupe(list), k)

\* Mutant: an absent chunk is given rank 0 instead of no contribution.
Score_AbsentIsFirst(x, y) ==
    [num |-> (RrfK + x) + (RrfK + y), den |-> (RrfK + x) * (RrfK + y)]

\* The sum of 1 / (RrfK + rank) over the paths that found a chunk, at ranks
\* x and y, as a fraction.
Score(x, y) ==
    IF x = 0 THEN [num |-> 1, den |-> RrfK + y]
    ELSE IF y = 0 THEN [num |-> 1, den |-> RrfK + x]
    ELSE [num |-> (RrfK + x) + (RrfK + y), den |-> (RrfK + x) * (RrfK + y)]

BestRank(x, y) == IF x = 0 \/ (y # 0 /\ y < x) THEN y ELSE x

\* A chunk with its place in the fusion.
Entry(v, t, c) == [chunk |-> c, score |-> Score(Rank(v, c), Rank(t, c)),
                   best |-> BestRank(Rank(v, c), Rank(t, c))]

\* The comparator: the higher score, the better rank, the smaller id.
Precedes(a, b) ==
    LET left == a.score.num * b.score.den
        right == b.score.num * a.score.den
    IN  \/ left > right
        \/ left = right /\ (a.best < b.best \/ (a.best = b.best /\ a.chunk < b.chunk))

\* fuseRrf: of a chunk both paths found, the vector path's copy is kept.  With
\* the empty list before it TLC computes the list once, not at every look.
Fuse(v, t) ==
    LET entries == {Entry(v, t, c) : c \in ChunksIn(v) \cup ChunksIn(t)}
        order == Sorted(entries, Precedes)
        Copy(c) == IF c \in ChunksIn(v) THEN v[Rank(v, c)] ELSE t[Rank(t, c)]
    IN  <<>> \o [i \in 1 .. Cardinality(entries) |-> Copy(order[i].chunk)]

\* The search hits of a request, from the two lists as they were read.
\* Each list stands in a singleton, so that TLC computes it once.
TopHits(vector, text, limit) ==
    LET fused == {Fuse(v, t) : v \in {Cap(vector, VectorK)}, t \in {Cap(text, TextK)}}
    IN  CHOOSE top \in {Cut(Dedupe(f), limit) : f \in fused} : TRUE

-----------------------------------------------------------------------------
(* relation-expansion.ts                                                   *)

\* EXPANDABLE_RELATION_TYPES: recurrence_of, same_root_cause; 3 is any other.
ExpandableTypes == 1 .. 2

\* EXPANDED_SECTIONS, in their order of preference.
ExpandedSections == <<"resolution", "prevention">>
SectionRank(s) == CHOOSE i \in DOMAIN ExpandedSections : ExpandedSections[i] = s

\* The first position of record r among the entries.
EntryRank(entries, r) == CHOOSE i \in DOMAIN entries :
    /\ RecordOf[entries[i].chunk] = r
    /\ \A j \in 1 .. i - 1 : RecordOf[entries[j].chunk] # r

\* parseRelationTargets: one hop along expandable relations from the records
\* of the entries to other records that exist; ids stand for their order.
RelationTargets(entries, present) ==
    LET edges == {e \in Relations : /\ e.from \in RecordsIn(entries) \cap present
                                    /\ e.type \in ExpandableTypes
                                    /\ e.to \in present \ {e.from}}
        Before(a, b) ==
            LET ra == EntryRank(entries, a.from) rb == EntryRank(entries, b.from)
            IN  \/ ra < rb
                \/ ra = rb /\ a.type < b.type
                \/ ra = rb /\ a.type = b.type /\ a.to < b.to
    IN  Sorted(edges, Before)

\* buildRelationChunkPipeline: the chunks the expansion may take.
Expandable(targets, indexed) ==
    {c \in indexed : /\ RecordOf[c] \in {targets[i].to : i \in DOMAIN targets}
                     /\ SectionOf[c] \in ToSet(ExpandedSections)}

\* Target by target, resolution before prevention, then by seq.
ExpansionOrder(targets, found) ==
    LET Position(c) == CHOOSE i \in DOMAIN targets :
            /\ targets[i].to = RecordOf[c]
            /\ \A j \in 1 .. i - 1 : targets[j].to # RecordOf[c]
        Before(a, b) ==
            LET sa == SectionRank(SectionOf[a]) sb == SectionRank(SectionOf[b])
            IN  \/ Position(a) < Position(b)
                \/ Position(a) = Position(b) /\ (sa < sb \/ (sa = sb /\ a < b))
    IN  Sorted(found, Before)

\* selectExpansionChunks: nothing twice, nothing the search has found,
\* MaxRelationChunks in all.
SelectExpansion(found, targets, exclude) ==
    Cut(ExpansionOrder(targets, found \ exclude), MaxRelationChunks)
=============================================================================
