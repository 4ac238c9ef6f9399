----------------------------- MODULE Answering -----------------------------
(***************************************************************************)
(* One request to POST /v1/search or POST /v1/answer, one step per await:  *)
(* the query is embedded, both search paths are read in either order, the  *)
(* relations are followed when the experiment is on, the records are read, *)
(* and for an answer the model is called behind the gate, at most once     *)
(* again after its citations were rejected.  Between any two steps the     *)
(* collections change under the request: the reads share no snapshot.      *)
(***************************************************************************)
EXTENDS Retrieval, Citations

CONSTANTS
    FinalK,              \* hits of an answer
    SearchLimit,         \* SearchRequest.limit
    RelationExpansion,   \* RELATION_EXPANSION
    Scores,              \* raw cosines
    Threshold,           \* SIMILARITY_THRESHOLD
    Pieces,              \* the sentences and lines of code models write
    Written,             \* the answers tried out
    MaxChanges,          \* bound: changes of the collections
    NotRead              \* a list that has not come back

MaxRegenerations == 1

ASSUME AnsweringAssumption ==
    /\ {FinalK, SearchLimit} \subseteq Nat \ {0}
    /\ RelationExpansion \in BOOLEAN
    /\ Scores \subseteq Int /\ Threshold \in Int
    /\ Written \subseteq Seq(Pieces) /\ MaxChanges \in Nat
    /\ \A p \in Pieces : p.kind \in {"fence", "blank", "label", "text"} /\ p.inner \in BOOLEAN

VARIABLES
    indexed, flagged, present, changes,          \* the collections
    pc, kind, vector, text, best, picks, hits,   \* retrieve
    calls, draft, outcome,                       \* generateAnswer
    seenClean                                    \* history, see ChangeFlag

collections == <<indexed, flagged, present, changes>>
lists == <<vector, text, best>>
generation == <<calls, draft, outcome>>
answeringVars == <<collections, pc, kind, lists, picks, hits, generation, seenClean>>

\* maxVectorScore, as the set that holds it: null is the empty set.
NoScore == {}

\* [REC-{recordId}#{section}]: chunks of one section share their citation.
CitationOf(c) == <<RecordOf[c], SectionOf[c]>>

\* The answer is trimmed and must not be empty.
Drafts == {d \in Written : /\ d # <<>> /\ WellSplit(d)
                            /\ d[1].kind # "blank" /\ Last(d).kind # "blank"}

AnsweringTypeOK ==
    /\ indexed \subseteq Chunks /\ flagged \subseteq Chunks
    /\ present \subseteq Records /\ changes \in 0 .. MaxChanges
    /\ pc \in {"idle", "embedding", "querying", "relating", "expanding",
               "loading", "generating", "done"}
    /\ kind \in {"search", "answer"}
    /\ vector = NotRead \/ (/\ \A i \in DOMAIN vector : vector[i] \in Candidates
                            /\ Len(vector) <= VectorK * Overfetch)
    /\ text = NotRead \/ (/\ \A i \in DOMAIN text : text[i] \in Candidates
                          /\ Len(text) <= TextK * Overfetch)
    /\ best \in {NoScore} \cup {{s} : s \in Scores}
    /\ \A i \in DOMAIN picks : picks[i] \in Relations
    /\ \A i \in DOMAIN hits : hits[i] \in Hits
    /\ \A i, j \in DOMAIN hits : hits[i].chunk = hits[j].chunk => i = j
    /\ calls \in 0 .. 1 + MaxRegenerations
    /\ draft = <<>> \/ draft \in Drafts
    /\ outcome \in {"none", "error", "listed", "found", "below-threshold",
                    "no-usable-context", "grounding-violation"}
    /\ seenClean \subseteq Chunks

AnsweringInit ==
    /\ indexed = Chunks /\ flagged = {} /\ present = Records /\ changes = 0
    /\ pc = "idle" /\ kind = "search"
    /\ vector = NotRead /\ text = NotRead /\ best = NoScore
    /\ picks = <<>> /\ hits = <<>>
    /\ calls = 0 /\ draft = <<>> /\ outcome = "none"
    /\ seenClean = {}

-----------------------------------------------------------------------------
(* The collections, changed by the workers, the records API and by hand.   *)

Change == changes < MaxChanges /\ changes' = changes + 1

\* A chunk is ingested or purged.
ChangeIndex(c) ==
    /\ Change
    /\ indexed' = IF c \in indexed THEN indexed \ {c} ELSE indexed \cup {c}
    /\ UNCHANGED <<flagged, present, pc, kind, lists, picks, hits, generation, seenClean>>

\* The injection-suspect flag of a chunk is set, or overwritten by an older
\* copy.  seenClean: the chunks that were without it since the request came.
ChangeFlag(c) ==
    /\ Change
    /\ flagged' = IF c \in flagged THEN flagged \ {c} ELSE flagged \cup {c}
    /\ seenClean' = IF c \in flagged THEN seenClean \cup {c} ELSE seenClean
    /\ UNCHANGED <<indexed, present, pc, kind, lists, picks, hits, generation>>

\* A record is removed by hand: its chunks are orphans.
RemoveRecord(r) ==
    /\ Change
    /\ present' = present \ {r}
    /\ UNCHANGED <<indexed, flagged, pc, kind, lists, picks, hits, generation, seenClean>>

-----------------------------------------------------------------------------
(* retrieve                                                                *)

\* A request with a query that is not blank.
Accept(k) ==
    /\ pc \in {"idle", "done"}
    /\ pc' = "embedding" /\ kind' = k
    /\ vector' = NotRead /\ text' = NotRead /\ best' = NoScore
    /\ picks' = <<>> /\ hits' = <<>>
    /\ calls' = 0 /\ draft' = <<>> /\ outcome' = "none"
    /\ seenClean' = Chunks \ flagged
    /\ UNCHANGED collections

EmbedQuery ==
    /\ pc = "embedding"
    /\ pc' = "querying"
    /\ UNCHANGED <<collections, kind, lists, picks, hits, generation, seenClean>>

\* What an index may return: its nearest chunks, approximately.
Answers(k) == {l \in SetToAllKPermutations(indexed) : Len(l) <= k * Overfetch}
AsRead(list) == [i \in DOMAIN list |-> [chunk |-> list[i], suspect |-> list[i] \in flagged]]

Limit == IF kind = "search" THEN SearchLimit ELSE FinalK

AsHits(list, via) == [i \in DOMAIN list |-> [chunk |-> list[i].chunk, via |-> via,
                                             suspect |-> list[i].suspect]]

\* Mutant: each search looks for the other list before its own is stored.
AfterReading_Stale(v, t) ==
    IF NotRead \in {vector, text} THEN UNCHANGED <<pc, hits>>
    ELSE /\ hits' = AsHits(TopHits(v, t, Limit), "search")
         /\ pc' = IF RelationExpansion THEN "relating" ELSE "loading"

\* Promise.all: once both lists are there, they are fused.
AfterReading(v, t) ==
    IF NotRead \in {v, t} THEN UNCHANGED <<pc, hits>>
    ELSE /\ hits' = AsHits(TopHits(v, t, Limit), "search")
         /\ pc' = IF RelationExpansion THEN "relating" ELSE "loading"

SearchVector ==
    /\ pc = "querying" /\ vector = NotRead
    /\ \E list \in Answers(VectorK) :
          /\ vector' = AsRead(list)
          /\ IF list = <<>> THEN best' = NoScore ELSE \E s \in Scores : best' = {s}
    /\ AfterReading(vector', text)
    /\ UNCHANGED <<collections, kind, text, picks, generation, seenClean>>

SearchText ==
    /\ pc = "querying" /\ text = NotRead
    /\ \E list \in Answers(TextK) : text' = AsRead(list)
    /\ AfterReading(vector, text')
    /\ UNCHANGED <<collections, kind, vector, best, picks, generation, seenClean>>

\* $graphLookup; without targets the chunks are not asked for.
FollowRelations ==
    /\ pc = "relating"
    /\ picks' = RelationTargets(hits, present)
    /\ pc' = IF picks' = <<>> THEN "loading" ELSE "expanding"
    /\ UNCHANGED <<collections, kind, lists, hits, generation, seenClean>>

\* The expansion follows the search hits.
ExpandHits ==
    /\ pc = "expanding"
    /\ LET chosen == SelectExpansion(Expandable(picks, indexed), picks, ChunksIn(hits))
       IN  hits' = hits \o AsHits(AsRead(chosen), "relation")
    /\ picks' = <<>> /\ pc' = "loading"
    /\ UNCHANGED <<collections, kind, lists, generation, seenClean>>

-----------------------------------------------------------------------------
(* generateAnswer                                                          *)

\* evaluateThresholdGate: what cannot be judged passes.
GatePasses(score) == \A s \in score : s >= Threshold

\* Mutant: only what the search itself found is screened.
Context_SearchedOnly(list) ==
    {list[i].chunk : i \in {j \in DOMAIN list : list[j].via = "relation" \/ ~list[j].suspect}}

\* buildGenerationContext: the chunks the model is shown; suspects are left out.
Context(list) == {list[i].chunk : i \in {j \in DOMAIN list : ~list[j].suspect}}

\* Mutant: the context is built from what the gate would see.
Verdict_ContextFirst(score, list) ==
    IF Context(list) # {} THEN "generate"
    ELSE IF ~GatePasses(score) THEN "below-threshold" ELSE "no-usable-context"

\* Why the model is not called, or that it is.
Verdict(score, list) ==
    IF ~GatePasses(score) THEN "below-threshold"
    ELSE IF Context(list) = {} THEN "no-usable-context" ELSE "generate"

\* Chunks without a record cannot be cited and go.  A search is answered
\* then, an answer passes the gate or not, all without another await.
LoadRecordMeta ==
    /\ pc = "loading"
    /\ hits' = Picked(hits, {i \in DOMAIN hits : RecordOf[hits[i].chunk] \in present})
    /\ outcome' = IF kind = "search" THEN "listed"
                  ELSE IF Verdict(best, hits') = "generate" THEN "none"
                  ELSE Verdict(best, hits')
    /\ pc' = IF outcome' = "none" THEN "generating" ELSE "done"
    /\ vector' = NotRead /\ text' = NotRead   \* no longer used
    /\ UNCHANGED <<collections, kind, best, picks, calls, draft, seenClean>>

\* The citations the model was shown and the texts it was given.
Allowed == {CitationOf(c) : c \in Context(hits)}
Texts == Context(hits)

\* A rejected draft is generated again once, then its bad pieces go.
ModelAnswers ==
    /\ pc = "generating"
    /\ calls' = calls + 1
    /\ \E d \in Drafts, allowed \in {Allowed}, texts \in {Texts} :
          LET ok == Verified(d, allowed, texts)
              again == ~ok /\ calls < MaxRegenerations
              kept == ~again /\ StillGrounded(d, Violations(d, allowed, texts))
          IN  /\ pc' = IF again THEN "generating" ELSE "done"
              /\ outcome' = IF again THEN "none"
                            ELSE IF ok \/ kept THEN "found"
                            ELSE "grounding-violation"
              /\ draft' = IF outcome' = "found" THEN d ELSE <<>>
    /\ UNCHANGED <<collections, kind, lists, picks, hits, seenClean>>

\* Any call throws, an empty answer is refused: the request ends in an error.
Throws ==
    /\ pc \notin {"idle", "done"}
    /\ pc' = "done" /\ outcome' = "error"
    /\ vector' = NotRead /\ text' = NotRead /\ picks' = <<>> /\ hits' = <<>>
    /\ draft' = <<>>
    /\ UNCHANGED <<collections, kind, best, calls, seenClean>>

\* What the client is sent: the answer, stripped when it had violations, and
\* the citations of the chunks of the context (toCitations).
Delivered == IF Verified(draft, Allowed, Texts) THEN draft
             ELSE Stripped(draft, Violations(draft, Allowed, Texts))

ResponseCitations == {CitationOf(c) : c \in ChunksIn(hits) \cap Context(hits)}

Proceeds == \/ EmbedQuery \/ SearchVector \/ SearchText \/ FollowRelations
            \/ ExpandHits \/ LoadRecordMeta \/ ModelAnswers

AnsweringNext ==
    \/ \E c \in Chunks : ChangeIndex(c) \/ ChangeFlag(c)
    \/ \E r \in Records : RemoveRecord(r)
    \/ \E k \in {"search", "answer"} : Accept(k)
    \/ Proceeds
    \/ Throws

\* Every awaited call returns unless it throws: the clients have timeouts.
AnsweringSpec == AnsweringInit /\ [][AnsweringNext]_answeringVars
FairAnsweringSpec == AnsweringSpec /\ WF_answeringVars(Proceeds)

-----------------------------------------------------------------------------
(* Properties.                                                             *)

ListsAreThere == NotRead \notin {vector, text}

\* rrf.ts:115-128: a long record does not take the slots of the others.  The
\* hits show as many records as fit beside each other, though the limit is
\* reached by the chunks of one.
SlotsAreShared ==
    LET Slots(k) == (k + MaxChunksPerRecord - 1) \div MaxChunksPerRecord
        Fewest(a, b) == IF a < b THEN a ELSE b
    IN  ListsAreThere =>
            Cardinality(RecordsIn(hits)) >=
                Fewest(Slots(Limit), Fewest(Slots(VectorK), Cardinality(RecordsIn(vector))))

\* rrf.ts:27-37: a chunk that no path ranks below another, and one path ranks
\* above it, comes before it; being found by one path only is no advantage.
BetterRankedComesFirst ==
    ListsAreThere =>
        \A v \in {Cap(vector, VectorK)}, t \in {Cap(text, TextK)} : \A fused \in {Fuse(v, t)} :
        LET NoWorse(list, a, b) == Rank(list, b) # 0 => Rank(list, a) \in 1 .. Rank(list, b)
        IN  \A i, j \in DOMAIN fused :
                LET a == fused[i].chunk b == fused[j].chunk
                IN  a # b /\ NoWorse(v, a, b) /\ NoWorse(t, a, b) => i < j

\* context.ts: a chunk that was suspect all the while a request was served is
\* not shown to the model and not cited, on whatever path it was found.
SuspectsStayOut ==
    pc = "generating" \/ outcome = "found" =>
        /\ Context(hits) \subseteq seenClean
        /\ ResponseCitations \subseteq {CitationOf(c) : c \in seenClean}

\* generate.ts:4-15: the model is paid for only above the threshold (or with
\* no score to compare) and with a context; a rejected answer costs one more.
ModelCallsAreEarned ==
    /\ calls > 0 \/ pc = "generating" =>
          /\ kind = "answer" /\ \A s \in best : s >= Threshold
          /\ pc = "generating" => \E i \in DOMAIN hits : ~hits[i].suspect
    /\ outcome \in {"below-threshold", "no-usable-context", "listed"} => calls = 0
    /\ outcome = "grounding-violation" => calls = 1 + MaxRegenerations

\* A blank line inside a code block (see StrippedVerifiesAgain).
SplitsCode(answer) ==
    \E i \in DOMAIN answer : answer[i].kind = "blank" /\ InFence(answer, i)

\* What is removed takes the newline from between two pieces that stay, or
\* the whole beginning of a line that goes on with three backticks.
Rejoins(answer, bad) ==
    LET kept == DOMAIN answer \ bad
        SameLine(i, j) == \A k \in i .. j - 1 : answer[k].inner
    IN  \/ \E i, k \in kept : \E j \in bad :
              i < j /\ j < k /\ SameLine(i, j) /\ ~answer[j].inner
        \/ \E k \in kept :
              /\ answer[k].kind = "fence" /\ ~StartsLine(answer, k)
              /\ \A i \in 1 .. k - 1 : SameLine(i, k) => i \in bad

\* generate.ts:17-22, specs/03 section 5: in the text that is delivered, read
\* as it is delivered, every claim is cited and every citation of a claim is
\* among those the response lists.  The code keeps this only where removing
\* sentences joins no two lines and makes no new fence (Rejoins), and where no
\* blank line splits a block of code (SplitsCode): a fence that is glued to a
\* sentence is no fence any more, and the code after it an uncited claim.
AnswersAreGrounded ==
    /\ outcome = "found"
    /\ ~SplitsCode(draft)
    /\ ~Rejoins(draft, Violations(draft, Allowed, Texts))
    => \A answer \in {Delivered} :
            /\ Claims(answer) # {}
            /\ \A i \in Claims(answer) : CitedOk(answer[i], ResponseCitations)

\* Nobody waits for ever: each request is answered, refused or failed.
EveryRequestEnds == pc = "embedding" ~> pc = "done"

\* citation.spec.ts:302 says of the stripped answer that checking it again
\* finds no violation.  A blank line in a code block breaks it, and so does a
\* removed sentence that had the newline before a fence.
StrippedVerifiesAgain ==
    outcome = "found" => \A answer \in {Delivered} : Verified(answer, Allowed, Texts)
=============================================================================
