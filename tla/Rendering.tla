------------------------------ MODULE Rendering ------------------------------
(***************************************************************************)
(* What the MCP tools answer with (packages/mcp/src/tools/format.ts): a    *)
(* list of hits, an answer with its citations, or a record, as plain text  *)
(* within a budget of tokens.  Prose is cut to fit, so that the ids stay.  *)
(*                                                                         *)
(* A character is its kind, and whose line it stands for if it stands for  *)
(* a whole line.  Tokens are counted in tenths, and by their upper         *)
(* estimate: the lower one decides nothing.                                *)
(***************************************************************************)
EXTENDS Integers, Sequences, FiniteSets, SequencesExt

CONSTANTS
    Weights,            \* tenths of a token, by kind of character
    TokenBudgets,       \* values of MCP_SEARCH_TOKEN_BUDGET
    LimitMax,           \* MCP_SEARCH_LIMIT_MAX
    Limits,             \* limits asked for; 0 is none
    TitleMaxChars, SummaryMaxChars, TitleCapTokens,
    StoredHits,         \* [title, summary, flags]
    StoredTitles,       \* texts
    StoredRecords,      \* [title, sections, related]
    Answers,            \* texts a model wrote
    CitationCounts

ASSUME RenderingAssumption ==
    /\ {"space", "newline", "forged", "meta", "injection", "secret", "omission", "clamp",
        "header", "footer", "noResults", "ellipsis", "quote", "tag", "neutral", "open",
        "close", "notice", "field", "version", "related"}
           \subseteq DOMAIN Weights
    /\ \A k \in DOMAIN Weights : Weights[k] \in Nat \ {0}
    /\ TokenBudgets \subseteq Nat
    /\ {LimitMax, TitleMaxChars, SummaryMaxChars, TitleCapTokens} \subseteq Nat

VARIABLE reply  \* [tool, budget, items, requested, text]: the last reply, and what it renders

-----------------------------------------------------------------------------
(* Text                                                                    *)

Char(kind) == [kind |-> kind, of |-> 0]
CharOf(kind, i) == [kind |-> kind, of |-> i]
Newline == Char("newline")
Space == Char("space")
Blanks == {Newline, Space}

\* estimateTokens(...).high: rounded up once for the whole text.
EstimateTokens(text) == (FoldLeft(LAMBDA n, c : n + Weights[c.kind], 0, text) + 9) \div 10

EndOf(text) == {i \in 1 .. Len(text) : text[i] \notin Blanks}
TrimEnd(text) == IF EndOf(text) = {} THEN << >> ELSE SubSeq(text, 1, Max(EndOf(text)))

\* The longest prefix that fits with an ellipsis.
TruncateToTokens(text, tokens) ==
    IF tokens <= 0 THEN << >>
    ELSE IF EstimateTokens(text) <= tokens THEN text
    ELSE LET fitting == {k \in 1 .. Len(text) :
                 EstimateTokens(Append(SubSeq(text, 1, k), Char("ellipsis"))) <= tokens}
         IN IF fitting = {} THEN << >>
            ELSE Append(TrimEnd(SubSeq(text, 1, Max(fitting))), Char("ellipsis"))

\* Runs of blanks become one space.
Folded(text) ==
    FoldLeft(LAMBDA s, c : IF c \notin Blanks THEN Append(s, c)
                           ELSE IF s # << >> /\ s[Len(s)] = Space THEN s
                           ELSE Append(s, Space), << >>, text)

TrimStart(text) == IF text # << >> /\ text[1] = Space THEN Tail(text) ELSE text

OneLine(text) == TrimStart(TrimEnd(Folded(text)))

SliceCodePoints(text, n) == SubSeq(text, 1, Min({n, Len(text)}))

LinesOf(text) ==
    FoldLeft(LAMBDA ls, c : IF c = Newline THEN Append(ls, << >>)
                            ELSE [ls EXCEPT ![Len(ls)] = Append(@, c)], << << >> >>, text)

NonEmpty(parts) == SelectSeq(parts, LAMBDA p : p # << >>)

Join(parts) ==
    IF parts = << >> THEN << >>
    ELSE FoldLeft(LAMBDA s, p : s \o <<Newline>> \o p, parts[1], Tail(parts))

\* tidyLines: spaces folded line by line, one empty line at most between others.
TidyLines(text) ==
    LET lines == [i \in 1 .. Len(LinesOf(text)) |-> TrimEnd(Folded(LinesOf(text)[i]))]
        kept == FoldLeft(LAMBDA ls, l : IF l = << >> /\ (ls = << >> \/ ls[Len(ls)] = << >>)
                                        THEN ls ELSE Append(ls, l), << >>, lines)
    IN TrimStart(TrimEnd(Join(kept)))

\* textResult: lines that are empty are left out.
TextResult(lines) == Join(NonEmpty(lines))

-----------------------------------------------------------------------------
(* waterFill                                                               *)

SumOf(s) == FoldLeft(LAMBDA a, b : a + b, 0, s)

\* The modest are served first, each with what it asks for or an even share of
\* what is left.
WaterFill(demands, budget) ==
    LET order == SortSeq([i \in 1 .. Len(demands) |-> i],
                     LAMBDA i, j : demands[i] < demands[j] \/ (demands[i] = demands[j] /\ i < j))
        Give(state, i) ==
            LET given == Min({demands[i], state.left \div state.count}) IN
            [granted |-> [state.granted EXCEPT ![i] = given],
             left |-> state.left - given, count |-> state.count - 1]
        none == [i \in 1 .. Len(demands) |-> 0]
    IN IF budget <= 0 THEN none
       ELSE FoldLeft(Give, [granted |-> none, left |-> budget, count |-> Len(demands)],
                     order).granted

Cost(lines) == SumOf([i \in 1 .. Len(lines) |-> EstimateTokens(Append(lines[i], Newline))])

Estimates(texts) == [i \in 1 .. Len(texts) |-> EstimateTokens(texts[i])]

\* The text of a prose budget, which is lowered by what the text is over the
\* whole budget, up to eight times.
Adjusted(build, budget, fixedCost) ==
    LET Readjust(state, n) ==
            LET over == EstimateTokens(state.text) - budget
                prose == IF state.prose < over THEN 0 ELSE state.prose - over
            IN IF state.prose = 0 \/ over <= 0 THEN state
               ELSE [prose |-> prose, text |-> build[prose]]
        start == IF budget < fixedCost THEN 0 ELSE budget - fixedCost
    IN FoldLeft(Readjust, [prose |-> start, text |-> build[start]],
                [n \in 1 .. 8 |-> n]).text

-----------------------------------------------------------------------------
(* renderSearchHits                                                        *)

MetaLine(i) == <<CharOf("meta", i)>>

Notes(hits) ==
    (IF \E i \in 1 .. Len(hits) : "injection-suspect" \in hits[i].flags
     THEN << <<Char("injection")>> >> ELSE << >>)
    \o (IF \E i \in 1 .. Len(hits) : "secret-masked" \in hits[i].flags
        THEN << <<Char("secret")>> >> ELSE << >>)

OmissionNote(omitted) == IF omitted = 0 THEN << >> ELSE << <<CharOf("omission", omitted)>> >>

Metas(n) == [i \in 1 .. n |-> MetaLine(i)]

FixedCost(hits, shown) ==
    Cost(Notes(hits)) + Cost(OmissionNote(Len(hits) - shown)) + Cost(Metas(shown))

\* A hit within its share: a short title leaves more to the summary.
HitBlock(i, title, summary, tokens) ==
    LET granted == WaterFill(Estimates(<<title, summary>>), tokens) IN
    Join(NonEmpty(<<MetaLine(i), TruncateToTokens(title, granted[1]),
                    TruncateToTokens(summary, granted[2])>>))

\* The first hits, as many as are shown, with so much for their prose.
HitList(hits, shown, prose) ==
    LET titles == [i \in 1 .. shown |-> SliceCodePoints(OneLine(hits[i].title), TitleMaxChars)]
        summaries == [i \in 1 .. shown |->
                         SliceCodePoints(OneLine(hits[i].summary), SummaryMaxChars)]
        perHit == WaterFill([i \in 1 .. shown |->
                                EstimateTokens(titles[i] \o <<Newline>> \o summaries[i])], prose)
    IN Join([i \in 1 .. shown |-> HitBlock(i, titles[i], summaries[i], perHit[i])]
            \o OmissionNote(Len(hits) - shown) \o Notes(hits))

\* Mutant: takes the first attempt as it is.
RenderShown_AtOnce(hits, shown, budget) ==
    HitList(hits, shown, Max({0, budget - FixedCost(hits, shown)}))

RenderShown(hits, shown, budget) ==
    Adjusted([prose \in 0 .. budget |-> HitList(hits, shown, prose)], budget,
             FixedCost(hits, shown))

\* As many hits as fit, and one in any case; the last clamp fits whatever is left.
Shown(hits, budget) ==
    Max({1} \cup {n \in 1 .. Len(hits) : EstimateTokens(RenderShown(hits, n, budget)) <= budget})

RenderSearchHits(hits, budget) ==
    IF hits = << >> THEN <<Char("noResults")>>
    ELSE TruncateToTokens(RenderShown(hits, Shown(hits, budget), budget), budget)

\* A line of the answer that looks like a citation is quoted.
Quoted(line) ==
    IF OneLine(line) # << >> /\ OneLine(line)[1].kind = "forged"
    THEN <<Char("quote")>> \o line ELSE line

\* renderAnswer: the answer comes first, but for a little kept for each title.
RenderAnswer(answer, titles, budget) ==
    LET lines == LinesOf(TidyLines(answer))
        prose == Join([i \in 1 .. Len(lines) |-> Quoted(lines[i])])
        cut == [i \in 1 .. Len(titles) |-> SliceCodePoints(OneLine(titles[i]), TitleMaxChars)]
        reserve == SumOf([i \in 1 .. Len(cut) |-> Min({EstimateTokens(cut[i]), TitleCapTokens})])
        build == [tokens \in 0 .. budget |->
            LET toAnswer == Min({EstimateTokens(prose), Max({0, tokens - reserve})})
                granted == WaterFill(Estimates(cut), Max({0, tokens - toAnswer}))
                blocks == [i \in 1 .. Len(cut) |-> Join(NonEmpty(
                              <<MetaLine(i), TruncateToTokens(cut[i], granted[i])>>))]
            IN Join(NonEmpty(<<TruncateToTokens(prose, toAnswer)>> \o blocks))]
    IN TruncateToTokens(Adjusted(build, budget, Cost(Metas(Len(titles)))), budget)

\* neutralizeRecordTags: in a body the tags lose their bracket.
NeutralizeRecordTags(body) ==
    [i \in 1 .. Len(body) |-> IF body[i].kind = "tag" THEN Char("neutral") ELSE body[i]]

WrapRetrievedRecord(body) ==
    Join(<< <<Char("open")>>, NeutralizeRecordTags(body), <<Char("close")>>, <<Char("notice")>> >>)

\* recordBody: what people wrote, under headings; sections may be missing.
RecordBody(record) ==
    LET Headed(text) == <<Char("field"), Newline>> \o text
        given == SelectSeq(record.sections, LAMBDA t : t # << >>)
    IN Join(<< <<Char("field")>> \o record.title, << >> >>
            \o [i \in 1 .. Len(given) |-> Headed(given[i])])

\* relationsLine: ids and types only, so it may stand outside the frame.
RelationsLine(record) == IF record.related THEN <<Char("related")>> ELSE << >>

-----------------------------------------------------------------------------
(* The tools                                                               *)

NoReply == [tool |-> "none", budget |-> 0, items |-> << >>, requested |-> 0, text |-> << >>]

RenderingInit == reply = NoReply

\* search_knowledge: the limit asked for is lowered, and the reply says so.
SearchKnowledge ==
    /\ reply = NoReply
    /\ \E budget \in TokenBudgets, requested \in Limits :
          LET effective == Min({IF requested = 0 THEN LimitMax ELSE requested, LimitMax})
              note == IF requested > effective THEN << <<Char("clamp")>> >> ELSE << >>
          IN \E n \in 0 .. effective : \E hits \in [1 .. n -> StoredHits] :
             reply' = [tool |-> "search_knowledge", budget |-> budget, items |-> hits,
                       requested |-> requested,
                       text |-> TextResult(<<RenderSearchHits(hits, budget - Cost(note))>>
                                           \o note)]

\* suggest_resolution, when /v1/answer found something.
Header == <<Char("header")>>
Footer == <<Char("footer")>>
SuggestResolution ==
    /\ reply = NoReply
    /\ \E budget \in TokenBudgets, answer \in Answers, n \in CitationCounts :
       \E titles \in [1 .. n -> StoredTitles] :
          reply' = [tool |-> "suggest_resolution", budget |-> budget, items |-> titles,
                    requested |-> 0,
                    text |-> TextResult(<<Header,
                        RenderAnswer(answer, titles,
                            budget - EstimateTokens(Join(<<Header, Footer, << >> >>))),
                        Footer>>)]

\* get_record: the one reply without a budget.
GetRecord ==
    /\ reply = NoReply
    /\ \E record \in StoredRecords, flags \in SUBSET {"injection-suspect", "secret-masked"} :
          reply' = [NoReply EXCEPT !.tool = "get_record",
              !.text = TextResult(<<WrapRetrievedRecord(RecordBody(record)),
                                    <<Char("version")>>, RelationsLine(record)>>
                                  \o Notes(<<[flags |-> flags]>>))]

RenderingNext == SearchKnowledge \/ SuggestResolution \/ GetRecord

RenderingSpec == RenderingInit /\ [][RenderingNext]_reply

-----------------------------------------------------------------------------
(* Properties.                                                             *)

Lines == LinesOf(reply.text)
LinesThat(Test(_)) == {i \in 1 .. Len(Lines) : Lines[i] # << >> /\ Test(Lines[i])}
ShownIds == {Lines[i][1].of : i \in LinesThat(LAMBDA l : l[1].kind = "meta")}
IdsInOrder == \A i, j \in LinesThat(LAMBDA l : l[1].kind = "meta") :
                  i < j => Lines[i][1].of < Lines[j][1].of
Says(char) == LinesThat(LAMBDA l : l = <<char>>) # {}

ListBudget == reply.budget - IF reply.requested > LimitMax
                            THEN EstimateTokens(<<Char("clamp"), Newline>>) ELSE 0

ListKept ==
    LET hits == reply.items
        n == Cardinality(ShownIds)
    IN reply.tool = "search_knowledge" /\ hits # << >> =>
        /\ EstimateTokens(reply.text) <= reply.budget
        /\ FixedCost(hits, 1) <= ListBudget =>
              /\ n >= 1 /\ ShownIds = 1 .. n /\ IdsInOrder
              /\ n < Len(hits) => FixedCost(hits, n + 1) > ListBudget
                                      /\ Says(CharOf("omission", Len(hits) - n))
              /\ \A i \in 1 .. Len(Notes(hits)) : Says(Notes(hits)[i][1])
              /\ Len(Lines) <= 3 * n + Len(Notes(hits)) + 2

AnswerKept ==
    reply.tool = "suggest_resolution" =>
        /\ EstimateTokens(reply.text) <= reply.budget
        /\ Cost(Metas(Len(reply.items))) + Cost(<<Header, Footer>>) <= reply.budget =>
              ShownIds = 1 .. Len(reply.items) /\ IdsInOrder
        /\ Cardinality(LinesThat(LAMBDA l : OneLine(l) # << >> /\ OneLine(l)[1].kind = "forged"))
               <= Cardinality({i \in 1 .. Len(reply.items) :
                     LET t == OneLine(reply.items[i]) IN t # << >> /\ t[1].kind = "forged"})

\* What is in a frame stays there: after the line that closes it comes only what
\* the server says.
FrameKept ==
    LET closing == LinesThat(LAMBDA l : \E i \in 1 .. Len(l) : l[i].kind = "close") IN
    reply.tool = "get_record" =>
        /\ Cardinality(closing) = 1
        /\ \A i \in 1 .. Len(Lines) : (\E c \in closing : i > c) =>
              Len(Lines[i]) = 1 /\ Lines[i][1].kind \in
                  {"notice", "version", "related", "injection", "secret"}
        /\ \A i \in 1 .. Len(reply.text) : reply.text[i].kind # "tag"

\* format.ts, renderSearchHits and renderAnswer: a reply is within its budget; a
\* hit whose line fits is never dropped, and no citation is, whatever rounding
\* and long texts do; hits left out are the last ones and announced; warnings
\* stay; no stored text makes a line more than its own, leaves the frame of a
\* record, or passes, in an answer, for a citation.
RepliesKeepTheirIds == ListKept /\ AnswerKept /\ FrameKept
=============================================================================
