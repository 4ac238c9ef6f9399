------------------------------ MODULE FactCheck ------------------------------
(***************************************************************************)
(* What is checked of a drafted article before anybody sees it             *)
(* (packages/core/src/publisher): lintDraft judges the style of a body     *)
(* without the facts, crossCheckFacts holds the lines of its code blocks,  *)
(* its quotations, dates, record ids and numbers against the fact pack.    *)
(*                                                                         *)
(* A body is a sequence of the tokens of Facts; "fence", "heading",        *)
(* "bullet" and "shell" begin a line, "tick" and "quote" stand around      *)
(* quotations.  A date is Year * y + d, "monthday" is one without its year.*)
(***************************************************************************)
EXTENDS Facts

CONSTANTS
    Year,           \* days of a year
    DensityTokens,  \* tokens that call for one concrete fact (1000 characters / 3)
    TripleItemMax,  \* TRIPLE_ITEM_MAX_CHARS, in tokens
    MaxEndingRun    \* MAX_SAME_ENDING_RUN

ASSUME FactCheckAssumption ==
    /\ Year \in Nat \ {0}
    /\ {DensityTokens, TripleItemMax, MaxEndingRun} \subseteq Nat

\* The parts of a text between the tokens of a kind.
SplitAt(text, tokenKind) ==
    FoldLeft(LAMBDA parts, t : IF t[1] = tokenKind THEN Append(parts, << >>)
                               ELSE Append(Front(parts), Append(Last(parts), t)),
             << << >> >>, text)

Lines(text) == SplitAt(text, "break")

IsFence(line) == line # << >> /\ line[1][1] = "fence"

\* Mutant: the code of a fence that is not closed is taken for neither.
Fenced_Closed(lines, i) ==
    /\ Cardinality({j \in 1 .. i - 1 : IsFence(lines[j])}) % 2 = 1
    /\ \E j \in i + 1 .. Len(lines) : IsFence(lines[j])

\* splitFences: a line is code when fences are open before it; one that is
\* never closed lasts to the end.
Fenced(lines, i) ==
    Cardinality({j \in 1 .. i - 1 : IsFence(lines[j])}) % 2 = 1

CodeLines(body) ==
    LET lines == Lines(body)
    IN  {lines[i] : i \in {j \in 1 .. Len(lines) : ~IsFence(lines[j]) /\ Fenced(lines, j)}}

ProseLines(body) ==
    LET lines == Lines(body)
    IN  Picked(lines, {i \in DOMAIN lines : ~IsFence(lines[i]) /\ ~Fenced(lines, i)})

FenceCount(body) ==
    (Cardinality({i \in 1 .. Len(Lines(body)) : IsFence(Lines(body)[i])}) + 1) \div 2

\* The quotations of a line: from the left, between two marks of a kind with
\* something between them.
Quotations(line, mark) ==
    FoldLeft(LAMBDA s, p :
                 IF s.open = 0 \/ p = s.open + 1 THEN [s EXCEPT !.open = p]
                 ELSE [open |-> 0, found |-> s.found \cup {<<s.open, p>>}],
             [open |-> 0, found |-> {}],
             Sorted(Starting(line, mark), LAMBDA i, j : i < j)).found

Inside(line, mark) == {SubSeq(line, q[1] + 1, q[2] - 1) : q \in Quotations(line, mark)}

Outside(line, mark) ==
    Picked(line, {i \in DOMAIN line : \A q \in Quotations(line, mark) : i \notin q[1] .. q[2]})

-----------------------------------------------------------------------------

Day(at) == at \div Ticks

\* The digit runs of a token, without leading zeros (normalizeNumber).
DigitRuns(t) ==
    IF t[1] \in {"num", "version", "id", "severity"} THEN {t[2]}
    ELSE IF t[1] = "date" THEN {t[2] \div Year, t[2] % Year}
    ELSE IF t[1] = "monthday" THEN {t[2]}
    ELSE {}

Instances(f) == {f.period.first, f.period.last} \cup {e.at : e \in ToSet(f.timeline)}
Evidence(f) == ToSet(f.citations) \cup ToSet(f.signals)

\* The record ids a pack names, those of records it left out among them.
NamedIds(f) ==
    f.ids \cup {x.record : x \in f.excluded}
    \cup UNION {{l.record, l.target} : l \in f.recurrence.links}

NamedLabels(f) ==
    {t.name : t \in f.commonTags} \cup {c.row : c \in f.divergence.cells}
    \cup UNION {{e.key : e \in ToSet(d)} :
                   d \in {f.tags, f.project, f.divergence.byModel, f.divergence.byTool}}

\* The words every pack holds: kinds, sections, types, categories, reasons.
Vocabulary == {<<"term", 0>>} \cup ({"severity"} \X (1 .. 3))

FactStrings(f) ==
    {<<t>> : t \in Vocabulary \cup ({"id"} \X NamedIds(f)) \cup ({"word"} \X NamedLabels(f))
                   \cup ({"date"} \X {Day(at) : at \in Instances(f)})
                   \cup {c.marker : c \in ToSet(f.divergence.corrections)}}
    \cup {e.text : e \in Evidence(f)}

\* addNumber: 1.25 days let 1 and 25 stand.  There is no mean (-1) of no interval.
DayRuns(days) ==
    IF days < 0 THEN {}
    ELSE {days \div 100, IF days % 10 = 0 THEN (days % 100) \div 10 ELSE days % 100}

FactNumbers(f) ==
    {1, f.records, f.incidents, f.divergences,
     Len(f.citations), Len(f.signals), Len(f.timeline), f.withoutEvidence}
    \cup (UNION {{e.count : e \in ToSet(d)} :
                    d \in {f.tags, f.severity, f.project, f.divergence.byModel,
                           f.divergence.byTool, f.divergence.categories}})
    \cup {c.count : c \in f.divergence.cells}
    \cup UNION {DayRuns(days) : days \in {f.period.span, f.recurrence.mean}
                                          \cup ToSet(f.recurrence.intervals)}
    \cup {e.count : e \in Evidence(f)}
    \cup {0} \cup {at % Ticks : at \in Instances(f)}
    \cup UNION {UNION {DigitRuns(s[i]) : i \in 1 .. Len(s)} : s \in FactStrings(f)}

\* buildAllowedFacts
AllowedFacts(f) ==
    [strings |-> FactStrings(f), numbers |-> FactNumbers(f),
     dates |-> {Day(at) : at \in Instances(f)}, ids |-> f.ids]

\* isGroundedString: a part of a fact is as good as the whole.
IsGrounded(text, allowed) == \E s \in allowed.strings : Includes(s, text)

\* hasFullDate, and a month and day of any year.
HasDate(t, allowed) ==
    IF t[1] = "date" THEN t[2] \in allowed.dates
    ELSE \E d \in allowed.dates : d % Year = t[2]

Unprompted(line) == IF Len(line) > 1 /\ line[1][1] = "shell" THEN Tail(line) ELSE line

\* ORDERED_MARKER_RE, which looks at what stands first once the rest is taken out.
Unnumbered(line) ==
    IF Len(line) > 2 /\ line[1][1] = "num" /\ line[2][1] = "stop"
    THEN SubSeq(line, 3, Len(line)) ELSE line

Dated == {"date", "monthday"}

\* crossCheckFacts, on the lines of the body
LineViolations(prose, codeLines, allowed) ==
    LET spoken == {Outside(l, "tick") : l \in prose}
        plain == {Outside(l, "quote") : l \in spoken}
        rest == {Unnumbered(SelectSeq(l, LAMBDA t : t[1] \notin Dated \cup {"id"})) : l \in plain}
        tokens == UNION {ToSet(l) : l \in plain}
        code == {Unprompted(l) : l \in codeLines} \ {<< >>}
        quotes == (UNION {Inside(l, "tick") : l \in prose})
                  \cup (UNION {Inside(l, "quote") : l \in spoken})
        numbers == UNION {UNION {DigitRuns(l[i]) : i \in 1 .. Len(l)} : l \in rest}
    IN  ({"code-line"} \X {l \in code : ~IsGrounded(l, allowed)})
        \cup ({"quote"} \X {q \in quotes : ~IsGrounded(q, allowed)})
        \cup ({"date"} \X {t \in tokens : t[1] \in Dated /\ ~HasDate(t, allowed)})
        \cup ({"record-id"} \X {t \in tokens : t[1] = "id" /\ t[2] \notin allowed.ids})
        \cup ({"number"} \X (numbers \ allowed.numbers))

FactViolations(body, allowed) ==
    LineViolations(ToSet(ProseLines(body)), CodeLines(body), allowed)

-----------------------------------------------------------------------------

IsHeading(line) == Len(line) > 1 /\ line[1][1] = "heading"

IsBullet(line) ==
    \/ Len(line) > 1 /\ line[1][1] = "bullet"
    \/ Len(line) > 2 /\ line[1][1] = "num" /\ line[2][1] = "stop"

\* The longest runs of a set of positions, in their order.
RunsOf(S) ==
    Sorted({r \in S \X S : /\ r[1] <= r[2] /\ r[1] .. r[2] \subseteq S
                           /\ r[1] - 1 \notin S /\ r[2] + 1 \notin S},
           LAMBDA a, b : a[1] < b[1])

\* The paragraphs: what blank lines separate, without headings and bullets.
\* A fence separates nothing.
Paragraphs(prose) ==
    LET runs == RunsOf({i \in 1 .. Len(prose) : prose[i] # << >>})
        Text(r) == FlattenSeq(SelectSeq(SubSeq(prose, r[1], r[2]),
                                        LAMBDA l : ~IsHeading(l) /\ ~IsBullet(l)))
    IN  SelectSeq([i \in 1 .. Len(runs) |-> Text(runs[i])], LAMBDA p : p # << >>)

\* bulletGroups: the sizes of the lists, which a blank line ends as well.
BulletGroups(body) ==
    LET lines == Lines(body)
        runs == RunsOf({i \in 1 .. Len(lines) : IsBullet(lines[i]) /\ ~Fenced(lines, i)})
    IN  [i \in 1 .. Len(runs) |-> runs[i][2] - runs[i][1] + 1]

\* splitSentences
Sentences(text) ==
    LET parts == SplitAt(text, "stop")
        whole == [i \in 1 .. Len(parts) |->
                     IF i < Len(parts) THEN Append(parts[i], <<"stop", 0>>) ELSE parts[i]]
    IN  SelectSeq(whole, LAMBDA s : s # << >>)

\* sentenceEnding: 0 when it does not end in two letters of Hangul.
SentenceEnding(sentence) ==
    LET core == {i \in 1 .. Len(sentence) : sentence[i][1] \notin {"stop", "quote", "tick"}}
    IN  IF core # {} /\ sentence[Max(core)][1] = "prose" THEN sentence[Max(core)][2] ELSE 0

\* countSentenceTriples
IsTriple(sentence) ==
    LET items == SplitAt(sentence, "comma")
    IN  Len(items) = 3 /\ \A i \in 1 .. 3 : Len(items[i]) \in 1 .. TripleItemMax

\* measure: a date is one fact, what stands in ticks is one, a block is one.
ConcreteFacts(prose, blocks) ==
    LET FactsOf(l) == Cardinality(Quotations(l, "tick"))
                     + Len(SelectSeq(Outside(l, "tick"), LAMBDA t : DigitRuns(t) # {}))
    IN  Total([i \in 1 .. Len(prose) |-> FactsOf(prose[i])]) + blocks

\* Whether a bullet stands below every heading, of which there are two at least.
BulletPerHeading(prose) ==
    LET headings == {i \in 1 .. Len(prose) : IsHeading(prose[i])}
        NextHeading(h) == Min({i \in headings : i > h} \cup {Len(prose) + 1})
    IN  /\ Cardinality(headings) >= 2
        /\ \A h \in headings : \E i \in h .. NextHeading(h) - 1 : IsBullet(prose[i])

\* BANNED_PHRASES, anywhere in a body.
HasBanned(body) == Starting(body, "banned") # {}

\* HYPE_MODIFIERS: two different ones in a sentence are a chain.
IsHypeChain(sentence) == Cardinality({t \in ToSet(sentence) : t[1] = "hype"}) >= 2

\* META_OPENERS, in the first paragraph alone.
OpensMeta(paragraphs) == paragraphs # << >> /\ Starting(paragraphs[1], "opener") # {}

\* longestEndingRun, when it is too long
RepeatsEnding(sentences) ==
    LET Endings(i) == {SentenceEnding(sentences[k]) : k \in i .. i + MaxEndingRun}
    IN  \E i \in 1 .. Len(sentences) - MaxEndingRun :
            Cardinality(Endings(i)) = 1 /\ 0 \notin Endings(i)

\* lintDraft, on the parts of the body
StyleViolations(body, prose, paragraphs, sentences) ==
    LET lengths == {Len(Sentences(p)) : p \in ToSet(paragraphs)}
        triples == Len(SelectSeq(BulletGroups(body), LAMBDA n : n = 3))
                   + Len(SelectSeq(sentences, IsTriple))
        rules ==
            [banned |-> HasBanned(body),
             emoji |-> Starting(body, "emoji") # {},
             hype |-> \E s \in ToSet(sentences) : IsHypeChain(s),
             triples |-> triples > 1,
             uniform |-> Len(paragraphs) >= 3 /\ Max(lengths) - Min(lengths) <= 1,
             bullets |-> BulletPerHeading(prose),
             density |-> ConcreteFacts(prose, FenceCount(body)) * DensityTokens < Len(body),
             noCode |-> FenceCount(body) = 0,
             endings |-> RepeatsEnding(sentences),
             opening |-> OpensMeta(paragraphs)]
    IN  {r \in DOMAIN rules : rules[r]}

LintViolations(body) ==
    LET prose == ProseLines(body)
        paragraphs == Paragraphs(prose)
    IN  StyleViolations(body, prose, paragraphs,
                        FlattenSeq([i \in 1 .. Len(paragraphs) |-> Sentences(paragraphs[i])]))
=============================================================================
