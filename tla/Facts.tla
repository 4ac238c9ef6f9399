-------------------------------- MODULE Facts --------------------------------
(***************************************************************************)
(* The facts of an article (packages/core/src/facts): extractFacts counts  *)
(* the fields of the records an article is about and takes from their      *)
(* texts what a machine can tell to be an error, a command, a path, a      *)
(* measure, a version or a URL.  No language model is asked.               *)
(*                                                                         *)
(* A text is a sequence of tokens <<kind, n>>.  A label (a tag, a project, *)
(* a model) is a name, 0 when it is none that may be published, and says   *)
(* whether blanks stand around it.  Time is counted in Ticks of a day.     *)
(***************************************************************************)
EXTENDS Lists, Sequences, SequencesExt, FiniteSetsExt

CONSTANTS
    Ticks,          \* ticks of a day
    MaxSnippet,     \* MAX_SNIPPET_CHARS, in tokens
    MaxCitations, MaxSignals,   \* MAX_CITATIONS, MAX_SIGNALS
    MaxDistributionKeys,        \* MAX_DISTRIBUTION_KEYS
    Sources         \* sequences of records a pack is asked for

\* The kinds of tokens, of records and of articles.  What is not ASCII is prose, a
\* unit of a measure, or of a script that is neither Latin nor Hangul.
TokenKinds == <<"error", "tool", "word", "num", "unit", "koreanUnit", "path", "version", "url",
                "query", "quote", "stop", "break", "prose", "secret", "inject", "date",
                "id", "term", "severity", "script", "monthday", "tick", "fence", "heading",
                "bullet", "shell", "comma", "banned", "emoji", "hype", "opener", "header",
                "link", "keyword", "comment", "directive", "broken">>
Foreign == {"prose", "koreanUnit", "script"}

Token == ToSet(TokenKinds) \X Int

Severities == <<"SEV1", "SEV2", "SEV3", "NOTE">>

\* Records are found once, whatever they are read for.
ASSUME FactsAssumption ==
    /\ Ticks \in Nat \ {0}
    /\ {MaxSnippet, MaxCitations, MaxSignals, MaxDistributionKeys} \subseteq Nat
    /\ \A s \in Sources :
          /\ s \in Seq(ToSet(s))
          /\ \A i, j \in DOMAIN s : s[i].id = s[j].id => i = j
          /\ \A r \in ToSet(s) :
                /\ r.title \in Seq(Token) /\ r.texts \in Seq(Seq(Token))
                /\ {r.id, r.created, r.updated} \subseteq Nat
                /\ IsFiniteSet(r.tags)
                /\ {l.name : l \in r.tags \cup {r.project, r.model, r.tool}} \subseteq Nat
                /\ r.type \in {"incident", "divergence"} /\ r.severity \in ToSet(Severities)

VARIABLES
    kind,       \* the kind of article the facts are for
    sources,    \* the records, in the order they were read in
    pack        \* the fact pack with its charts, or an error

factsVars == <<kind, sources, pack>>

NoPack == [status |-> "none"]

ArticleKinds == {"case", "pattern", "divergence-report", "digest"}
EvidenceKinds == <<"error", "command", "path", "metric", "version", "url">>
CitationKinds == {"error", "command"}
Categories == <<"spec", "test", "config", "code", "unclassified">>
RecurrenceRelations == {"recurrence_of", "same_root_cause"}

IndexIn(x, seq) == CHOOSE i \in 1 .. Len(seq) : seq[i] = x

-----------------------------------------------------------------------------

\* sliceAscii: up to the end of the line, of the sentence or of what is ASCII.
SliceAscii(text, from) ==
    LET ends == {i \in from .. Len(text) : text[i][1] \in Foreign \cup {"stop", "break"}}
    IN  SubSeq(text, from, Min(ends \cup {Len(text) + 1, from + MaxSnippet}) - 1)

\* trimSnippet
TrimSnippet(text) ==
    LET solid == {i \in 1 .. Len(text) : text[i][1] # "quote"}
    IN  IF solid = {} THEN << >> ELSE SubSeq(text, Min(solid), Max(solid))

Starting(text, tokenKind) == {i \in 1 .. Len(text) : text[i][1] = tokenKind}

\* collectErrors: what is quoted and speaks of an error, and what begins with one.
CollectErrors(text) ==
    LET quotes == Starting(text, "quote")
        Inner(i, j) == SubSeq(text, i + 1, j - 1)
        Quoted(i, j) == \A k \in i + 1 .. j - 1 : text[k][1] \notin {"quote", "break"}
        told == {q \in quotes \X quotes : /\ q[1] < q[2] /\ Quoted(q[1], q[2])
                                          /\ Starting(Inner(q[1], q[2]), "error") # {}}
    IN  {Inner(q[1], q[2]) : q \in told}
        \cup {TrimSnippet(SliceAscii(text, i)) : i \in Starting(text, "error")}

\* collectCommands: a tool with an argument that is no number, which is a version.
CollectCommands(text) ==
    {c \in {TrimSnippet(SliceAscii(text, i)) : i \in Starting(text, "tool")} :
        Len(c) > 1 /\ c[2][1] # "num"}

CollectPaths(text) == {<<text[i]>> : i \in Starting(text, "path")}

CollectMetrics(text) ==
    {SubSeq(text, i, i + 1) : i \in {j \in Starting(text, "num") :
        j < Len(text) /\ text[j + 1][1] \in {"unit", "koreanUnit"}}}

CollectVersions(text) ==
    {<<text[i]>> : i \in Starting(text, "version")}
    \cup {SubSeq(text, i, i + 1) : i \in {j \in Starting(text, "tool") :
              j < Len(text) /\ text[j + 1][1] = "num"}}

\* collectUrls: one that carries more than a path is dropped, not cut.
CollectUrls(text) ==
    {<<text[i]>> : i \in {j \in Starting(text, "url") :
        j = Len(text) \/ text[j + 1][1] # "query"}}

Collect(text) ==
    [error |-> CollectErrors(text), command |-> CollectCommands(text),
     path |-> CollectPaths(text), metric |-> CollectMetrics(text),
     version |-> CollectVersions(text), url |-> CollectUrls(text)]

\* containsSecretShape, and detectInjection at the time of extraction.
ContainsSecretShape(text) == Starting(text, "secret") # {}
DetectsInjection(text) == Starting(text, "inject") # {}

IsMachineSnippet(text) == \A i \in 1 .. Len(text) : text[i][1] \notin Foreign

IsPublishableSnippet(text, allowNonAscii) ==
    /\ text # << >>
    /\ allowNonAscii \/ IsMachineSnippet(text)
    /\ ~ContainsSecretShape(text) /\ ~DetectsInjection(text)

\* isPublishableLabel
IsPublishableLabel(label) == label.name # 0

Includes(outer, inner) ==
    \E i \in 1 .. Len(outer) - Len(inner) + 1 : SubSeq(outer, i, i + Len(inner) - 1) = inner

\* extractSnippets: of snippets one of which holds another only the longer stays.
ExtractSnippets(text) ==
    LET found == UNION {{[kind |-> k, text |-> t] :
                            t \in {x \in Collect(text)[k] :
                                      /\ Len(x) <= MaxSnippet
                                      /\ IsPublishableSnippet(x, k = "metric")}} :
                        k \in DOMAIN Collect(text)}
    IN  {s \in found : \A o \in found : o.text # s.text => ~Includes(o.text, s.text)}

-----------------------------------------------------------------------------

\* screenMaterial: what was flagged when it was stored is left out, and what
\* the rules of today find.
ExclusionReason(r) ==
    IF r.status # "published" THEN "not-published"
    ELSE IF "injection-suspect" \in r.flags THEN "injection-suspect"
    ELSE IF DetectsInjection(r.title) \/ \E i \in 1 .. Len(r.texts) : DetectsInjection(r.texts[i])
    THEN "injection-detected"
    ELSE "none"

ById(a, b) == a.id < b.id

\* isQuotable: what has any flag is counted, and not quoted.
IsQuotable(r) == r.flags = {}

\* Mutant: masked records are quoted as well.
Snippets_OfAll(material) ==
    UNION {UNION {{[kind |-> s.kind, text |-> s.text, section |-> i, record |-> r.id] :
                      s \in ExtractSnippets(r.texts[i])} : i \in 1 .. Len(r.texts)} :
           r \in ToSet(material)}

\* The snippets of the sections of the records that may be quoted.
Snippets(material) ==
    UNION {UNION {{[kind |-> s.kind, text |-> s.text, section |-> i, record |-> r.id] :
                      s \in ExtractSnippets(r.texts[i])} : i \in 1 .. Len(r.texts)} :
           r \in {m \in ToSet(material) : IsQuotable(m)}}

TokenBefore(t, u) ==
    \/ IndexIn(t[1], TokenKinds) < IndexIn(u[1], TokenKinds)
    \/ t[1] = u[1] /\ t[2] < u[2]

\* compareStrings on texts: the order of their first different token.
TextBefore(a, b) ==
    \E k \in 1 .. Len(b) : /\ k <= Len(a) + 1 /\ \A i \in 1 .. k - 1 : a[i] = b[i]
                           /\ k <= Len(a) => TokenBefore(a[k], b[k])

EvidenceBefore(a, b) ==
    \/ a.count > b.count
    \/ /\ a.count = b.count
       /\ \/ IndexIn(a.kind, EvidenceKinds) < IndexIn(b.kind, EvidenceKinds)
          \/ a.kind = b.kind /\ TextBefore(a.text, b.text)

\* The fact that all of the snippets say that say the same.
EvidenceOf(snippets, s) ==
    LET same == {o \in snippets : o.kind = s.kind /\ o.text = s.text}
        records == {o.record : o \in same}
    IN  [kind |-> s.kind, text |-> s.text, records |-> records,
         sections |-> {o.section : o \in same}, count |-> Cardinality(records)]

\* groupEvidence: one snippet of several records is one fact, with all of them.
GroupEvidence(snippets) ==
    Sorted({EvidenceOf(snippets, s) : s \in snippets}, EvidenceBefore)

Cut(seq, n) == SubSeq(seq, 1, Min({n, Len(seq)}))

-----------------------------------------------------------------------------

Total(seq) == FoldLeft(LAMBDA sum, x : sum + x, 0, seq)

CountBefore(a, b) == a.count > b.count \/ (a.count = b.count /\ a.key < b.key)

\* tally: labels that may be published, without the blanks around them, and no
\* more than MaxDistributionKeys of them, the most frequent ones.
Tally(labels) ==
    LET kept == {i \in DOMAIN labels : IsPublishableLabel(labels[i])}
        Uses(name) == Cardinality({i \in kept : labels[i].name = name})
    IN  Cut(Sorted({[key |-> labels[i].name, count |-> Uses(labels[i].name)] : i \in kept},
                   CountBefore), MaxDistributionKeys)

\* distinctTags keeps labels apart that differ in the blanks around them.
TagDistribution(material) ==
    Tally([p \in UNION {{i} \X material[i].tags : i \in 1 .. Len(material)} |-> p[2]])

ProjectDistribution(material) == Tally([i \in 1 .. Len(material) |-> material[i].project])

SeverityDistribution(material) ==
    [i \in 1 .. Len(Severities) |->
        [key |-> Severities[i],
         count |-> Cardinality({k \in DOMAIN material : material[k].severity = Severities[i]})]]

CommonTags(material) ==
    {t \in material[1].tags : IsPublishableLabel(t) /\ \A i \in 2 .. Len(material) :
                                                          t \in material[i].tags}

Instants(material) ==
    LET Earlier(i, j) == \/ material[i].created < material[j].created
                         \/ material[i].created = material[j].created /\ i < j
        order == Sorted(DOMAIN material, Earlier)
    IN  [k \in 1 .. Len(material) |-> material[order[k]].created]

\* round: ticks in hundredths of a day, halves upwards.
Rounded(ticks) == (200 * ticks + Ticks) \div (2 * Ticks)

\* period: its span is rounded.
Period(material) ==
    [first |-> Head(Instants(material)), last |-> Last(Instants(material)),
     span |-> Rounded(Last(Instants(material)) - Head(Instants(material)))]

EntryBefore(a, b) ==
    \/ a.at < b.at
    \/ a.at = b.at /\ a.record < b.record
    \/ a.at = b.at /\ a.record = b.record /\ a.event = "created" /\ b.event = "updated"

\* timeline: when a record was created, and when it was changed since.
Timeline(material) ==
    LET Entry(r, event, at) == [at |-> at, record |-> r.id, event |-> event]
    IN  Sorted({Entry(r, "created", r.created) : r \in ToSet(material)}
               \cup {Entry(r, "updated", r.updated) :
                        r \in {m \in ToSet(material) : m.updated # m.created}},
               EntryBefore)

\* recurrence: the time between records, each of them rounded and the mean of
\* them as well, and the relations their authors gave.
Recurrence(material) ==
    LET t == Instants(material)
        intervals == [i \in 1 .. Len(t) - 1 |-> Rounded(t[i + 1] - t[i])]
        n == Len(intervals)
        ids == {r.id : r \in ToSet(material)}
    IN  [occurrences |-> Len(material), span |-> Period(material).span,
         intervals |-> intervals,
         mean |-> IF n = 0 THEN -1 ELSE (2 * Total(intervals) + n) \div (2 * n),
         links |-> UNION {{[record |-> r.id, type |-> l.type, target |-> l.target,
                            within |-> l.target \in ids] :
                               l \in {x \in r.relations : x.type \in RecurrenceRelations}} :
                          r \in ToSet(material)}]

NoMarker == <<"term", 0>>

\* classifyCorrection: the first category whose file the text names.  A path
\* <<"path", n>> is of category n, of none when it is greater.
ClassifyCorrection(r) ==
    LET named(c) == {i \in Starting(Last(r.texts), "path") : Last(r.texts)[i][2] = c}
        usable == {c \in 1 .. 4 : named(c) # {}}
    IN  IF usable = {} THEN [record |-> r.id, category |-> "unclassified", marker |-> NoMarker]
        ELSE [record |-> r.id, category |-> Categories[Min(usable)],
              marker |-> <<"path", Min(usable)>>]

Corrections(divergences) ==
    [i \in 1 .. Len(divergences) |-> ClassifyCorrection(divergences[i])]

OfType(material, type) == {i \in DOMAIN material : material[i].type = type}

\* divergenceFacts.  Frameworks are counted as tools are.  The cells are not cut.
DivergenceFacts(material) ==
    LET divergences == Picked(material, OfType(material, "divergence"))
        corrections == Corrections(divergences)
        modelled == {i \in DOMAIN divergences : IsPublishableLabel(divergences[i].model)}
        Cell(i) == <<divergences[i].model.name, corrections[i].category>>
        Uses(cell) == Cardinality({i \in modelled : Cell(i) = cell})
    IN  [count |-> Len(divergences),
         byModel |-> Tally([i \in 1 .. Len(divergences) |-> divergences[i].model]),
         byTool |-> Tally([i \in 1 .. Len(divergences) |-> divergences[i].tool]),
         categories |-> [i \in 1 .. Len(Categories) |->
             [key |-> Categories[i],
              count |-> Cardinality({k \in DOMAIN corrections :
                                        corrections[k].category = Categories[i]})]],
         cells |-> {[row |-> c[1], column |-> c[2], count |-> Uses(c)] :
                       c \in {Cell(i) : i \in modelled}},
         corrections |-> corrections]

-----------------------------------------------------------------------------

\* buildCharts: numbers of the facts alone; a chart with no data is left out.
PerPeriod(facts, length) ==
    LET created == {e \in ToSet(facts.timeline) : e.event = "created"}
        When(e) == e.at \div length
        Of(p) == Cardinality({e \in created : When(e) = p})
    IN  {[label |-> p, value |-> Of(p)] : p \in {When(e) : e \in created}}

OccurrenceChart(facts) == [type |-> "occurrences", data |-> PerPeriod(facts, Ticks)]
WeeklyChart(facts) == [type |-> "weekly", data |-> PerPeriod(facts, 7 * Ticks)]
TimelineChart(facts) == [type |-> "timeline", data |-> ToSet(facts.timeline)]
TagChart(facts) == [type |-> "tags", data |-> ToSet(facts.tags)]
ProjectChart(facts) == [type |-> "projects", data |-> ToSet(facts.project)]
ModelHeatmap(facts) == [type |-> "heatmap", data |-> facts.divergence.cells]
CorrectionChart(facts) ==
    [type |-> "corrections",
     data |-> IF facts.divergence.count = 0 THEN {} ELSE ToSet(facts.divergence.categories)]
IntervalChart(facts) ==
    LET days == facts.recurrence.intervals
    IN  [type |-> "intervals", data |-> {[label |-> i, value |-> days[i]] : i \in 1 .. Len(days)}]

BuildCharts(for, facts) ==
    LET charts ==
            CASE for = "case" -> <<TimelineChart(facts)>>
              [] for = "pattern" ->
                     <<TagChart(facts), OccurrenceChart(facts), IntervalChart(facts)>>
              [] for = "divergence-report" -> <<ModelHeatmap(facts), CorrectionChart(facts)>>
              [] for = "digest" -> <<WeeklyChart(facts), ProjectChart(facts)>>
    IN  Picked(charts, {i \in DOMAIN charts : charts[i].data # {}})

Screened(records) == {r \in ToSet(records) : ExclusionReason(r) = "none"}
ScreenMaterial(records) == Sorted(Screened(records), ById)

Cited(evidence) == {i \in DOMAIN evidence : evidence[i].kind \in CitationKinds}

FactPack(records, material, snippets, evidence) ==
    [ids |-> {r.id : r \in Screened(records)},
     records |-> Len(material),
     incidents |-> Cardinality(OfType(material, "incident")),
     divergences |-> Cardinality(OfType(material, "divergence")),
     period |-> Period(material),
     tags |-> TagDistribution(material),
     severity |-> SeverityDistribution(material),
     project |-> ProjectDistribution(material),
     commonTags |-> CommonTags(material),
     timeline |-> Timeline(material),
     recurrence |-> Recurrence(material),
     divergence |-> DivergenceFacts(material),
     citations |-> Cut(Picked(evidence, Cited(evidence)), MaxCitations),
     signals |-> Cut(Picked(evidence, DOMAIN evidence \ Cited(evidence)), MaxSignals),
     withoutEvidence |-> Cardinality({r \in ToSet(material) :
                             \A s \in snippets : s.record # r.id}),
     excluded |-> {[record |-> r.id, reason |-> ExclusionReason(r)] :
                      r \in {x \in ToSet(records) : ExclusionReason(x) # "none"}}]

Illustrated(for, facts) ==
    [status |-> "ok", facts |-> facts, charts |-> BuildCharts(for, facts)]

\* extractFacts
ExtractFacts(for, records) ==
    LET material == ScreenMaterial(records)
        snippets == Snippets(material)
    IN  IF records = << >> THEN [status |-> "no-records"]
        ELSE IF Screened(records) = {} THEN [status |-> "no-material"]
        ELSE Illustrated(for, FactPack(records, material, snippets, GroupEvidence(snippets)))

FactsInit == kind = "case" /\ sources = << >> /\ pack = NoPack

Extract ==
    /\ pack = NoPack
    /\ kind' \in ArticleKinds /\ sources' \in Sources
    /\ pack' = ExtractFacts(kind', sources')

-----------------------------------------------------------------------------

Counts(seq) == [i \in 1 .. Len(seq) |-> seq[i].count]

ValuesOf(data) == FoldSet(LAMBDA p, sum : sum + p.value, 0, data)

\* Whether days that were rounded one by one add up to a span that was.
Spans(sum, span, n) == /\ 2 * (sum - span) <= n + 1
                       /\ 2 * (span - sum) <= n + 1

\* types.ts:88-89, aggregate.ts:31-44, 58-63, 83-92, 136-173, 191-254,
\* charts.ts:92-224: the counts of a pack agree with each other and with its
\* charts; every record of the material is in one severity, one type and one
\* day, in one project at most, every divergence in one category and, when its
\* model may be named, in one cell.  The cells hold every model and byModel the
\* MaxDistributionKeys most frequent: they agree when there are no more.  The
\* intervals and the span are rounded apart, to half a hundredth of a day each:
\* they agree but for that.
AddsUp(f, charts) ==
    LET d == f.divergence
        n == Len(f.recurrence.intervals)
        celled == FoldSet(LAMBDA c, sum : sum + c.count, 0, d.cells)
    IN  /\ f.records + Cardinality(f.excluded) = Len(sources)
        /\ f.incidents + f.divergences = f.records /\ f.divergences = d.count
        /\ Total(Counts(f.severity)) = f.records
        /\ Total(Counts(f.project)) <= f.records
        /\ Total(Counts(d.categories)) = d.count
        /\ Total(Counts(d.byModel)) <= celled
        /\ Cardinality({c.row : c \in d.cells}) <= MaxDistributionKeys =>
              celled = Total(Counts(d.byModel))
        /\ Spans(Total(f.recurrence.intervals), f.period.span, n)
        /\ n = f.records - 1
        /\ \A c \in ToSet(charts) :
              /\ c.type \in {"occurrences", "weekly"} => ValuesOf(c.data) = f.records
              /\ c.type = "intervals" => Spans(ValuesOf(c.data), f.period.span, n)
              /\ c.type = "corrections" =>
                    FoldSet(LAMBDA p, sum : sum + p.count, 0, c.data) = d.count
        /\ Len(f.citations) < MaxCitations /\ Len(f.signals) < MaxSignals =>
              f.withoutEvidence = Cardinality({id \in f.ids :
                  \A e \in ToSet(f.citations \o f.signals) : id \notin e.records})

\* extract.ts:139-141, 188-206, 246-286, screen.ts:108-113: what is cited
\* stands in a section of every record that is named for it, all of them
\* published and without any flag, no secret, instruction or prose is in it,
\* and no such record that holds it in no longer snippet is forgotten; and it adds up.
FactsAreSourced ==
    pack.status = "ok" =>
        /\ AddsUp(pack.facts, pack.charts)
        /\ \A e \in ToSet(pack.facts.citations) \cup ToSet(pack.facts.signals) :
               /\ e.records # {}
               /\ \A i \in 1 .. Len(e.text) :
                      e.text[i][1] \notin {"secret", "inject", "prose", "script", "break"}
               /\ \A r \in ToSet(sources) :
                      LET quotable == r.status = "published" /\ r.flags = {}
                          where == {i \in 1 .. Len(r.texts) : Includes(r.texts[i], e.text)}
                      IN  /\ r.id \in e.records => quotable /\ where \cap e.sections # {}
                          /\ r.id \in pack.facts.ids /\ quotable /\ r.id \notin e.records =>
                                 \A i \in where : \A s \in ExtractSnippets(r.texts[i]) :
                                     s.kind # e.kind \/ s.text # e.text
=============================================================================
