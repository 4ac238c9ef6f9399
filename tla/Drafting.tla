------------------------------ MODULE Drafting -------------------------------
(***************************************************************************)
(* The draft of an article (packages/core/src/publisher): draftArticle     *)
(* takes from the records what a language model may read, lets it write a  *)
(* body, has it rewritten while the style is wrong, holds it against the   *)
(* facts, has the diagrams drawn the facts suffice for, and gives a patch  *)
(* or a reason for its rejection.  A model may answer anything, answer     *)
(* nothing or fail.                                                        *)
(***************************************************************************)
EXTENDS FactCheck

CONSTANTS
    MaxRewrites,        \* MAX_REWRITES
    MaxRegenerations,   \* MAX_DIAGRAM_REGENERATIONS
    PartMax,            \* NARRATIVE_PART_MAX_CHARS, in tokens
    SampleMax,          \* STYLE_SAMPLE_MAX_CHARS, in tokens
    Assignments,        \* [kind, sources, samples, diagrams]: the drafts asked for
    Bodies, Rewrites,   \* first drafts and rewrites a model may give
    Codes               \* diagrams a model may give

ASSUME DraftingAssumption ==
    /\ {MaxRewrites, MaxRegenerations, PartMax} \subseteq Nat /\ SampleMax \in Nat \ {0}
    /\ \A a \in Assignments : a.samples \in Seq(Seq(Token))
    /\ Bodies \cup Rewrites \cup Codes \subseteq Seq(Token)

VARIABLES
    assignment,     \* the style samples, whether diagrams are drawn, what the facts allow
    prompt,         \* what the model was given to read: facts, outline, records, samples
    draft,          \* [stage, body, rewrites, calls]
    diagrams,       \* the outcomes of the diagrams so far
    outcome         \* the patch or the rejection

draftVars == <<assignment, prompt, draft, diagrams, outcome>>
draftingVars == <<factsVars, draftVars>>

NoDraft == [stage |-> "none", body |-> << >>, rewrites |-> 0, calls |-> 0]
NoOutcome == [status |-> "none"]

Holds(text, tokenKinds) == \E i \in 1 .. Len(text) : text[i][1] \in tokenKinds

-----------------------------------------------------------------------------

\* narrativeParts: the title, and what stands in the sections.
Parts(r) == <<r.title>> \o r.texts

\* partRejection, in the order in which it looks
PartRejection(text) ==
    IF text = << >> THEN "empty"
    ELSE IF Holds(text, {"url"}) THEN "uri-shape"
    ELSE IF Holds(text, {"secret"}) THEN "secret-shape"
    ELSE "none"

\* Mutant: a record is refused only when it is no material.
RecordRejection_Material(r, ids) ==
    IF r.id \notin ids THEN "not-material"
    ELSE IF \A p \in ToSet(Parts(r)) : PartRejection(p) # "none" THEN "no-usable-prose"
    ELSE "none"

\* What keeps the prose of a record from the model.
RecordRejection(r, ids) ==
    IF r.id \notin ids THEN "not-material"
    ELSE IF r.flags # {} THEN "sanitize-flagged"
    ELSE IF \E p \in ToSet(Parts(r)) : Holds(p, {"inject"}) THEN "injection-detected"
    ELSE IF \E p \in ToSet(Parts(r)) : Holds(p, {"script"}) THEN "non-allowlisted-script"
    ELSE IF \A p \in ToSet(Parts(r)) : PartRejection(p) # "none" THEN "no-usable-prose"
    ELSE "none"

\* truncate: at the end of the last sentence that fits, when one does.
Truncate(text, limit) ==
    LET head == Cut(text, limit)
        ends == Starting(head, "stop")
    IN  IF Len(text) <= limit \/ ends = {} THEN head ELSE SubSeq(head, 1, Max(ends))

\* buildNarrativeSource, summarizeNarrative: the prose of the records that pass, every part of it or
\* none, below a head with the record's own tags, which nothing looks through.
Narrative(records, ids) ==
    LET sound == {r \in ToSet(records) : RecordRejection(r, ids) = "none"}
        read == {r \in ToSet(records) :
                    RecordRejection(r, ids) \in {"none", "no-usable-prose"}}
        Kept(r) == {i \in 1 .. Len(Parts(r)) : PartRejection(Parts(r)[i]) = "none"}
    IN  [heads |-> {[record |-> r.id, type |-> r.type, severity |-> r.severity,
                     created |-> Day(r.created), tags |-> r.tags] : r \in sound},
         parts |-> UNION {{[record |-> r.id, part |-> i, text |-> Truncate(Parts(r)[i], PartMax)] :
                              i \in Kept(r)} : r \in sound},
         excluded |-> {[record |-> r.id, part |-> 0, reason |-> RecordRejection(r, ids)] :
                          r \in ToSet(records) \ sound}
                      \cup UNION {{[record |-> r.id, part |-> i,
                                    reason |-> PartRejection(Parts(r)[i])] :
                                      i \in (1 .. Len(Parts(r))) \ Kept(r)} : r \in read}]

\* loadStyleSamples: the reason a file is no sample.
SampleRejection(text) ==
    IF text = << >> THEN "empty"
    ELSE IF Holds(text, {"inject"}) THEN "injection-detected"
    ELSE IF Holds(text, {"secret"}) THEN "secret-shape"
    ELSE "none"

StyleSamples(files) ==
    [samples |-> {Cut(t, SampleMax) : t \in {x \in ToSet(files) : SampleRejection(x) = "none"}},
     rejected |-> {[file |-> i, reason |-> SampleRejection(files[i])] :
                      i \in {j \in 1 .. Len(files) : SampleRejection(files[j]) # "none"}}]

-----------------------------------------------------------------------------

DiagramKinds == <<"cause-chain", "timeline">>

\* selectDiagramSpecs: one point is no time line.
DiagramSpecs(f) ==
    Picked(DiagramKinds, {i \in 1 .. 2 : DiagramKinds[i] # "timeline" \/ Len(f.timeline) >= 2})

LinesBroken(lines) == FlattenSeq([i \in DOMAIN lines |-> Append(lines[i], <<"break", 0>>)])

\* stripFence
StripFence(code) ==
    LET lines == Lines(code)
        closing == {i \in 2 .. Len(lines) : IsFence(lines[i])}
        inner == SubSeq(lines, 2, Min(closing \cup {Len(lines) + 1}) - 1)
    IN  IF ~IsFence(lines[1]) THEN code
        ELSE IF inner = << >> THEN << >> ELSE Front(LinesBroken(inner))

\* FORBIDDEN_CONSTRUCTS (a URL scheme is one), and the three gates of the prose.
IsUnsafe(code) == Holds(code, {"directive", "url", "script", "secret", "inject"})

\* The grammar of a diagram that is not read by anybody: links, key words, delimiters.
Grammar == {"fence", "link", "keyword", "tick", "quote", "comma"}

IsComment(line) == line # << >> /\ line[1][1] = "comment"

\* diagramClaimText: what is left without the header, comments and grammar.
ClaimText(code) ==
    LET lines == Tail(Lines(code))
        shown == Picked(lines, {i \in DOMAIN lines : ~IsComment(lines[i])})
        Read(l) == Picked(l, {i \in DOMAIN l : l[i][1] \notin Grammar})
    IN  LinesBroken([i \in DOMAIN shown |-> Read(shown[i])])

\* verifyDiagram: the first gate a code fails at.  The parser of mermaid
\* refuses a "broken" one and tells its type by the header.
DiagramVerdict(spec, code, allowed) ==
    IF code = << >> THEN "empty"
    ELSE IF IsUnsafe(code) THEN "unsafe"
    ELSE IF Head(Lines(code)) # <<<<"header", IndexIn(spec, DiagramKinds)>>>> THEN "wrong-type"
    ELSE IF Holds(code, {"broken"}) THEN "compile-error"
    ELSE IF FactViolations(ClaimText(code), allowed) # {} THEN "fact-violation"
    ELSE "ok"

-----------------------------------------------------------------------------

Rejected(reason) == [status |-> "rejected", reason |-> reason]

\* The patch, once every diagram that was asked for is drawn or given up.
\* One that was not configured is reported as such.
Patch(d, drawn, specs) ==
    LET blocks == Picked(drawn, {i \in DOMAIN drawn : drawn[i].omitted = "none"})
    IN  [status |-> "accepted", body |-> d.body,
         blocks |-> [i \in 1 .. Len(blocks) |-> [spec |-> blocks[i].spec, code |-> blocks[i].code]],
         report |-> [attempts |-> d.rewrites + 1, requested |-> specs,
                     configured |-> assignment.diagrams,
                     drawn |-> Total([i \in 1 .. Len(drawn) |-> drawn[i].attempts]),
                     omitted |-> {[spec |-> o.spec, reason |-> o.omitted] :
                                     o \in {x \in ToSet(drawn) : x.omitted # "none"}}]]

DraftingInit ==
    /\ FactsInit
    /\ assignment = [diagrams |-> FALSE] /\ prompt = [status |-> "none"]
    /\ draft = NoDraft /\ diagrams = << >> /\ outcome = NoOutcome

\* renderFactsBlock: the links between records, the cells of the heatmap, what was
\* corrected by which record and the records left out are not in it, nor is
\* where a snippet was found.  Days stand for times.
FactsBlock(f) ==
    LET Quoted(e) == [kind |-> e.kind, text |-> e.text]
        d == f.divergence
    IN  [counts |-> <<f.records, f.incidents, f.divergences>>,
         first |-> Day(f.period.first), last |-> Day(f.period.last), span |-> f.period.span,
         tags |-> f.tags, severity |-> f.severity, project |-> f.project,
         commonTags |-> f.commonTags,
         occurrences |-> f.recurrence.occurrences, intervals |-> f.recurrence.intervals,
         timeline |-> [i \in DOMAIN f.timeline |->
                          [day |-> Day(f.timeline[i].at), record |-> f.timeline[i].record,
                           event |-> f.timeline[i].event]],
         divergence |-> [count |-> d.count, byModel |-> d.byModel, byTool |-> d.byTool,
                         categories |-> d.categories],
         citations |-> [i \in DOMAIN f.citations |-> Quoted(f.citations[i])],
         signals |-> [i \in DOMAIN f.signals |-> Quoted(f.signals[i])]]

\* buildOutline: the template's headings are fixed, the rest is numbers and days.
Outline(f) ==
    [counts |-> <<f.records, f.incidents, f.divergences>>,
     first |-> Day(f.period.first), last |-> Day(f.period.last), span |-> f.period.span,
     found |-> <<Len(f.citations), Len(f.signals)>>,
     times |-> <<Len(f.timeline), f.recurrence.occurrences>>]

\* draftArticle up to its first call, on facts that were extracted: without
\* prose no model is asked.  Rewrites and diagrams are asked for with the same
\* facts and records.
Assign ==
    /\ draft.stage = "none" /\ pack.status = "ok"
    /\ \E a \in Assignments :
        LET narrative == Narrative(sources, pack.facts.ids)
        IN  /\ a.kind = kind /\ a.sources = sources
            /\ assignment' = [samples |-> a.samples, diagrams |-> a.diagrams,
                              allowed |-> AllowedFacts(pack.facts), specs |-> DiagramSpecs(pack.facts)]
            /\ IF narrative.parts = {}
               THEN /\ outcome' = Rejected("no-narrative")
                    /\ draft' = [draft EXCEPT !.stage = "done"]
                    /\ UNCHANGED prompt
               ELSE /\ prompt' = [status |-> "sent", facts |-> FactsBlock(pack.facts),
                                  outline |-> Outline(pack.facts), narrative |-> narrative,
                                  style |-> StyleSamples(a.samples)]
                    /\ draft' = [draft EXCEPT !.stage = "writing"]
                    /\ UNCHANGED outcome
    /\ UNCHANGED diagrams

\* A wrong style is rewritten MaxRewrites times, a wrong fact never.
Judge(written, isStyled, isTrue) ==
    CASE ~isStyled /\ draft.rewrites < MaxRewrites ->
            draft' = [written EXCEPT !.rewrites = @ + 1] /\ UNCHANGED outcome
      [] ~isStyled /\ draft.rewrites >= MaxRewrites ->
            draft' = [written EXCEPT !.stage = "done"] /\ outcome' = Rejected("lint")
      [] isStyled /\ ~isTrue ->
            draft' = [written EXCEPT !.stage = "done"] /\ outcome' = Rejected("fact-check")
      [] isStyled /\ isTrue /\ assignment.diagrams /\ assignment.specs # << >> ->
            draft' = [written EXCEPT !.stage = "drawing"] /\ UNCHANGED outcome
      [] OTHER ->
            /\ draft' = [written EXCEPT !.stage = "done"]
            /\ outcome' = Patch(written, << >>, assignment.specs)

\* complete: a first draft or a rewrite.
Write ==
    /\ draft.stage = "writing"
    /\ \E text \in IF draft.calls = 0 THEN Bodies ELSE Rewrites :
           Judge([draft EXCEPT !.body = text, !.calls = @ + 1],
                 LintViolations(text) = {}, FactViolations(text, assignment.allowed) = {})
    /\ UNCHANGED <<assignment, prompt, diagrams>>

\* runDiagram: one call for the diagram in turn, which is given up after
\* MaxRegenerations more.  What is given up does not reject the draft.
Drawn(spec, attempts, code, verdict) ==
    [spec |-> spec, attempts |-> attempts, code |-> IF verdict = "ok" THEN code ELSE << >>,
     omitted |-> IF verdict = "ok" THEN "none"
                 ELSE IF attempts <= MaxRegenerations THEN "pending"
                 ELSE verdict]

Verified(spec, attempts, code) ==
    Drawn(spec, attempts, code, DiagramVerdict(spec, code, assignment.allowed))

Draw ==
    /\ draft.stage = "drawing"
    /\ LET isNew == diagrams = << >> \/ Last(diagrams).omitted # "pending"
           done == IF isNew THEN diagrams ELSE Front(diagrams)
           attempts == IF isNew THEN 1 ELSE Last(diagrams).attempts + 1
       IN  \E code \in Codes : diagrams' = Append(done,
               Verified(assignment.specs[Len(done) + 1], attempts, StripFence(code)))
    /\ LET called == [draft EXCEPT !.calls = @ + 1]
       IN  IF Len(diagrams') = Len(assignment.specs) /\ Last(diagrams').omitted # "pending"
           THEN /\ draft' = [called EXCEPT !.stage = "done"]
                /\ outcome' = Patch(called, diagrams', assignment.specs)
           ELSE draft' = called /\ UNCHANGED outcome
    /\ UNCHANGED <<assignment, prompt>>

\* A call that fails, or an empty draft, fails all of it: nothing is kept.
Fail ==
    /\ draft.stage \in {"writing", "drawing"}
    /\ draft' = [draft EXCEPT !.stage = "done", !.calls = @ + 1]
    /\ outcome' = [status |-> "failed"]
    /\ UNCHANGED <<assignment, prompt, diagrams>>

DraftingNext ==
    \/ Extract /\ UNCHANGED draftVars
    \/ (Assign \/ Write \/ Draw \/ Fail) /\ UNCHANGED factsVars

DraftingSpec == DraftingInit /\ [][DraftingNext]_draftingVars

-----------------------------------------------------------------------------

\* What may be cited of the records a draft is about, and what may be named.
Quotable == {r \in ToSet(sources) : r.status = "published" /\ r.flags = {}}

Stands(text) ==
    \/ Len(text) = 1 /\ text[1][1] \in {"id", "word", "date", "term", "severity", "path"}
    \/ \E r \in Quotable : \E i \in 1 .. Len(r.texts) : Includes(r.texts[i], text)

Told(tokenKind) ==
    {t[2] : t \in {x \in UNION {UNION {ToSet(r.texts[i]) : i \in 1 .. Len(r.texts)} :
                                      r \in Quotable} : x[1] = tokenKind}}

\* factcheck.ts:231-283, 336-357, diagram.ts:411-423, draft.ts:283-289: a draft
\* that is accepted names no day on which nothing happened and no record it
\* is not about, in its lines and in the diagrams appended to it; what it shows
\* as code or quotes, whether the block is ever closed or not, stands in a
\* published record without a flag.
DraftsAreGrounded ==
    outcome.status = "accepted" =>
        LET lines == Lines(outcome.body)
            fences == {i \in 1 .. Len(lines) : IsFence(lines[i])}
            IsCode(i) == Cardinality({f \in fences : f < i}) % 2 = 1
            all == ToSet(sources)
            days == {Day(r.created) : r \in all} \cup {Day(r.updated) : r \in all} \cup Told("date")
            ids == {r.id : r \in all}
                   \cup (UNION {{l.target : l \in r.relations} : r \in all})
                   \cup Told("id")
            IsTrue(t) == /\ t[1] = "date" => t[2] \in days
                         /\ t[1] = "id" => t[2] \in ids
        IN  /\ \A i \in DOMAIN lines \ fences : \A k \in 1 .. Len(lines[i]) : IsTrue(lines[i][k])
            /\ \A b \in ToSet(outcome.blocks) : \A l \in ToSet(Lines(b.code)) :
                   ~IsComment(l) => \A k \in 1 .. Len(l) : IsTrue(l[k])
            /\ \A i \in DOMAIN lines \ fences :
                   IF IsCode(i) THEN lines[i] = << >> \/ Stands(Unprompted(lines[i]))
                   ELSE \A q \in Inside(lines[i], "tick") : Stands(q)

\* The labels a distribution may count of a record.
LabelsOf(r) == r.tags \cup {r.project, r.model, r.tool}

IsLabel(name) ==
    \E r \in Screened(sources) : \E l \in LabelsOf(r) : IsPublishableLabel(l) /\ l.name = name

\* extract.ts:110-141, screen.ts:108-132, draft.ts:367-402: the block of facts
\* quotes nothing but what stands in a published record without a flag, and no
\* instruction, secret, prose or foreign script; it names labels that may be
\* published and days of records that passed the screen.  A flagged one among
\* them is counted and named: its words are not given, its labels are.
FactsAreClean(facts) ==
    /\ \A e \in ToSet(facts.citations) \cup ToSet(facts.signals) :
           /\ \E r \in Quotable : \E i \in 1 .. Len(r.texts) : Includes(r.texts[i], e.text)
           /\ ~Holds(e.text, {"inject", "secret", "prose", "script"})
    /\ \A d \in {facts.tags, facts.project, facts.divergence.byModel, facts.divergence.byTool} :
           \A e \in ToSet(d) : IsLabel(e.key)
    /\ \A t \in facts.commonTags : IsLabel(t.name)
    /\ \A e \in ToSet(facts.timeline) :
           \E r \in Screened(sources) : e.record = r.id /\ e.day \in {Day(r.created), Day(r.updated)}

\* draft.ts:224-229, narrative.ts:184-263, style.ts:93-108: of the text of a record
\* that is not published or has a flag a model reads nothing, in the facts or
\* in the narrative; and no instruction, secret or foreign script of any record,
\* nor an address in its prose; whatever prose is not given is named with a
\* reason.  The tags in the head of a record are its own, looked through by nothing.
PromptsAreClean ==
    prompt.status = "sent" =>
        LET parts == prompt.narrative.parts
            excluded == prompt.narrative.excluded
            Given(r, i) == \E p \in parts : p.record = r.id /\ p.part = i
            Named(r, i) == \E x \in excluded : x.record = r.id /\ x.part \in {0, i}
        IN  /\ FactsAreClean(prompt.facts)
            /\ \A h \in prompt.narrative.heads : \E r \in Quotable : r.id = h.record
            /\ \A p \in parts :
                   /\ \E r \in Quotable : /\ r.id = p.record
                                          /\ IsPrefix(p.text, Parts(r)[p.part])
                   /\ ~Holds(p.text, {"inject", "secret", "url", "script"})
            /\ \A r \in ToSet(sources) : \A i \in 1 .. Len(Parts(r)) :
                   Given(r, i) # Named(r, i)
            /\ \A t \in prompt.style.samples : t # << >> /\ ~Holds(t, {"inject", "secret"})
            /\ Cardinality(prompt.style.rejected) + Cardinality(prompt.style.samples)
                   <= Len(assignment.samples)
=============================================================================
