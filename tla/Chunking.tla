------------------------------ MODULE Chunking ------------------------------
(***************************************************************************)
(* chunkRecord (packages/core/src/chunker): every section of a record is   *)
(* cut into pieces that fit a limit together with their prefix, at         *)
(* paragraphs, then at sentences and lines, and only then anywhere.        *)
(*                                                                         *)
(* A text is a sequence of UTF-16 code units: a letter, an ending of a     *)
(* Korean sentence, a full stop, a blank, a line break, and the two halves *)
(* of a surrogate pair.                                                    *)
(***************************************************************************)
EXTENDS Integers, Sequences, SequencesExt, FiniteSetsExt

CONSTANTS
    MinBodyBudget,   \* MIN_BODY_BUDGET; two units at least, for a pair to fit
    MaxChars,        \* values of CHUNK_MAX_CHARS; one that is no number is 0 or less
    DefaultMaxChars, \* DEFAULT_CHUNK_MAX_CHARS
    PrefixLength,    \* units of the prefix beside the title and the section
    Titles,          \* titles of records
    FirstBodies,          \* bodies of the first section; << >> is a section left out
    LastBodies       \* bodies of the last section

Units == {"letter", "ending", "stop", "space", "break", "high", "low"}

\* No half of a pair without the other: what comes out of the database, which
\* keeps UTF-8, has none.
Paired(text) == \A i \in 1 .. Len(text) :
    /\ text[i] = "high" => i < Len(text) /\ text[i + 1] = "low"
    /\ text[i] = "low" => i > 1 /\ text[i - 1] = "high"

ASSUME ChunkingAssumption ==
    /\ MinBodyBudget \in Nat /\ MinBodyBudget >= 2 /\ PrefixLength \in Nat
    /\ MaxChars \subseteq Int /\ DefaultMaxChars \in Int /\ Titles \subseteq Seq(Units)
    /\ \A body \in FirstBodies \cup LastBodies : body \in Seq(Units) /\ Paired(body)

VARIABLES
    record,    \* what is chunked: its type, title and sections, and the limit
    chunks     \* the chunks of it, or an error

chunkingVars == <<record, chunks>>

Blanks == {"space", "break"}

Blank(text) == \A i \in 1 .. Len(text) : text[i] \in Blanks

TrimEnd(text) ==
    SubSeq(text, 1, Max({0} \cup {i \in 1 .. Len(text) : text[i] \notin Blanks}))

Trim(text) ==
    LET t == TrimEnd(text)
    IN  SubSeq(t, Min({Len(t) + 1} \cup {i \in 1 .. Len(t) : t[i] \notin Blanks}), Len(t))

\* PARAGRAPH_BOUNDARY: before which units, namely those behind an empty line.
ParagraphBoundary(text) == {i \in 2 .. Len(text) :
    /\ text[i - 1] = "break"
    /\ \E j \in 1 .. i - 2 : text[j] = "break" /\ \A k \in j + 1 .. i - 2 : text[k] = "space"}

\* SENTENCE_BOUNDARY: a full stop before a blank, one after a Korean ending
\* wherever it stands, and every end of a line.
SentenceBoundary(text) == {i \in 2 .. Len(text) :
    \/ text[i - 1] = "stop" /\ text[i] \in Blanks
    \/ /\ i > 2 /\ text[i - 2] = "ending" /\ text[i - 1] = "stop"
       /\ text[i] \notin Blanks \cup {"stop"}
    \/ text[i - 1] = "break"}

\* A list with a text that is not blank behind it.
Kept(list, text) == IF Blank(text) THEN list ELSE Append(list, text)

\* tokenize, one unit further: a part ends before every boundary.
TakeIn(text, boundary, p, i) ==
    IF i \in boundary THEN [parts |-> Kept(p.parts, p.part), part |-> <<text[i]>>]
    ELSE [p EXCEPT !.part = Append(@, text[i])]

\* tokenize: the boundary stays with the part before it; blank parts are dropped.
Tokenize(text, boundary) ==
    LET scanned == FoldLeft(LAMBDA p, i : TakeIn(text, boundary, p, i),
                            [parts |-> << >>, part |-> << >>], [i \in 1 .. Len(text) |-> i])
    IN  Kept(scanned.parts, scanned.part)

\* packUnits, one part further: it joins the others while they fit together;
\* one that does not fit alone is cut further.
Pack(budget, splitOversized, p, part) ==
    IF Len(Trim(p.current \o part)) <= budget
    THEN [p EXCEPT !.current = @ \o part]
    ELSE LET flushed == Kept(p.pieces, Trim(p.current))
         IN  IF Len(Trim(part)) <= budget
             THEN [pieces |-> flushed, current |-> part]
             ELSE [pieces |-> flushed \o splitOversized[part], current |-> << >>]

PackUnits(parts, budget, splitOversized) ==
    LET packed == FoldLeft(LAMBDA p, part : Pack(budget, splitOversized, p, part),
                           [pieces |-> << >>, current |-> << >>], parts)
    IN  Kept(packed.pieces, Trim(packed.current))

\* Mutant: a cut may fall between the halves of a pair.
CutEnd_AnyUnit(text, from, budget) == Min({from + budget, Len(text) + 1})

\* Where the piece that begins at from ends: a pair is not divided.
CutEnd(text, from, budget) ==
    LET end == Min({from + budget, Len(text) + 1})
    IN  IF end <= Len(text) /\ text[end - 1] = "high" THEN end - 1 ELSE end

\* hardCut
HardCut(text, budget) ==
    LET t == Trim(text)
        cut[from \in 1 .. Len(t) + 1] ==
            IF from > Len(t) THEN << >>
            ELSE Kept(<< >>, Trim(SubSeq(t, from, CutEnd(t, from, budget) - 1)))
                 \o cut[CutEnd(t, from, budget)]
    IN  cut[1]

\* splitBody
SplitBody(body, budget) ==
    IF Blank(body) THEN << >>
    ELSE IF Len(Trim(body)) <= budget THEN <<Trim(body)>>
    ELSE LET Sentences(p) == Tokenize(p, SentenceBoundary(p))
             paragraphs == Tokenize(body, ParagraphBoundary(body))
             SplitParagraph(p) == PackUnits(Sentences(p), budget,
                 [s \in ToSet(Sentences(p)) |-> HardCut(s, budget)])
         IN  PackUnits(paragraphs, budget, [p \in ToSet(paragraphs) |-> SplitParagraph(p)])

\* INCIDENT_SECTIONS, DIVERGENCE_SECTIONS
Sections(type) ==
    IF type = "incident" THEN <<"symptom", "rootCause", "resolution", "prevention">>
    ELSE <<"expected", "actual", "correction">>

\* readChunkMaxChars: what is no positive number is the default.
ReadChunkMaxChars(raw) == IF raw > 0 THEN raw ELSE DefaultMaxChars

\* buildPrefix: its length with the trimmed title.
Prefix(title) == Len(Trim(title)) + PrefixLength

Budget(r) == r.maxChars - Prefix(r.title)

\* What becomes of a section; of a blank one, nothing.
ChunksOf(r, s) ==
    LET pieces == SplitBody(r.bodies[s], Budget(r))
    IN  [i \in 1 .. Len(pieces) |-> [section |-> s, seq |-> i - 1, text |-> pieces[i],
                                     length |-> Prefix(r.title) + Len(pieces[i])]]

\* chunkRecord: sections in their order, numbered from 0 each.
ChunkRecord(r) ==
    LET sections == Sections(r.type)
    IN  IF Budget(r) < MinBodyBudget /\ \E s \in ToSet(sections) : ~Blank(r.bodies[s])
        THEN [status |-> "ChunkBudgetError"]
        ELSE [status |-> "ok",
              list |-> FlattenSeq([i \in 1 .. Len(sections) |-> ChunksOf(r, sections[i])])]

-----------------------------------------------------------------------------

NoRecord == [type |-> "none"]
NotChunked == [status |-> "none"]

ChunkingInit == record = NoRecord /\ chunks = NotChunked

\* readSections: the first and the last section have a body; the others, which
\* are as short as sections can be, are skipped.
ReadSections(type, first, last) ==
    [s \in {Sections(type)[i] : i \in 1 .. Len(Sections(type))} |->
        IF s = Sections(type)[1] THEN first
        ELSE IF s = Last(Sections(type)) THEN last ELSE << >>]

\* The worker chunks what it loaded.
Chunk ==
    /\ record = NoRecord
    /\ \E type \in {"incident", "divergence"}, title \in Titles, raw \in MaxChars,
          first \in FirstBodies, last \in LastBodies :
          /\ record' = [type |-> type, title |-> title, maxChars |-> ReadChunkMaxChars(raw),
                        bodies |-> ReadSections(type, first, last)]
          /\ chunks' = ChunkRecord(record')

ChunkingSpec == ChunkingInit /\ [][Chunk]_chunkingVars

-----------------------------------------------------------------------------

\* The chunks of a section, and the units of a text but its blanks.
OfSection(s) == FlattenSeq([i \in 1 .. Len(chunks.list) |->
    IF chunks.list[i].section = s THEN <<chunks.list[i]>> ELSE << >>])

Solid(text) == FlattenSeq([i \in 1 .. Len(text) |->
    IF text[i] \in Blanks THEN << >> ELSE <<text[i]>>])

SentencesFit(text, budget) ==
    \A p \in ToSet(Tokenize(text, ParagraphBoundary(text))) :
        \A s \in ToSet(Tokenize(p, SentenceBoundary(p))) : Len(Trim(s)) <= budget

\* chunk-record.ts:69-87, 144-147, 180-211: no chunk is longer than the limit
\* with its prefix, the chunks of a section hold every unit of its body but
\* blanks, in their order and numbered from 0, no pair is divided, and a
\* chunk ends within a sentence only where the sentence does not fit.
ChunksAreFaithful ==
    chunks.status = "ok" =>
        \A s \in DOMAIN record.bodies :
            LET of == OfSection(s)
                body == record.bodies[s]
                Told(i) == FlattenSeq([j \in 1 .. i |-> Solid(of[j].text)])
            IN  /\ Told(Len(of)) = Solid(body)
                /\ \A i \in 1 .. Len(of) :
                      /\ of[i].seq = i - 1
                      /\ of[i].length <= record.maxChars
                      /\ of[i].text # << >>
                      /\ Head(of[i].text) # "low" /\ Last(of[i].text) # "high"
                /\ SentencesFit(body, Budget(record)) =>
                      \A i \in 1 .. Len(of) - 1 :
                         \E k \in SentenceBoundary(body) : Solid(SubSeq(body, 1, k - 1)) = Told(i)
=============================================================================
