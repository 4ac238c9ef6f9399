----------------------------- MODULE Sanitizing -----------------------------
(***************************************************************************)
(* The gate in front of the store: sanitize (packages/core/src/sanitizer)  *)
(* masks the secrets of a text and flags instructions to a language model, *)
(* and sanitizeFields (packages/api/src/sanitize-record.ts) takes all the  *)
(* text fields of a record through it.                                     *)
(*                                                                         *)
(* A sentence a pattern of injection.ts looks for is a `verb` token and an *)
(* `object` token; what the structural rules look for is a token each.     *)
(***************************************************************************)
EXTENDS Masking

CONSTANTS
    MaxInputChars,        \* SANITIZE_MAX_INPUT_CHARS, in tokens
    ZeroWidthThreshold,   \* ZERO_WIDTH_THRESHOLD
    Reach,                \* how far the object may be from the verb, in tokens
    Texts,                \* texts that are submitted: sequences of tokens
    Extras                \* bound: other fields that are submitted with a text

ASSUME SanitizingAssumption ==
    /\ MaxInputChars \in Nat /\ ZeroWidthThreshold \in Nat /\ Reach \in Nat
    /\ Texts \subseteq Seq(Tokens)

VARIABLES
    submitted,    \* the fields of a request: title, body, and tags that are only counted
    stored        \* what is stored of it: its texts, flags, warning, or an error

sanitizingVars == <<submitted, stored>>

Nothing == [status |-> "none"]

\* stripInvisible
StripInvisible(text) == SelectSeq(text, LAMBDA t : ~Ignorable(t))

\* toProbe: blanks in a row are one, so that a line break hides nothing.
ToProbe(text) ==
    FoldLeft(LAMBDA probe, t :
                 IF t \in Spaces /\ probe # << >> /\ Last(probe) = "space" THEN probe
                 ELSE Append(probe, IF t \in Spaces THEN "space" ELSE t),
             << >>, StripInvisible(text))

\* INJECTION_PATTERNS: the verb, and its object in the same sentence.
InjectionPatterns(probe) ==
    IF \E i, j \in 1 .. Len(probe) :
           /\ probe[i] = "verb" /\ probe[j] = "object" /\ i < j /\ j - i - 1 <= Reach
           /\ \A k \in i .. j : probe[k] # "stop"
    THEN {"natural-language"} ELSE {}

\* STRUCTURAL_RULES: a token of a chat template, the frame of a role, a tag
\* this system writes itself.
TemplateForged(probe) == \E i \in 1 .. Len(probe) : probe[i] = "chatToken"
RoleFrameForged(probe) == \E i \in 1 .. Len(probe) : probe[i] = "roleFrame"
ContainerEscaped(probe) == \E i \in 1 .. Len(probe) : probe[i] = "containerTag"

\* hasMixedScriptWord: a word of four letters or more, of two scripts.
HasMixedScriptWord(probe) == \E i \in 1 .. Len(probe) : probe[i] = "mixedWord"

DetectStructural(probe) ==
    {id \in {"struct-chat-template-forgery", "struct-role-frame-forgery",
             "struct-container-escape", "struct-mixed-script-word"} :
        \/ id = "struct-chat-template-forgery" /\ TemplateForged(probe)
        \/ id = "struct-role-frame-forgery" /\ RoleFrameForged(probe)
        \/ id = "struct-container-escape" /\ ContainerEscaped(probe)
        \/ id = "struct-mixed-script-word" /\ HasMixedScriptWord(probe)}

\* detectInjection: invisible characters are counted in the text itself.
DetectInjection(text) ==
    InjectionPatterns(ToProbe(text)) \cup DetectStructural(ToProbe(text))
    \cup IF Len(SelectSeq(text, Ignorable)) > ZeroWidthThreshold
         THEN {"zero-width-abuse"} ELSE {}

\* sanitize: the injection is looked for before a label breaks the sentence.
Sanitized(text, edits, rules) ==
    [status |-> "ok", text |-> Relabelled(text, edits), rules |-> rules,
     masked |-> {edits[k].kind : k \in 1 .. Len(edits)},
     flags |-> (IF edits # << >> THEN {"secret-masked"} ELSE {})
               \cup (IF rules # {} THEN {"injection-suspect"} ELSE {})]

Sanitize(text) ==
    IF Len(text) > MaxInputChars THEN [status |-> "too large"]
    ELSE Sanitized(text, Edits(text), DetectInjection(text))

\* sanitizeFields: the fields and the tags are measured together, and only
\* the fields are masked.
Together(one) ==
    [status |-> "ok",
     texts  |-> [f \in DOMAIN one |-> one[f].text],
     flags  |-> UNION {one[f].flags : f \in DOMAIN one},
     masked |-> UNION {one[f].masked : f \in DOMAIN one},
     rules  |-> UNION {one[f].rules : f \in DOMAIN one}]

SanitizeFields(fields) ==
    IF Len(fields.title) + Len(fields.body) + fields.tags > MaxInputChars
    THEN [status |-> "too large"]
    ELSE Together([f \in {"title", "body"} |-> Sanitize(fields[f])])

\* toSanitizeWarning
HasWarning(result) == result.masked # {} \/ result.rules # {}

\* maskOutboundText: queries that leave for a provider, of any length.
MaskOutboundText(text) == ApplyMasking(text)

NoRequest == [title |-> << >>, body |-> << >>, tags |-> 0]

Requests == [title : Extras, body : Texts, tags : {0, MaxInputChars}]

SanitizingInit == submitted = NoRequest /\ stored = Nothing

\* POST /v1/records reaches sanitizeFields with the fields of its body.
SanitizeRecord ==
    /\ stored = Nothing
    /\ submitted' \in Requests
    /\ stored' = SanitizeFields(submitted')

SanitizingSpec == SanitizingInit /\ [][SanitizeRecord]_sanitizingVars

-----------------------------------------------------------------------------

Hidden(text) == Covered(Edits(text))

\* masking.ts:216-221: the userinfo of a database URI ends at the last @ of its
\* line that no blank inside the credential excludes.
UserinfoIsWhole(text) ==
    \A i \in 1 .. Len(text) : text[i] = "db" =>
        FindUserinfoEnd(text, i + 1) = Max({-1} \cup UserinfoEnds(text, i + 1))

\* masking.ts:774-793, 837-846: whatever any rule finds in the text or in its
\* probe is under a label, also where rules overlap and where a character
\* of the text is several of the probe or none; and a credential is found whole.
\* masking.ts:711 says that a later range which overlaps an earlier one is
\* discarded; the code widens the earlier one (837-850), without which this fails.
FoundIsLabelled ==
    stored # Nothing =>
        LET text == submitted.body
            probe == NormalizeWithMap(text)
            inText == Covered(FlattenSeq(RuleHits(text)))
            inProbe == Covered(FlattenSeq(RuleHits(ProbeText(probe))))
        IN  /\ UserinfoIsWhole(text)
            /\ inText \cup {probe[j].source : j \in inProbe} \subseteq Hidden(text)
=============================================================================
