------------------------------ MODULE Masking ------------------------------
(***************************************************************************)
(* The masking of secrets (packages/core/src/sanitizer/masking.ts): rules  *)
(* find secrets in the text and in its probe, a copy without invisible     *)
(* characters, and what either finds is replaced by labels.                *)
(*                                                                         *)
(* A text is a sequence of tokens.  A token stands for the characters the  *)
(* rules' patterns take or leave together: a word, a scheme, the name of a *)
(* setting with its `=`, a key of one vendor.  Patterns are read on tokens *)
(* with their boundaries; the upper bounds of their repetitions are left   *)
(* out, except the one on userinfo.  A token that holds a blank or a colon *)
(* of its own (a scheme, a heading) stands before values, never in one.    *)
(***************************************************************************)
EXTENDS Lists, Integers, Sequences, SequencesExt, FiniteSetsExt

CONSTANTS
    UserinfoScan,    \* MAX_USERINFO_SCAN, in tokens
    MaskEmail        \* SANITIZE_MASK_EMAIL

ASSUME MaskingAssumption == UserinfoScan \in Nat /\ MaskEmail \in BOOLEAN

\* Tokens that begin, and end, with a letter or a digit.
Alnum == {"word", "host", "akia", "rest", "vendor", "bare", "jwt", "blob", "sha", "bearer",
          "verb", "object"}
SettingNames == {"apiKey", "awsName", "secretName", "camelName"}
StartsAlnum == Alnum \cup SettingNames \cup {"db", "url", "basic"}

Spaces == {"space", "newline"}
Gaps == Spaces \cup {"hidden"}
Single == {"colon", "at", "slash", "stop", "quote"} \cup Gaps
MaskLabels == {"aws-access-key", "aws-secret-key", "bearer-token", "api-key", "db-credentials",
           "url-credentials", "private-key", "jwt", "credential", "email"}
Tokens == StartsAlnum \cup Single \cup MaskLabels
            \cup {"curl", "korean", "head", "foot", "hole", "wide", "careOf", "chatToken",
                  "roleFrame", "containerTag", "mixedWord"}

\* isIgnorable.
Ignorable(t) == t = "hidden"

\* NFKD without marks: a full-width key is the key, and one character may
\* become several.
Normal(t) == CASE t = "hidden" -> << >>
               [] t = "wide" -> <<"rest">>
               [] t = "careOf" -> <<"word", "slash", "word">>
               [] OTHER -> <<t>>

\* normalizeWithMap: the probe, each of its tokens with the place it is from.
NormalizeWithMap(text) ==
    FoldLeft(LAMBDA probe, i : probe \o [k \in 1 .. Len(Normal(text[i])) |->
                                            [token |-> Normal(text[i])[k], source |-> i]],
             << >>, [i \in 1 .. Len(text) |-> i])

-----------------------------------------------------------------------------
(* What the patterns have in common.  A segment takes from .. to - 1.      *)

\* The first place from i on that is not in the class.
RunEnd(s, i, class) == Min({j \in i .. Len(s) + 1 : j = Len(s) + 1 \/ s[j] \notin class})

TokenAt(s, i) == IF i \in 1 .. Len(s) THEN s[i] ELSE "end"

\* The characters of s from i to j - 1; a token that is no single one has
\* four at least, as many as the shortest value a rule takes.
Width(s, i, j) == FoldLeft(LAMBDA n, t : n + (IF t \in Single THEN 1 ELSE 4), 0,
                           SubSeq(s, i, j - 1))

\* isPlaceholder: `<name>`, `xxx`.
IsPlaceholder(s, i, j) == j = i + 1 /\ s[i] = "hole"

Segment(i, j, k) == [from |-> i, to |-> j, kind |-> k]

\* The segments of a rule in the order of the text.
InOrder(segments) ==
    Sorted(segments, LAMBDA a, b : \/ a.from < b.from
                                   \/ a.from = b.from /\ a.to < b.to)

\* What may not stand in the value of a setting.
ValueStops == Spaces \cup {"quote"}

\* The value after a name that ends before i: blanks, a quote, the value.
ValueStart(s, i, blanks) ==
    LET j == RunEnd(s, i, blanks) IN IF TokenAt(s, j) = "quote" THEN j + 1 ELSE j

\* collectAnchored: what follows a name, up to a blank or a quote; before the
\* name none of the tokens that would make it part of another.
Anchored(s, names, others, kind) ==
    InOrder({sg \in {Segment(ValueStart(s, i + 1, Spaces),
                             RunEnd(s, ValueStart(s, i + 1, Spaces), Tokens \ ValueStops), kind) :
                        i \in {i \in 1 .. Len(s) : s[i] \in names /\ TokenAt(s, i - 1) \notin others}} :
                /\ Width(s, sg.from, sg.to) >= 4
                /\ ~IsPlaceholder(s, sg.from, sg.to)})

\* A key with nothing of its alphabet on either side.
Standalone(s, keys, kind) ==
    InOrder({Segment(i, i + 1, kind) :
                i \in {i \in 1 .. Len(s) : /\ s[i] \in keys
                                           /\ TokenAt(s, i - 1) \notin Alnum
                                           /\ TokenAt(s, i + 1) \notin StartsAlnum}})

-----------------------------------------------------------------------------
(* The boundary of the userinfo in a database URI.                         *)

\* hasHostAfter
HasHostAfter(at, spanEnd) == at + 1 < spanEnd

\* findBoundaryIn: the rightmost @ of from .. limit - 1 that a host follows
\* and no blank precedes, unless the blanks reach from the first one to it.
FindBoundaryIn(s, from, limit, spanEnd) ==
    LET firstSpace  == Min({limit} \cup {j \in from .. limit - 1 : s[j] \in Spaces})
        spaceRunEnd == Min({limit} \cup {j \in firstSpace .. limit - 1 : s[j] \notin Spaces})
        before == {j \in from .. firstSpace - 1 : s[j] = "at" /\ HasHostAfter(j, spanEnd)}
    IN  IF /\ spaceRunEnd > firstSpace /\ spaceRunEnd < limit
           /\ s[spaceRunEnd] = "at" /\ HasHostAfter(spaceRunEnd, spanEnd)
        THEN spaceRunEnd
        ELSE Max({-1} \cup before)

SpanEnd(s, start) ==
    Min({start + UserinfoScan, Len(s) + 1} \cup {j \in start .. Len(s) : s[j] = "newline"})

Colons(s, start) == {j \in start .. SpanEnd(s, start) - 1 : s[j] = "colon"}

\* findUserinfoEnd: a boundary right of the first colon, else one left of it.
FindUserinfoEnd(s, start) ==
    LET spanEnd == SpanEnd(s, start)
        colon == Min({spanEnd} \cup Colons(s, start))
    IN  Max({IF colon = spanEnd THEN -1 ELSE FindBoundaryIn(s, colon + 1, spanEnd, spanEnd),
             FindBoundaryIn(s, start, colon, spanEnd)})

\* The rule in the words of masking.ts:216-221: what precedes an @ on the
\* line of the scheme is a credential, unless there is a blank within the
\* place of the credential, which begins after the first colon if there is one.
UserinfoEnds(s, start) ==
    {at \in start .. SpanEnd(s, start) - 1 :
        /\ s[at] = "at" /\ HasHostAfter(at, SpanEnd(s, start))
        /\ LET colons == {j \in start .. at - 1 : s[j] = "colon"}
               slot == IF colons = {} THEN start ELSE Min(colons) + 1
               last == Max({slot - 1} \cup {j \in slot .. at - 1 : s[j] \notin Spaces})
           IN  \A j \in slot .. last : s[j] \notin Spaces}

-----------------------------------------------------------------------------
(* The rules.                                                              *)

NotAlnum(t) == t \notin Alnum

CollectPrivateKey(s) ==
    LET Line(j) == RunEnd(s, RunEnd(s, j, Spaces), Alnum \cup {"colon", "slash"})
        HasLine(j) == RunEnd(s, j, Spaces) > j /\ Line(j) > RunEnd(s, j, Spaces)
        body[j \in 1 .. Len(s) + 1] == IF HasLine(j) THEN body[Line(j)] ELSE j
        Footed(j) == LET k == RunEnd(s, j, Spaces)
                     IN  IF k > j /\ TokenAt(s, k) = "foot" THEN k + 1 ELSE j
    IN  InOrder({Segment(i, Footed(body[i + 1]), "private-key") :
                    i \in {i \in 1 .. Len(s) : s[i] = "head"}})

\* collectMongoCredentials: user and password are judged apart, and one that
\* is a placeholder does not let the other pass.
UserinfoParts(s, start, end) ==
    LET colon == Min({end} \cup {j \in start .. end - 1 : s[j] = "colon"})
        passEnd == Max({colon + 1} \cup {k + 1 : k \in {k \in colon + 1 .. end - 1 : s[k] \notin Spaces}})
        parts == {part \in {<<start, colon>>, <<colon + 1, passEnd>>} :
                     part[2] > part[1] /\ ~IsPlaceholder(s, part[1], part[2])}
    IN  IF Cardinality(parts) = 2 THEN {Segment(start, end, "db-credentials")}
        ELSE {Segment(part[1], IF part[1] = start THEN colon ELSE end, "db-credentials") :
                 part \in parts}

CollectMongoCredentials(s) ==
    LET schemes == {i \in 1 .. Len(s) : s[i] = "db" /\ NotAlnum(TokenAt(s, i - 1))}
        found == {i \in schemes : FindUserinfoEnd(s, i + 1) >= 0}
    IN  InOrder(UNION {UserinfoParts(s, i + 1, FindUserinfoEnd(s, i + 1)) : i \in found})

\* collectUrlCredentials: only with a password, and not past a slash.
CollectUrlCredentials(s) ==
    LET UserEnd(i) == RunEnd(s, i, Tokens \ (Spaces \cup {"slash", "at", "colon"}))
        PassEnd(i) == RunEnd(s, i, Tokens \ (Spaces \cup {"slash", "at"}))
        pairs == {<<i, UserEnd(i + 1)>> :
                     i \in {i \in 1 .. Len(s) : s[i] = "url" /\ NotAlnum(TokenAt(s, i - 1))}}
    IN  InOrder({Segment(p[1] + 1, PassEnd(p[2] + 1), "url-credentials") : p \in
            {p \in pairs :
                /\ p[2] > p[1] + 1 /\ TokenAt(s, p[2]) = "colon"
                /\ PassEnd(p[2] + 1) > p[2] + 1 /\ TokenAt(s, PassEnd(p[2] + 1)) = "at"
                /\ TokenAt(s, PassEnd(p[2] + 1) + 1) \in StartsAlnum \cup MaskLabels
                /\ ~IsPlaceholder(s, p[2] + 1, PassEnd(p[2] + 1))}})

\* collectBearerToken: the word stays, what follows it goes.
CollectBearerToken(s) ==
    LET TokenEnd(j) == IF TokenAt(s, j) = "hole" THEN j + 1
                       ELSE RunEnd(s, j, Alnum \cup {"slash", "stop"})
        starts == {<<i, RunEnd(s, i + 1, {"space"})>> :
                      i \in {i \in 1 .. Len(s) : s[i] = "bearer" /\ NotAlnum(TokenAt(s, i - 1))}}
    IN  InOrder({Segment(p[2], TokenEnd(p[2]), "bearer-token") : p \in
            {p \in starts : /\ p[2] > p[1] + 1 /\ Width(s, p[2], TokenEnd(p[2])) >= 4
                            /\ ~IsPlaceholder(s, p[2], TokenEnd(p[2]))}})

CollectAnchoredApiKey(s) == Anchored(s, {"apiKey"}, Alnum, "api-key")

CollectBareApiKey(s) == Standalone(s, {"bare"}, "api-key")

CollectVendorToken(s) == Standalone(s, {"vendor"}, "api-key")

\* The prefix and exactly sixteen characters, as a word.
CollectAwsAccessKey(s) ==
    InOrder({Segment(i, i + 2, "aws-access-key") :
                i \in {i \in 1 .. Len(s) - 1 :
                          /\ s[i] = "akia" /\ s[i + 1] = "rest"
                          /\ NotAlnum(TokenAt(s, i - 1))
                          /\ TokenAt(s, i + 2) \notin StartsAlnum}})

\* A value of forty characters or more, a hash too, under the key's name.
CollectAnchoredAwsSecretKey(s) ==
    LET Value(i) == LET j == ValueStart(s, i + 1, Spaces)
                    IN  Segment(j, RunEnd(s, j, {"word", "akia", "rest", "blob", "sha", "slash"}),
                                "aws-secret-key")
    IN  InOrder({sg \in {Value(i) : i \in {i \in 1 .. Len(s) : s[i] = "awsName"}} :
                    \E k \in sg.from .. sg.to - 1 : s[k] \in {"blob", "sha"}})

\* Forty characters that are not a git hash.
CollectStandaloneAwsSecretKey(s) == Standalone(s, {"blob"}, "aws-secret-key")

CollectEmail(s) ==
    LET Local(at) == Max({0} \cup {j \in 1 .. at - 1 : s[j] \notin Alnum \cup {"stop"}}) + 1
    IN  InOrder({Segment(Local(at), at + 2, "email") :
                    at \in {at \in 1 .. Len(s) - 1 :
                               s[at] = "at" /\ s[at + 1] = "host" /\ Local(at) < at}})

\* The last part of the token runs on over letters that follow.
CollectJwt(s) ==
    InOrder({Segment(i, RunEnd(s, i, Alnum), "jwt") :
                i \in {i \in 1 .. Len(s) : s[i] = "jwt" /\ NotAlnum(TokenAt(s, i - 1))}})

\* A name such as DB_PASSWORD, but no path; in camel case, after a letter.
CollectAnchoredCredential(s) ==
    Anchored(s, {"secretName", "camelName"}, Alnum \cup {"slash", "stop"}, "credential")
    \o Anchored(s, {"camelName"}, (Tokens \ {"word"}) \cup {"end"}, "credential")

\* A value in ASCII with a digit or a symbol; a full stop after it stays.
CollectKoreanCredential(s) ==
    LET Printable == Tokens \ (Gaps \cup {"korean", "wide", "careOf"})
        Marked == {"rest", "blob", "sha", "vendor", "at"} \cup SettingNames
        Value(i) == LET j == ValueStart(s, i + 1, {"space"})
                    IN  Segment(j, RunEnd(s, j, Printable), "credential")
        Trimmed(sg) == [sg EXCEPT !.to =
            Max({sg.from} \cup {k + 1 : k \in {k \in sg.from .. sg.to - 1 : s[k] # "stop"}})]
    IN  InOrder({Trimmed(sg) : sg \in
            {sg \in {Value(i) : i \in {i \in 1 .. Len(s) : s[i] = "korean"}} :
                /\ Width(s, sg.from, sg.to) >= 4
                /\ \E k \in sg.from .. sg.to - 1 : s[k] \in Marked
                /\ ~IsPlaceholder(s, sg.from, sg.to)}})

\* `Authorization: Basic x`, `curl -u user:pass`.
CollectBasicCredential(s) ==
    LET After(i) == RunEnd(s, i + 1, {"space"})
        basic == {Segment(After(i), RunEnd(s, After(i), {"word", "akia", "rest", "blob", "sha", "slash"}),
                          "credential") :
                     i \in {i \in 1 .. Len(s) : s[i] = "basic" /\ After(i) > i + 1}}
        User(i) == ValueStart(s, i + 1, {"space"})
        Colon(i) == RunEnd(s, User(i), Tokens \ (ValueStops \cup {"colon"}))
        curl == {Segment(Colon(i) + 1, RunEnd(s, Colon(i) + 1, Tokens \ ValueStops), "credential") :
                     i \in {i \in 1 .. Len(s) :
                               /\ s[i] = "curl" /\ NotAlnum(TokenAt(s, i - 1)) /\ After(i) > i + 1
                               /\ Colon(i) > User(i) /\ TokenAt(s, Colon(i)) = "colon"}}
        Real(sg) == sg.to > sg.from /\ ~IsPlaceholder(s, sg.from, sg.to)
    IN  InOrder({sg \in basic : Real(sg) /\ Width(s, sg.from, sg.to) >= 4})
        \o InOrder({sg \in curl : Real(sg)})

\* MASK_RULES on a text, in their order; a rule for emails when they are masked.
RuleHits(s) ==
    << CollectPrivateKey(s), CollectMongoCredentials(s), CollectUrlCredentials(s),
       CollectBearerToken(s), CollectBasicCredential(s), CollectAnchoredApiKey(s),
       CollectVendorToken(s), CollectBareApiKey(s), CollectJwt(s), CollectAwsAccessKey(s),
       CollectAnchoredAwsSecretKey(s), CollectAnchoredCredential(s),
       CollectKoreanCredential(s), CollectStandaloneAwsSecretKey(s) >>
    \o (IF MaskEmail THEN <<CollectEmail(s)>> ELSE << >>)

-----------------------------------------------------------------------------
(* From segments to the text with its labels.                              *)

Overlaps(a, b) == a.from < b.to /\ b.from < a.to

Hull(a, b) == Segment(Min({a.from, b.from}), Max({a.to, b.to}), a.kind)

\* Mutant: a segment that overlaps one of an earlier rule is dropped.
CollectEdits_Dropping(s) ==
    FoldLeft(LAMBDA chosen, sg : IF \E k \in 1 .. Len(chosen) : Overlaps(chosen[k], sg)
                                 THEN chosen ELSE Append(chosen, sg),
             << >>, FlattenSeq(RuleHits(s)))

\* collectEdits: it widens the first one it overlaps, which keeps its kind.
CollectEdits(s) ==
    FoldLeft(LAMBDA chosen, sg :
                 LET hits == {k \in 1 .. Len(chosen) : Overlaps(chosen[k], sg)}
                 IN  IF sg.to <= sg.from THEN chosen
                     ELSE IF hits = {} THEN Append(chosen, sg)
                     ELSE [chosen EXCEPT ![Min(hits)] = Hull(@, sg)],
             << >>, FlattenSeq(RuleHits(s)))

\* toSourceEdit: from the first character the segment is from to the last,
\* and the invisible ones after it.
ToSourceEdit(sg, text, probe) ==
    Segment(probe[sg.from].source,
            Min({j \in probe[sg.to - 1].source + 1 .. Len(text) + 1 :
                    j = Len(text) + 1 \/ ~Ignorable(text[j])}),
            sg.kind)

\* The edits by their start, the longer first; equals stay in their order.
ByStart(edits) ==
    LET order == Sorted(DOMAIN edits,
                        LAMBDA i, j : LET a == edits[i]  b == edits[j]
                                      IN  \/ a.from < b.from
                                          \/ a.from = b.from /\ a.to > b.to
                                          \/ a.from = b.from /\ a.to = b.to /\ i < j)
    IN  [k \in DOMAIN edits |-> edits[order[k]]]

\* mergeSourceEdits: what the last one holds is dropped, what it overlaps widens it.
MergeSourceEdits(edits) ==
    FoldLeft(LAMBDA merged, e :
                 IF merged # << >> /\ e.from < Last(merged).to
                 THEN [merged EXCEPT ![Len(merged)] = Hull(@, e)]
                 ELSE Append(merged, e),
             << >>, ByStart(edits))

ProbeText(probe) == [k \in 1 .. Len(probe) |-> probe[k].token]

\* What a segment of either copy takes from the text.
SourceEdits(text, probe, found) ==
    MergeSourceEdits([k \in 1 .. Len(found) |-> ToSourceEdit(found[k], text, probe)]
                     \o CollectEdits(text))

\* The edits of applyMasking: what either copy of the text shows.
Edits(text) ==
    LET probe == NormalizeWithMap(text)
    IN  SourceEdits(text, probe, CollectEdits(ProbeText(probe)))

\* The text with a label in the place of every edit.
Relabelled(text, edits) ==
    LET cut[k \in 0 .. Len(edits)] ==
            IF k = 0 THEN << >>
            ELSE cut[k - 1] \o SubSeq(text, IF k = 1 THEN 1 ELSE edits[k - 1].to, edits[k].from - 1)
                 \o <<edits[k].kind>>
    IN  IF edits = << >> THEN text
        ELSE cut[Len(edits)] \o SubSeq(text, Last(edits).to, Len(text))

ApplyMasking(text) == Relabelled(text, Edits(text))

\* The places that segments take.
Covered(segments) == UNION {segments[k].from .. segments[k].to - 1 : k \in 1 .. Len(segments)}
=============================================================================
