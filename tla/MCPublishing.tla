---------------------------- MODULE MCPublishing ----------------------------
(* What lies between a text that comes in and an article that goes out, for *)
(* TLC: the articles' queue, the sanitizer, the chunker, the writing of a   *)
(* draft, and the indexes, the seeding and the lists of the database.  They *)
(* meet in that only, whose side of it the other modules hold: each is run  *)
(* in a scene of its own while the others keep still.                       *)
EXTENDS MCArticles, Sanitizing, Chunking, Drafting, Bootstrap, Seeding, Listing

VARIABLE scene

Scenes == {"queue", "sanitizer", "chunker", "draft", "init", "seeding", "lists"}

publishingVars == <<scene, articleVars, sanitizingVars, chunkingVars, draftingVars,
                    bootstrapVars, seedingVars, listingVars>>

\* A server before any db-init.
NewServer == /\ database.collections = {} /\ ~database.search
             /\ \A i \in DOMAIN database.btree : database.btree[i] = "absent"

PublishingInit ==
    /\ scene \in Scenes
    /\ ArticlesInit /\ SanitizingInit /\ ChunkingInit /\ DraftingInit
    /\ BootstrapInit /\ SeedingInit /\ ListingInit
    /\ scene # "init" => NewServer
    /\ scene # "lists" => collection = "records" /\ Shelved = {}

InQueue == /\ scene = "queue"
           /\ UNCHANGED <<scene, sanitizingVars, chunkingVars, draftingVars, bootstrapVars,
                          seedingVars, listingVars>>
InSanitizer == /\ scene = "sanitizer"
               /\ UNCHANGED <<scene, articleVars, chunkingVars, draftingVars,
                              bootstrapVars, seedingVars, listingVars>>
InChunker == /\ scene = "chunker"
             /\ UNCHANGED <<scene, articleVars, sanitizingVars, draftingVars,
                            bootstrapVars, seedingVars, listingVars>>
InDraft == /\ scene = "draft"
           /\ UNCHANGED <<scene, articleVars, sanitizingVars, chunkingVars, bootstrapVars,
                          seedingVars, listingVars>>
InInit == /\ scene = "init"
          /\ UNCHANGED <<scene, articleVars, sanitizingVars, chunkingVars, draftingVars,
                         seedingVars, listingVars>>
InSeeding == /\ scene = "seeding"
             /\ UNCHANGED <<scene, articleVars, sanitizingVars, chunkingVars, draftingVars,
                            bootstrapVars, listingVars>>
InLists == /\ scene = "lists"
           /\ UNCHANGED <<scene, articleVars, sanitizingVars, chunkingVars, draftingVars,
                          bootstrapVars, seedingVars>>

\* One disjunct per step, whichever scene it is of.
PublishingNext ==
    \/ InQueue /\ \E r \in Records, s \in {"draft", "published"}, flagged \in BOOLEAN :
                     CreateRecord(r, s, flagged)
    \/ InQueue /\ \E r \in Records : PublishRecord(r)
    \/ InQueue /\ \E r \in Records : WithdrawRecord(r)
    \/ InQueue /\ \E r \in Records : FlagRecord(r)
    \/ InQueue /\ WeekPasses
    \/ InQueue /\ \E b \in Batches : Batch(b)
    \/ InQueue /\ (GiveFeedback \/ \E e \in Editors : Editor(e))
    \/ InSanitizer /\ SanitizeRecord
    \/ InChunker /\ Chunk
    \/ InDraft /\ Extract /\ UNCHANGED draftVars
    \/ InDraft /\ Assign /\ UNCHANGED factsVars
    \/ InDraft /\ Write /\ UNCHANGED factsVars
    \/ InDraft /\ Draw /\ UNCHANGED factsVars
    \/ InDraft /\ Fail /\ UNCHANGED factsVars
    \/ InInit /\ \E r \in Runs : StartInit(r)
    \/ InInit /\ \E r \in Runs : InitStep(r)
    \/ InInit /\ \E r \in Runs : CrashInit(r)
    \/ InInit /\ \E p \in Range(Plans) : BuildIndex(p)
    \/ InInit /\ \E p \in Range(Plans) : DropIndex(p)
    \/ InSeeding /\ StartSeed
    \/ InSeeding /\ SeedRun
    \/ InSeeding /\ CrashSeed
    \/ InSeeding /\ RecordByHand
    \/ InSeeding /\ RenameByHand
    \/ InSeeding /\ DeleteByHand
    \/ InLists /\ OpenList
    \/ InLists /\ ShowPage
    \/ InLists /\ LosePage
    \/ InLists /\ FollowLink
    \/ InLists /\ AddEntry
    \/ InLists /\ ChangeEntry

PublishingSpec == PublishingInit /\ [][PublishingNext]_publishingVars

-----------------------------------------------------------------------------
(* Texts for the sanitizer: what a rule looks for, whole and broken off.   *)

StringsOf(alphabet, n) == UNION {[1 .. k -> alphabet] : k \in 0 .. n}

MCTexts ==
    {<<"db">> \o t : t \in StringsOf({"word", "hole", "colon", "at", "space", "newline"}, 5)}
    \cup StringsOf({"akia", "rest", "wide", "hidden", "word"}, 5)
    \cup {<<n>> \o t : n \in {"apiKey", "secretName", "bearer", "korean", "url", "curl", "basic",
                              "awsName"},
          t \in StringsOf({"vendor", "hole", "colon", "at", "space", "blob", "stop"}, 3)}
    \cup {<<"head">> \o t : t \in StringsOf({"word", "newline", "foot", "careOf"}, 4)}
    \cup StringsOf({"camelName", "word", "bare", "jwt", "quote", "host", "at"}, 3)
    \cup StringsOf({"verb", "object", "hidden", "newline", "stop", "chatToken"}, 4)
MCExtras == {<<>>}

\* Texts for the chunker: every way to end a sentence, a line or a pair of units.
Pieces == {<<"letter">>, <<"ending">>, <<"stop">>, <<"space">>, <<"break">>, <<"high", "low">>}
MCFirstBodies == {FlattenSeq(t) : t \in StringsOf(Pieces, 4)}
                 \cup {<<"letter">> \o FlattenSeq(t) : t \in [1 .. 4 -> Pieces \ {<<"space">>}]}
MCLastBodies == {<<>>, <<"letter", "stop", "letter">>}
MCTitles == {<<"letter", "space">>}

-----------------------------------------------------------------------------
(* Sources and texts for the draft.                                        *)

Label(n) == [name |-> n, blank |-> FALSE]
Source(id, type, flags, title, texts, times) ==
    [id |-> id, type |-> type, status |-> "published", flags |-> flags, severity |-> "SEV2",
     tags |-> {Label(1)}, project |-> Label(1), created |-> times[1], updated |-> times[2],
     relations |-> {}, model |-> Label(1), tool |-> Label(0), title |-> title, texts |-> texts]

Error == <<"error", 1>>   Number == <<"num", 5>>   Unit == <<"unit", 1>>   ATool == <<"tool", 1>>
AWord == <<"word", 1>>    APath == <<"path", 1>>   ASecret == <<"secret", 1>>
AnOrder == <<"inject", 1>>   Prose == <<"prose", 1>>   MoreProse == <<"prose", 2>>
FullStop == <<"stop", 0>>    AUrl == <<"url", 1>>   LineBreak == <<"break", 0>>
AFence == <<"fence", 0>>     ATick == <<"tick", 0>>   AQuote == <<"quote", 0>>

Incident == Source(2, "incident", {}, <<Prose>>,
    <<<<Error, Number, Unit>>, <<Prose, FullStop, ATool, AWord, FullStop, MoreProse>>>>, <<0, 0>>)
Divergence == Source(3, "divergence", {"secret-masked"}, <<AWord>>,
    <<<<Error, AWord>>, <<APath>>>>, <<6, 9>>)
Unpublished == [Incident EXCEPT !.id = 4, !.status = "draft"]
WithUrl == [Incident EXCEPT !.id = 5, !.texts[2] = <<AUrl, Prose>>]
WithSecret == [Incident EXCEPT !.id = 6, !.texts[2] = <<ASecret>>, !.title = <<>>]

MCAssignments ==
    {[kind |-> "case", sources |-> s, samples |-> <<<<Prose>>, <<AnOrder>>, <<>>>>, diagrams |-> d] :
        s \in {<<Incident, Divergence, Unpublished, WithUrl>>, <<Divergence, Incident>>},
        d \in BOOLEAN}
    \cup {[kind |-> "digest", sources |-> s, samples |-> <<>>, diagrams |-> FALSE] :
        s \in {<<WithSecret, Divergence, WithUrl>>, <<Divergence>>}}

\* And for the facts alone: what may stand beside what in a section, in the
\* order of the rules, and every reason to keep a record or a name out.  Three
\* models are more than a distribution may hold, and twice 4 ticks are 2.66 days
\* when they are rounded one by one and 2.67 together.
Companion(flags, texts) == Source(1, "divergence", flags, <<>>, texts, <<4, 7>>)
EvidenceTokens == {Error, Number, Unit, ATool, AWord, ASecret, AQuote, Prose, AUrl, APath}
Paths == {<<APath>>, <<AWord>>, <<<<"path", 3>>, <<"path", 4>>>>}
MCFactSources ==
    {<<Source(2, "incident", {}, <<>>, <<a>>, <<0, 0>>), Companion(f, <<b, <<APath>>>>)>> :
        a \in StringsOf(EvidenceTokens, 2) \cup [1 .. 3 -> {Error, Number, Unit, AWord, Prose}],
        f \in {{}, {"secret-masked"}}, b \in {<<Error, Number, Unit>>, <<ATool, AWord>>, <<APath>>, <<Error, ASecret>>}}
    \cup {<<Source(2, "divergence", {}, <<>>, <<<<Error, Number>>>>, <<0, 0>>),
            [Companion(f, <<<<Prose>>, t>>) EXCEPT !.id = 3, !.status = s, !.model = Label(m),
                !.created = c, !.title = n, !.tags = {Label(1), Label(0), [name |-> 1, blank |-> TRUE]}],
            [Companion({}, <<<<Error, Number, Unit>>, <<APath>>>>) EXCEPT !.model = Label(3)]>> :
        f \in {{}, {"injection-suspect"}, {"secret-masked"}}, t \in Paths, m \in 0 .. 2,
        s \in {"published", "draft"}, c \in {0, 4, 8}, n \in {<<>>, <<AnOrder>>}}
MCSources == {a.sources : a \in MCAssignments} \cup MCFactSources \cup {<<>>}

InFence(t) == <<AFence, LineBreak>> \o t \o <<LineBreak, AFence, LineBreak>>
FreeTokens == {Number, <<"num", 9>>, <<"date", 0>>, <<"date", 4>>, <<"monthday", 2>>, <<"id", 2>>,
    <<"id", 9>>, ATick, AFence, LineBreak, AWord, FullStop, Error, Prose, AQuote}
MCBodies ==
    {InFence(<<Error, Number>>) \o t : t \in StringsOf(FreeTokens, 3)}
    \cup {InFence(t) \o <<LineBreak, Prose>> : t \in {<<Error, Unit>>, <<Error, AWord>>, <<>>, <<AWord>>}}
    \cup {<<AFence, LineBreak, Error, LineBreak>> \o t : t \in [1 .. 2 -> FreeTokens]}
    \cup {<<AFence, LineBreak, Error, LineBreak, AFence, LineBreak>> \o t :
            t \in [1 .. 3 -> {Prose, AWord, ATick, Number, <<"bullet", 0>>}]}
MCRewrites == {<<Prose, FullStop>>, InFence(<<Error>>) \o <<<<"banned", 0>>>>,
    InFence(<<Error>>) \o <<Prose, FullStop>>, InFence(<<Error>>) \o <<<<"date", 1>>>>}

Header(n) == <<"header", n>>
MCCodes == {<<>>, <<Header(1), LineBreak, Prose, <<"link", 0>>, MoreProse>>,
    <<Header(2), LineBreak, <<"date", 0>>, Prose>>,
    <<Header(1), LineBreak, AQuote, <<"date", 1>>, AQuote>>, <<Header(1), LineBreak, AUrl>>,
    <<Header(2), LineBreak, <<"broken", 0>>>>, <<Header(1), LineBreak, <<"broken", 0>>>>,
    <<AFence, LineBreak, Header(2), LineBreak, <<"id", 2>>, LineBreak, AFence>>,
    <<Header(1), LineBreak, <<"comment", 0>>, <<"id", 9>>>>}

-----------------------------------------------------------------------------
(* db-init: another edition of the definitions, by hand, or another model. *)

Release(dim, edition) ==
    [dim |-> dim, edition |-> edition, placed |-> TRUE, both |-> edition = 1]
MCReleases == {Release(1, 1), Release(1, 2), Release(2, 1)}

PublishingSymmetry == TwoBatches \cup Permutations(Runs)

-----------------------------------------------------------------------------
(* Seeds: two files, the sanitizer changes the title of one; each setup is *)
(* wrong in one way at most.                                               *)

MCFiles == <<[title |-> "a", type |-> "incident"], [title |-> "b", type |-> "divergence"]>>

Fine == [argv |-> {}, claimed |-> {"seeded", "another"}, provider |-> "voyage", folder |-> "fine",
         database |-> "up"]
MCSeedSetups == {Fine, [Fine EXCEPT !.argv = {"--reset"}], [Fine EXCEPT !.argv = {"--reste"}],
    [Fine EXCEPT !.claimed = {"another"}], [Fine EXCEPT !.provider = "fake"],
    [Fine EXCEPT !.provider = "fake", !.argv = {"--reset", "--allow-fake-embeddings"}],
    [Fine EXCEPT !.folder = "a title twice"], [Fine EXCEPT !.database = "unreachable"]}
=============================================================================
