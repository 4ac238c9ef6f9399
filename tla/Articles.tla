------------------------------ MODULE Articles ------------------------------
(***************************************************************************)
(* Articles compiled from records.  A nightly batch                        *)
(* (packages/worker/src/article-batch.ts) reads the published records and  *)
(* the feedback on them, evaluates four triggers (article-triggers.ts) and *)
(* files candidates; humans edit, reject and publish them through          *)
(* /v1/articles (packages/api/src/articles.ts).  Each await of the batch   *)
(* and of a request is a step.                                             *)
(*                                                                         *)
(* The _id of an article is a hash of its kind and source records; here it *)
(* is the pair itself.  Time is counted in calendar weeks; createdAt is the*)
(* run that filed the article, and filedAt, which is not stored, says how  *)
(* many runs had begun by then.                                            *)
(***************************************************************************)
EXTENDS Feedback

CONSTANTS
    Batches,          \* batch processes that may overlap
    Editors,          \* article requests in flight at once
    Patches,          \* the PATCH bodies editors send: [body, status]
    MaxRuns,          \* bound: batch runs
    MaxEdits,         \* bound: edits per article
    MaxWeek,          \* bound: weeks
    Week,             \* Week[r]: the week record r is created in
    Tags,             \* Tags[r]: its tags
    Axes,             \* Axes[r]: model and tool of a divergence, {} of an incident
    Withdrawable,     \* bound: records that are unpublished or become suspect
    CaseHelpfulFeedback, PatternClusterSize, DivergenceClusterSize,
    DigestNewRecords,
    TagShare          \* a tag on more than 1/TagShare of the material is no pattern

ASSUME ArticlesAssumption ==
    /\ {MaxRuns, MaxEdits} \subseteq Nat
    /\ MaxWeek \in Nat \ {0}
    /\ Week \in [Records -> 1 .. MaxWeek]
    /\ Withdrawable \subseteq Records
    /\ Patches \subseteq [body : BOOLEAN, status : {"keep", "draft", "rejected"}]
    /\ {CaseHelpfulFeedback, PatternClusterSize, DivergenceClusterSize,
        DigestNewRecords, TagShare} \subseteq Nat \ {0}

VARIABLES
    status,     \* status[r]: status of record r
    suspect,    \* records flagged injection-suspect
    week,       \* the current week
    articles,   \* the articles collection, a function on the ids it holds
    batch,      \* batch[b]: how far batch b is
    runs,       \* batch runs so far
    editor      \* editor[e]: how far request e is

recordVars == <<existing, status, suspect, week>>
batchVars == <<batch, runs>>
articleVars == <<feedbackVars, recordVars, articles, batchVars, editor>>

Kinds == {"case", "pattern", "divergence-report", "digest"}
Ids == [kind : Kinds, sources : SUBSET Records]
Open == {"candidate", "draft"}
Labels == Records \cup (UNION {Tags[r] \cup Axes[r] : r \in Records}) \cup (1 .. MaxWeek)
Proposals == [kind : Kinds, label : Labels, sources : SUBSET Records]
Docs == [status : Open \cup {"published", "rejected"}, label : Labels,
         body : BOOLEAN, editHistory : 0 .. MaxEdits, publishedAt : 0 .. MaxWeek,
         createdAt : 1 .. MaxRuns, filedAt : 1 .. MaxRuns]

NoBatch == [pc |-> "idle", run |-> 0, material |-> {}, week |-> 0, todo |-> {},
            proposed |-> {}, open |-> {}, filed |-> {}]
NoPatch == [body |-> FALSE, status |-> "keep"]
NoEdit == [pc |-> "idle", id |-> CHOOSE a \in Ids : TRUE, patch |-> NoPatch, at |-> 0]

BatchStates == [pc : {"idle", "counting", "judging", "filing", "done"},
                run : 0 .. MaxRuns, material : SUBSET Records, week : 0 .. MaxWeek,
                todo : SUBSET Proposals, proposed : SUBSET Proposals,
                open : SUBSET Ids, filed : SUBSET Ids]
EditorStates == [pc : {"idle", "patching", "publishing"}, id : Ids,
                 patch : Patches \cup {NoPatch}, at : 0 .. MaxWeek]

ArticlesTypeOK ==
    /\ FeedbackTypeOK
    /\ status \in [Records -> {"none", "draft", "published"}]
    /\ suspect \subseteq Records
    /\ week \in 1 .. MaxWeek
    /\ DOMAIN articles \subseteq Ids
    /\ \A a \in DOMAIN articles : articles[a] \in Docs
    /\ batch \in [Batches -> BatchStates]
    /\ \A b \in Batches : batch[b].pc # "idle" => batch[b].run \in 1 .. runs
    /\ runs \in 0 .. MaxRuns
    /\ editor \in [Editors -> EditorStates]

ArticlesInit ==
    /\ FeedbackInit
    /\ existing = {}
    /\ status = [r \in Records |-> "none"]
    /\ suspect = {}
    /\ week = 1
    /\ articles = [a \in {} |-> {}]
    /\ batch = [b \in Batches |-> NoBatch]
    /\ runs = 0
    /\ editor = [e \in Editors |-> NoEdit]

-----------------------------------------------------------------------------
(* Records, as far as articles see them.                                   *)

CreateRecord(r, s, flagged) ==
    /\ r \notin existing
    /\ week = Week[r]
    /\ existing' = existing \cup {r}
    /\ status' = [status EXCEPT ![r] = s]
    /\ flagged => r \in Withdrawable
    /\ suspect' = IF flagged THEN suspect \cup {r} ELSE suspect
    /\ UNCHANGED <<feedbackVars, week, articles, batchVars, editor>>

PublishRecord(r) ==
    /\ status[r] = "draft"
    /\ status' = [status EXCEPT ![r] = "published"]
    /\ UNCHANGED <<feedbackVars, existing, suspect, week, articles, batchVars, editor>>

WithdrawRecord(r) ==
    /\ r \in Withdrawable
    /\ status[r] = "published"
    /\ status' = [status EXCEPT ![r] = "draft"]
    /\ UNCHANGED <<feedbackVars, existing, suspect, week, articles, batchVars, editor>>

\* The sanitizer finds something in a PATCH; flags are never taken off.
FlagRecord(r) ==
    /\ r \in Withdrawable \cap existing
    /\ r \notin suspect
    /\ suspect' = suspect \cup {r}
    /\ UNCHANGED <<feedbackVars, existing, status, week, articles, batchVars, editor>>

WeekPasses ==
    /\ week < MaxWeek
    /\ week' = week + 1
    /\ UNCHANGED <<feedbackVars, existing, status, suspect, articles, batchVars, editor>>

-----------------------------------------------------------------------------
(* Triggers.  A proposal is a kind, a label and the set of source records. *)

\* isArticleMaterial
Material == {r \in Records : status[r] = "published" /\ r \notin suspect}

Proposal(kind, label, sources) == [kind |-> kind, label |-> label, sources |-> sources]

CaseCandidates(m) ==
    {Proposal("case", r, {r}) : r \in {s \in m : HelpfulFeedback(s) >= CaseHelpfulFeedback}}

Bucket(m, keys, k) == {r \in m : k \in keys[r]}

PatternCandidates(m) ==
    {Proposal("pattern", t, Bucket(m, Tags, t)) :
        t \in {u \in UNION {Tags[r] : r \in m} :
                  LET n == Cardinality(Bucket(m, Tags, u))
                  IN  n >= PatternClusterSize /\ n * TagShare <= Cardinality(m)}}

DivergenceCandidates(m) ==
    {Proposal("divergence-report", x, Bucket(m, Axes, x)) :
        x \in {y \in UNION {Axes[r] : r \in m} :
                  Cardinality(Bucket(m, Axes, y)) >= DivergenceClusterSize}}

\* lastCompleteWeek
DigestCandidates(m, now) ==
    LET inWindow == {r \in m : Week[r] + 1 = now}
    IN  IF Cardinality(inWindow) < DigestNewRecords THEN {}
        ELSE {Proposal("digest", now - 1, inWindow)}

EvaluateArticleTriggers(m, now) ==
    CaseCandidates(m) \cup PatternCandidates(m) \cup DivergenceCandidates(m)
        \cup DigestCandidates(m, now)

-----------------------------------------------------------------------------
(* The batch.                                                              *)

ArticleId(p) == [kind |-> p.kind, sources |-> p.sources]

OpenIds == {a \in DOMAIN articles : articles[a].status \in Open}

\* loadTriggerRecords, its first query; `now` was taken just before it.
LoadMaterial(b) ==
    /\ batch[b].pc \in {"idle", "done"}
    /\ runs < MaxRuns
    /\ runs' = runs + 1
    /\ batch' = [batch EXCEPT ![b] = [NoBatch EXCEPT !.pc = "counting",
                    !.run = runs', !.material = Material, !.week = week]]
    /\ UNCHANGED <<feedbackVars, recordVars, articles, editor>>

\* countHelpfulFeedback, and the triggers on what has been read.
JudgeTriggers(b) ==
    /\ batch[b].pc = "counting"
    /\ LET proposals == EvaluateArticleTriggers(batch[b].material, batch[b].week)
       IN  batch' = [batch EXCEPT ![b].pc = "judging", ![b].material = {},
                                  ![b].todo = proposals, ![b].proposed = proposals]
    /\ UNCHANGED <<feedbackVars, recordVars, articles, runs, editor>>

\* loadOpenSourceSets
LoadOpen(b) ==
    /\ batch[b].pc = "judging"
    /\ batch' = [batch EXCEPT ![b].open = OpenIds,
                    ![b].pc = IF batch[b].todo = {} THEN "done" ELSE "filing"]
    /\ UNCHANGED <<feedbackVars, recordVars, articles, runs, editor>>

\* Mutant: the inclusion is turned round.
SupersededBy_Swapped(p, open) ==
    \E a \in open : /\ a.kind = p.kind
                    /\ a # ArticleId(p)
                    /\ p.sources \subseteq a.sources

\* isSuperseded, by an open article of another id.
SupersededBy(p, open) ==
    \E a \in open : /\ a.kind = p.kind
                    /\ a # ArticleId(p)
                    /\ a.sources \subseteq p.sources

\* Mutant: the order of evaluateArticleTriggers is kept, whatever the widths.
Ordered_AsEvaluated(todo) == todo

\* The widest proposals go first.
Ordered(todo) == {p \in todo : \A q \in todo :
                      Cardinality(q.sources) <= Cardinality(p.sources)}

Candidate(b, p) == [status |-> "candidate", label |-> p.label, body |-> FALSE,
                    editHistory |-> 0, publishedAt |-> 0,
                    createdAt |-> batch[b].run, filedAt |-> runs]

\* Mutant: $set instead of $setOnInsert.
WithCandidate_Set(b, p) ==
    [x \in DOMAIN articles \cup {ArticleId(p)} |->
        IF x = ArticleId(p) THEN Candidate(b, p) ELSE articles[x]]

\* insertCandidate: $setOnInsert writes nothing when the article is there.
WithCandidate(b, p) ==
    [x \in DOMAIN articles \cup {ArticleId(p)} |->
        IF x \in DOMAIN articles THEN articles[x] ELSE Candidate(b, p)]

\* One turn of the loop; a proposal that is superseded is passed over.
FileProposal(b) ==
    /\ batch[b].pc = "filing"
    /\ \E p \in Ordered(batch[b].todo) :
          LET skip == SupersededBy(p, batch[b].open \cup batch[b].filed)
              rest == batch[b].todo \ {p}
          IN  /\ articles' = IF skip THEN articles ELSE WithCandidate(b, p)
              /\ batch' = [batch EXCEPT ![b].todo = rest,
                    ![b].pc = IF rest = {} THEN "done" ELSE "filing",
                    ![b].filed = @ \cup (DOMAIN articles' \ DOMAIN articles)]
    /\ UNCHANGED <<feedbackVars, recordVars, runs, editor>>

\* A query throws: the process ends, what it has filed stays.
BatchDies(b) ==
    /\ batch[b].pc \in {"counting", "judging", "filing"}
    /\ batch' = [batch EXCEPT ![b] = NoBatch]
    /\ UNCHANGED <<feedbackVars, recordVars, articles, runs, editor>>

-----------------------------------------------------------------------------
(* /v1/articles.  A request that is refused leaves nothing behind.         *)

\* PATCH reads the article and refuses one that is decided.
ReadForPatch(e, a, patch) ==
    /\ editor[e].pc = "idle"
    /\ a \in OpenIds
    /\ editor' = [editor EXCEPT ![e] = [NoEdit EXCEPT !.pc = "patching", !.id = a,
                                                      !.patch = patch]]
    /\ UNCHANGED <<feedbackVars, recordVars, articles, batchVars>>

Patched(doc, patch) ==
    [doc EXCEPT !.body = @ \/ patch.body,
                !.status = IF patch.status = "keep" THEN @ ELSE patch.status,
                !.editHistory = @ + 1]

\* Mutant: findOneAndUpdate by _id alone.
Editable_ByIdAlone(a) == TRUE

\* The filter of findOneAndUpdate, EDITABLE_STATUSES.
Editable(a) == articles[a].status \in Open

WritePatch(e) ==
    LET a == editor[e].id
    IN  /\ editor[e].pc = "patching"
        /\ articles[a].editHistory < MaxEdits
        /\ articles' = IF Editable(a)
                       THEN [articles EXCEPT ![a] = Patched(@, editor[e].patch)]
                       ELSE articles
        /\ editor' = [editor EXCEPT ![e] = NoEdit]
        /\ UNCHANGED <<feedbackVars, recordVars, batchVars>>

\* Mutant: the merged document is not validated.
Publishable_Unchecked(doc) == doc.status = "draft"

\* PUBLISHABLE_STATUSES, and the refinement of ArticleSchema on the merged document.
Publishable(doc) == doc.status = "draft" /\ doc.body

ReadForPublish(e, a) ==
    /\ editor[e].pc = "idle"
    /\ a \in DOMAIN articles
    /\ Publishable(articles[a])
    /\ editor' = [editor EXCEPT ![e] = [NoEdit EXCEPT !.pc = "publishing", !.id = a,
                                                      !.at = week]]
    /\ UNCHANGED <<feedbackVars, recordVars, articles, batchVars>>

WritePublish(e) ==
    LET a == editor[e].id
    IN  /\ editor[e].pc = "publishing"
        /\ articles' = IF articles[a].status = "draft"
                       THEN [articles EXCEPT ![a].status = "published",
                                             ![a].publishedAt = editor[e].at]
                       ELSE articles
        /\ editor' = [editor EXCEPT ![e] = NoEdit]
        /\ UNCHANGED <<feedbackVars, recordVars, batchVars>>

-----------------------------------------------------------------------------

Corpus ==
    \/ \E r \in Records :
          \/ \E s \in {"draft", "published"}, flagged \in BOOLEAN :
                CreateRecord(r, s, flagged)
          \/ PublishRecord(r)
          \/ WithdrawRecord(r)
          \/ FlagRecord(r)
    \/ WeekPasses

Batch(b) == \/ LoadMaterial(b) \/ JudgeTriggers(b) \/ LoadOpen(b)
            \/ FileProposal(b) \/ BatchDies(b)

Editor(e) ==
    \/ \E a \in DOMAIN articles :
          \/ \E patch \in Patches : ReadForPatch(e, a, patch)
          \/ ReadForPublish(e, a)
    \/ WritePatch(e)
    \/ WritePublish(e)

GiveFeedback == FeedbackNext /\ UNCHANGED <<status, suspect, week, articles, batchVars, editor>>

ArticlesNext ==
    \/ Corpus
    \/ GiveFeedback
    \/ \E b \in Batches : Batch(b)
    \/ \E e \in Editors : Editor(e)

ArticlesSpec == ArticlesInit /\ [][ArticlesNext]_articleVars

-----------------------------------------------------------------------------
(* Properties.                                                             *)

\* api articles.ts:262-263 and 279-280: once published or rejected, an article
\* never changes, whatever edits and publications were under way and whatever
\* the batch files.
DecidedArticlesStay ==
    [][\A a \in DOMAIN articles : articles[a].status \notin Open =>
          a \in DOMAIN articles' /\ articles'[a] = articles[a]]_articleVars

\* ArticleSchema.refine: no article is published that nobody has written, and
\* every published one carries the time the server gave it.
PublishedIsWritten ==
    \A a \in DOMAIN articles : articles[a].status = "published" =>
        articles[a].body /\ articles[a].publishedAt > 0

\* article-batch.ts:222-227: a wider article is not filed beside an open narrower
\* one of its kind, so that the queue of a growing cluster does not pile up.
\* Only a run that had begun before the narrower one was filed can do that.
NoPileUp ==
    \A a, b \in OpenIds :
        /\ a.kind = b.kind
        /\ a # b
        /\ a.sources \subseteq b.sources
        => articles[b].createdAt <= articles[a].filedAt

\* article-batch.ts:66-72: a proposal is only ever passed over for an article
\* that was open before the run, never for one the same run has filed.  So a
\* second run on the same data files nothing (article-batch.ts:50-53).
WideReportsSurvive ==
    \A b \in Batches : batch[b].pc = "done" =>
        \A p \in batch[b].proposed :
            ArticleId(p) \in DOMAIN articles \/ SupersededBy(p, batch[b].open)

\* article-triggers.ts:223-228 says that a digest is proposed once per week,
\* since a complete week grows no more.
OneDigestPerWeek ==
    \A a, b \in DOMAIN articles :
        /\ a.kind = "digest" /\ b.kind = "digest"
        /\ articles[a].label = articles[b].label
        => a = b
=============================================================================
