# Formal models of sentinel-kb

TLA+ models of sentinel-kb, the TLC runs that check them on small instances and the
TLAPS proofs of what matters most about them. sentinel-kb stores incident and divergence
records, embeds them in the background, answers searches and questions over the embedded
chunks, and proposes articles from accumulated records. Its hard part is that several
processes (API requests, embedding workers, command-line tools, a nightly batch) write the
same MongoDB collections one document at a time, without transactions, and die or fail in
between. Paths below are relative to the repository (`packages/` unless they say otherwise).

## 1. The system

### State

Everything durable is in MongoDB; only writes to one document are atomic.

| collection | written by | holds |
|---|---|---|
| `records` | records API (POST, PATCH), worker (watermark) | text, tags, status, sanitize flags, `embeddingVersion` watermark |
| `jobs` | records API, worker, `requeue`, `reembed` | one embed job per edit: status, attempts, `updatedAt` |
| `chunks` | worker (upsert, orphan deletion), records API (metadata, purge) | text and vector per record, seq and generation |
| `articles` | article batch (insert), articles API (edit, publish) | kind, source records, body, status |
| `feedbacks`, `eval_cases` | feedback API | judgements and candidates for the golden set |
| `embedding_generations` | worker at start-up | which embedder a version number means |
| `seedManifest` | `pnpm db:seed` | the record that stands for each seed title |
| indexes, search indexes | `db-init` | what lookups and searches go through; a container waits for them |

In memory: the position of each request, worker, batch or tool between two awaits. Nothing
there outlives the process.

### Components, operations, and what makes each correct

| component | operations | must hold |
|---|---|---|
| embedding job queue (`worker/src/jobs.ts`, `worker.ts`, `requeue.ts`; insertion in `api/src/embed-jobs.ts`) | insert, reclaim an expired lease, claim, complete, fail (transient or permanent), requeue | one worker per job within its lease; a retry budget that crashes cannot exceed; every job comes to rest |
| ingestion (`worker/src/ingest.ts`) | load record, embed, upsert chunk by chunk, delete orphans, raise watermark | chunks are those of the present text; generations do not disturb each other; the watermark only rises |
| records API (`api/src/records.ts`) | create, patch, then enqueue / copy metadata / purge | a published record is searchable by what it says now and a withdrawn one by nothing |
| re-embedding (`worker/src/reembed.ts`) | find stale records, leave out queued ones, insert jobs | no published record is left in the old generation |
| article batch (`worker/src/article-batch.ts`, `article-triggers.ts`) | load material, count feedback, evaluate triggers, load open articles, file proposals | the queue does not pile up; no report is lost to a smaller one; a digest per week |
| articles API (`api/src/articles.ts`) | patch, publish | a decision is final; only what somebody wrote is published |
| feedback (`api/src/feedback.ts`) | store a judgement, merge or insert a candidate | an approved case is never changed by feedback |
| retriever (`core/src/retriever/`) | two searches in parallel, cap per record, fusion, relation expansion, hydration | slots are shared among records; ranking agrees with the lists |
| answers (`core/src/generator/`, `api/src/answer.ts`, `search.ts`) | gate, context, call the model, verify, regenerate once, strip | no suspect text reaches the model; what is delivered is cited; every request ends |
| embedding generations (`core/src/db/embedding-generations.ts`, boot in `worker.cli.ts`, `api/src/server.ts`) | read the ledger, look for vectors, insert the claim, read the winner | vectors of two embedders never share a version, and no process is up against the ledger; one that fits comes up |
| deployment (`infra/deploy/deploy.sh`, `smoke.sh`, `.github/workflows/deploy.yml`, compose files) | send the bundle, render, pull, bring up, wait, smoke test, record, roll back once | a rollback goes to a tag that has come up, and gets there; a success serves its tag |
| database bootstrap (`core/src/db/indexes.ts`, `search-indexes.ts` and their cli) | create or compare one index after the other, then poll until all can be queried | a success means that what the release needs is there; every run ends |
| sanitizer (`core/src/sanitizer/`, `api/src/sanitize-record.ts`) | mask secrets, flag instructions, measure the fields | what any rule finds is under a label |
| chunker (`core/src/chunker/`) | cut the sections of a record into pieces that fit | nothing is lost, doubled or torn apart, and every piece fits |
| facts (`core/src/facts/`) | screen records, collect snippets, group, count, chart | what is cited stands in the records named for it; the counts agree |
| publisher (`core/src/publisher/`) | prompt, draft, lint, rewrite, fact check, diagrams | no model reads a flagged record; a draft that is accepted claims what the facts hold |
| embedder client (`core/src/embedder/`) | settings, batches, two counters of retries, reading the reply | a vector is that of its text; a call ends within the lease of the job |
| language model client (`core/src/llm/`) | settings, attempts, redaction of errors | no piece of the key that is long enough is reported |
| worker process (`worker/src/worker.cli.ts`, `worker.ts`) | boot checks, loop, signals, shutdown | a process that ends well leaves no job claimed |
| MCP server (`mcp/src/`), authentication (`mcp/src/http/auth.ts`, `api/src/auth.ts`) | authenticate, send, send again, render the reply | a write happens at most once, where its answer says; the ids of the hits survive every cut |
| seeding (`scripts/seed.ts`) | create what is absent, patch what is its own, keep the manifest | one record per seed title, and nobody's record is taken |
| lists (`api/src/cursor.ts`, list routes, `web/src/lib/`) | filter, page, follow the cursor | an entry that is there throughout is shown once |
| everything else | see *Not modelled* | |

### Interactions

The API inserts jobs and never waits for them. Workers poll. The batch and the reembed tool
read collections that the API and the workers change meanwhile. Every process that embeds
asks the ledger when it boots; a deployment replaces processes whatever they are doing. A search reads chunks that a
worker may be replacing and records that may be gone. `db-init` runs to its end before the
containers that wait for it come up. Processes talk to each other through documents, with two
exceptions: the MCP server and the seeding call the API over HTTP, and everybody calls the providers
(embeddings, language model). Where a module is not about such a call, it takes it as a result
or an error at any time; `ToolCalls`, `EmbedderCalls` and `ModelClient` are about them. Every text that is
stored goes through the sanitizer, every text that is embedded through the chunker, and an
article from the batch's proposal through facts and publisher to the editors.

### What is hard here

Interleavings between the steps of two processes that each read, decide and write; a crash
or an error between two writes; a worker that is slower than its lease; a write that
succeeded and is reported as failed; retry limits compared in two places; two generations of
chunks side by side; snapshots that are stale when they are acted on; host scripts that a workflow has stopped
waiting for; settings that reach a container from the environment, a file or a bundle; replies
that are lost after the write they answer; retries counted twice; and pure functions whose rules
overlap: fourteen rules over two copies of one text, budgets filled by rounded estimates, three
screens over the same records. `PROJECT.json` lists
each hazard at its line with the properties that cover it, or the reason none does yet.

## 2. The modules

| module | models | extends |
|---|---|---|
| `JobLifecycle` | abstract specification: the state diagram of one job in `jobs.ts` with its retry budget | |
| `EmbedQueue` | `jobs`, polling workers, lease recovery, lost replies, crash and restart, `requeue` | |
| `KnowledgeStore` | records, chunks and jobs together: POST, PATCH and the ingest of a claimed job, one database call per step | `EmbedQueue` |
| `Reembedding` | a redeployment with a new `EMBEDDING_VERSION` and the `reembed` tool beside all of the above | `KnowledgeStore` |
| `Feedback` | judgements and eval cases | |
| `Articles` | records as the batch sees them, triggers, batch runs, article requests | `Feedback` |
| `Lists` | operators: what sorting and filtering a list makes | |
| `Retrieval` | operators: cap, fusion, slots, relation expansion | `Lists` |
| `Citations` | operators: claims, code blocks, verification, stripping of an answer | `Lists` |
| `Answering` | a search or answer request, one step per await, beside changes of the collections | `Retrieval`, `Citations` |
| `EmbeddingGenerations` | boots of processes that embed, and the ledger they claim versions in | |
| `Deployment` | runs of `deploy.sh` on one host, and what compose does to the containers above | `EmbeddingGenerations` |
| `Masking` | operators: the rules, their segments, the probe and the edits of `masking.ts` | |
| `Sanitizing` | a request's fields on their way through the sanitizer | `Masking` |
| `Chunking` | `chunkRecord` on one record | |
| `Facts` | `extractFacts` and its charts | |
| `FactCheck` | operators: `lintDraft`, `crossCheckFacts` | `Facts` |
| `Drafting` | `draftArticle`, one model call per step | `FactCheck` |
| `Bootstrap` | runs of `db-init` against one server, one command or poll per step | |
| `WorkerLoop` | one worker process from boot to exit, with signals | |
| `EmbedderCalls` | an `embed` call with its batches and waits | |
| `ModelClient` | a call to the language model, and what its failure says | |
| `ToolCalls` | tool calls from the key to the answer, requests and replies apart | |
| `Rendering` | the text of a reply within its token budget | |
| `Seeding` | runs of `db:seed`, one API or database call per step, beside people | |
| `Listing` | a walk through a list while it changes | |
| `ListFacts` | lemmas about numbers and lists: the least number, induction, sorting, picking, flattening, sets counted in parts | `Lists` |
| `Folding` | what a fold over a list or a set computes, and what sorting a list does, for the operator it is instantiated with | `ListFacts` |
| `KnowledgeStoreProofs` | theorems about the queue, about the store from those, and about the redeployment from both | `Reembedding` |
| `AnsweringProofs` | theorems about searches and answers | `Answering`, `ListFacts` |
| `ServicesProofs` | theorems about the worker process, `db-init`, tool calls, the embedder client, boots and deployments | `WorkerLoop`, `Bootstrap`, `ToolCalls`, `EmbedderCalls`, `Deployment`, `ListFacts` |
| `PublishingProofs` | theorems about the seeding, the lists, articles and feedback | `Seeding`, `Listing`, `Articles`, `ListFacts` |
| `DraftingProofs` | theorems about the prompts, the facts and the drafts of an article | `Drafting`, `ListFacts` |
| `TextProofs` | theorems about redacting, masking and chunking | `ModelClient`, `Sanitizing`, `Chunking`, `ListFacts` |
| `MCKnowledgeStore`, `MCReembedding`, `MCArticles`, `MCAnswering`, `MCDeployment` | instances for TLC | |
| `MCPublishing` | the instance that puts `Articles` beside the texts: `Sanitizing`, `Chunking`, `Drafting`, `Bootstrap`, `Seeding`, `Listing` | `MCArticles` |
| `MCServices` | the instance that puts `Deployment` beside the processes: `Bootstrap`, `WorkerLoop`, `EmbedderCalls`, `ModelClient`, `ToolCalls`, `Rendering` | `MCDeployment` |

The modules that `MCPublishing` and `MCServices` put together share no state. Each is checked in a *scene*
of its own, chosen in the initial state, in which the other modules stand still; an invariant of a module is
about the states of its scene, and holds of its initial state in the others. Their next-state
relations list every step as a disjunct of its own, so that TLC reports which of them were taken: all of them.

How state corresponds to the code:

- **EmbedQueue.** `jobs[j]` is a document; `age` is the time since its `updatedAt`, in ticks
  and capped at `Horizon`, so no clock has to be bounded. `claimNextJob` is three
  steps, as in the code: reclaim the oldest expired lease (which may end it as `dead`), else
  nothing expired, else claim the oldest pending job whose backoff is over. `completeJob`
  and `failJob` filter by `_id` alone and write what the worker remembers from the claim;
  that is modelled as it is. `tries` is a history variable: ingestions begun since the job
  was queued. With `Lease = 0` a job is expired as soon as one tick has passed over it.
- **KnowledgeStore.** A text is a content id, new with every request; `ChunkCount` says into
  how many chunks it is cut. `req[h]` holds what a PATCH remembers from its read (`was`,
  `wasFlags`) and the follow-ups it still has to do, in the code's order. `ingest[w]` is the
  copy of the record a worker loaded. `RequestDies` ends a request between any two calls;
  the history variable `unqueued` remembers the records that it left without their job, which
  nothing but another edit brings back (`GivenUp`).
- **Reembedding.** `orderly` is chosen at the start: either the redeployment stops old workers
  before new ones exist (what `docker compose up -d` does on one host), requests are not cut
  short and the tool may run, or workers of both versions live side by side, requests die and
  the tool stays away. The first is what the tool needs, the second what the store must bear.
- **Articles.** The `_id` of an article is a hash of kind and sources; here it is the pair.
  Weeks stand for time, `createdAt` for the run that filed an article. `filedAt` is not
  stored by the code; it says how many runs had begun. `now` and the first read of a run are
  one step.
- **Feedback.** The upsert of an eval case is two steps, a search and an insert, as MongoDB
  executes it when the filter does not match.
- **EmbeddingGenerations.** A process goes through `main` of `worker.cli.ts` (or `start` of
  `server.ts`) one database call at a time; `proc[p].pc` says which one is next. `stored[v]`
  is the set of embedders that vectors of `v` are of, with `Unrecorded` for those that were there
  before the ledger. `Replace` is left to the environment: any containers are made anew with
  any settings, or removed.
- **Deployment.** `script[s]` is a run of `deploy.sh`: `tag` is the exported `IMAGE_TAG`,
  `target` the argument of `run_deploy`. Compose takes `${IMAGE_TAG}` from the environment of the
  shell (`ComposeTag`) and `EMBEDDING_VERSION` from the bundle, which the next deployment
  unpacks over (`bundle`). `alone` and `healthy` are history variables. Beside the API and
  the workers, other containers are left out; they embed nothing and `up -d` treats them alike.
- **Masking, Sanitizing.** A text is a sequence of tokens, each the characters that the
  patterns take or leave together: a word, a scheme, the name of a setting. A rule is what its
  pattern says about tokens and their neighbours; bounds of repetitions are left out but for the one on
  userinfo. NFKD and the stripping of invisible characters are token maps (`Normal`), which may give none or several.
- **Chunking.** A text is a sequence of UTF-16 units by kind, with both halves of a pair, so that
  widths, trims and cuts are those of the code.
- **Facts, FactCheck, Drafting.** A text is a sequence of tokens `<<kind, n>>`: an error, a
  command, a path, a number, prose, a fence. Time is counted in ticks of a day (`Ticks`); spans and intervals are in hundredths of a
  day, each rounded by itself as `round(…, 2)` does (`Rounded`). A prompt is the blocks of `renderDraftRequest`: facts, outline, records and
  style samples. What
  a model answers is any member of `Bodies`, `Rewrites` or `Codes`, or a failure; the lint and the
  fact check then run on it as the code does.
- **Bootstrap.** A definition maps settings to values; the server reports an index with its
  defaults besides, which is what the comparison has to see through. `sure` says that nobody has dropped an index
  since the run began. The second tool may also be run alone, by hand (`both`), on a cluster without collections.
- **WorkerLoop.** `pollLoop` is `runLoop` with the handle that wakes its idle, `process`
  the rest of `main`; each lets go of the thread only at an await, and a signal comes at any of them.
- **EmbedderCalls.** The texts of a call are numbered and the vector of a text is its
  number. Waits are in milliseconds, as the code computes them; what a request itself takes is not counted, since nothing limits it.
- **ModelClient.** A key is a sequence of characters; an error quotes any piece of it between
  other characters, since it does not say what it quotes. The attempts are those of the vendor's SDK (external).
- **ToolCalls.** `wire` holds the requests of a call, `effects` what core-api did for it, so that a
  timeout, a lost reply and a late request are different things.
- **Rendering.** A character is its kind and what line it stands for; tokens are counted in
  tenths by the upper estimate, the only one that decides.
- **Seeding.** `rows` holds, beside a title, the file a record was made for, which the code does not store.
  `moved` says that somebody has renamed it.
- **Listing.** `walk.steady` holds the entries that have answered the query since the walk
  began; `seen` counts the pages that showed an entry.
- **Answering.** A list of hits is any sequence of indexed chunks within the limit (the
  index is approximate). A hit carries the flag it was read with. An answer is a sequence of
  pieces, the sentences `splitAnswerSentences` makes: each says its kind, its citations, the chunk it
  was copied from, and whether the next one goes on in the same line (`inner`). Whether a piece is a fence, code or a claim
  follows from its place: stripping joins the pieces that stay as they are, so that a sentence removed from the end of a line takes the newline with it. Sorting and filtering are said by the places elements come to (`Lists`), since the
  community modules define them by recursion, which nothing can be proved about.

## 3. What is checked

TLC, 2 workers, all below five minutes. *V* marks a run in which TLC finds the one property
violated: the code does not do what its comment or test says.

| run | question | instance |
|---|---|---|
| `queue_stall` | workers that outlive their lease, lost replies: `RetryBudget`, and `EveryJobSettles` | 2 jobs, 2 workers, 2 attempts, lease 0, 1 requeue |
| `store_serial` | one request at a time, any of which may die, with a crashing worker: `PublishedIsIndexed`, `EditsReachIndex`, `StoreTypeOK` | 1 record, 3 edits, 3 jobs, 1 requeue, bodies of 2 and 1 chunks |
| `store_workers` *V* | `OldTextIsGone` | 1 record, 2 workers of one generation |
| `store_unpublish` *V* | `UnpublishedIsNotFound` | 1 record, 1 worker |
| `reembed` | two versions at once with dying requests, or a redeployment with the tool: the queue implements `JobLifecycle` (`FollowsLifecycle`), `NoSharedJob`, `WatermarkNeverDrops`, `GenerationsStayServed`, `ReembedCoversAll` | 1 record, 2 workers, 3 jobs, 2 attempts, lease 0, 2 edits, 1 requeue, 1 run of the tool |
| `articles_queue` | overlapping batches: `NoPileUp`, `WideReportsSurvive`. In scenes of their own: `FoundIsLabelled`, `ChunksAreFaithful`, `FactsAreSourced`, `DraftsAreGrounded`, `PromptsAreClean`, `SuccessIsVerified`, `SeedsStayOne`, `PagesMissNothing` | 3 records (two of week 1, one of week 2), 2 batches, 2 runs, an editor who rejects, r1 may be withdrawn or flagged; for the scenes see below |
| `articles_editors` | two editors, the batch, feedback: `PublishedIsWritten`, `DecidedArticlesStay`, `ApprovedCasesStay` | 2 records that stay published, within a week, 1 batch, 2 runs, 2 edits, 2 judgements |
| `articles_digest` *V* | `OneDigestPerWeek` | 2 records, 2 weeks |
| `answering` | a request beside changes: `SlotsAreShared`, `BetterRankedComesFirst`, `SuspectsStayOut`, `ModelCallsAreEarned`, `AnswersAreGrounded`, `EveryRequestEnds` | 4 chunks of 3 records, lists of 4 and 2, 1 chunk per record, answers of up to 2 sentences, on one line or two, before or around a block of code, 1 change |
| `answering_citations` *V* | `StrippedVerifiesAgain` | answers of up to 5 pieces with fences and blank lines |
| `deployment` | boots and deployments that fail, overlap and are killed: `SpacesNeverMix`, `LastGoodCameUp`, `SuccessIsServed`, `RightfulStarts`. In scenes of their own: `EveryBootstrapEnds`, `ExitsEmptyHanded`, `VectorsAnswerTexts`, `WaitsFitLease`, `NoFragmentSurvives`, `WritesHappenOnce`, `RepliesKeepTheirIds` | 1 API, 1 worker, 1 version, 2 embedders, 2 deployments of 2 tags, one of which never comes up; for the scenes see below |
| `deployment_rollback` *V* | `RollbackRestores` | the same, both tags can come up |

What the scenes show:

| property | says | instance |
|---|---|---|
| `FoundIsLabelled` | whatever any rule finds in the text or in its probe is under a label, and the userinfo of a database URI ends where the rule in `masking.ts:216-221` says | 18 724 texts of up to 6 tokens, by family of rules |
| `ChunksAreFaithful` | the chunks of a section hold every unit of it but blanks, in order and numbered from 0; each fits with its prefix, no pair is halved, and a sentence that fits is never cut | every body of up to 4 units (a pair is one of the 6 kinds), many of 5, beside an empty or a short second section, 3 limits |
| `FactsAreSourced` | what is cited stands in a section of every record named for it, all published and without a flag, holds no secret, instruction or prose, and forgets no record; the counts of a pack agree with each other and with its charts, but for what a distribution cuts off (`MaxDistributionKeys`) and for the rounding of the span and of each interval | 2 217 selections of up to 4 records, sections of up to 3 tokens; 3 ticks to a day, which no two decimals divide, and 2 keys per distribution |
| `DraftsAreGrounded` | an accepted draft and its diagrams name no day on which nothing happened and no record it is not about, and show as code or quotation only what a quotable record says | 3 970 first bodies around a fence, 4 rewrites, 9 diagrams |
| `PromptsAreClean` | of the text of a flagged or unpublished record a model reads nothing, neither in `<facts>` nor in `<records>`, and no secret, instruction or foreign script, nor an address in its prose; all that is kept back is named with a reason; names in `<facts>` are publishable labels of records that were counted, those flagged for masking among them | the same |
| `SuccessIsVerified` | when `db-init` exits with 0, the indexes are there (the plain ones if both tools were run), and both search indexes answer and are those of its release, whatever other runs were at it, unless somebody dropped one meanwhile | 2 runs, 3 releases, one of them by hand, 1 drop, 1 collection where another index clashes |
| `EveryBootstrapEnds` | a `db-init` that was started ends, though an index is never built | 1 run, of both tools or of the second alone, 3 releases |
| `SeedsStayOne` | however often and wherever it dies, the seeding makes one record for a title; a second one only where a person renamed or deleted the first or the sanitizer changes the title | 2 files, one of whose titles the sanitizer changes, 4 records, 3 runs with 8 settings, 1 edit by people |
| `PagesMissNothing` | a walk shows no entry twice and, at its end, every one that answered the query throughout | 3 entries within 2 milliseconds, pages of 1 and 2, 2 changes |
| `ExitsEmptyHanded` | a worker ends in order only after the job in hand, and no loop goes on beside the end | 2 boots, signals anywhere |
| `VectorsAnswerTexts` | each text gets its own vector, or the call fails | 0, 1 and 3 texts, batches of 2, replies in any order, short or doubled |
| `WaitsFitLease` | the waits for one batch end within the lease of the job | the limits of the code, every order of outcomes |
| `NoFragmentSurvives` | no piece of the key that is long enough is in an error, whatever that quotes, and none leaves a rest unless the key goes on around it | 4 keys, with and without repetitions, 7 surroundings |
| `WritesHappenOnce` | a call leaves at most one record, judgement or paid answer, one if it was told of success, none if it was refused; a record nobody is warned of is in the project of the session | lost and late requests and replies, 2 attempts, 7 settings |
| `RepliesKeepTheirIds` | a reply is within its budget; no hit whose line fits is dropped, and no citation; what is left out comes last and is announced; warnings stay; no stored text makes a line that is not its own | 3 budgets, limits up to 5, texts around every cap |

Of the type invariants `StoreTypeOK` is checked in a run and proved; those of the queue, of articles and
of the host are proved alone. Every property of a passing run has a mutant in the
module, marked by a comment: a plausible bug in the mapped definition that makes TLC report the
property.

**Why the bounds are enough.** Two jobs and two workers let a late worker write over the
claim of the other, and let one job wait behind another. With two attempts a job sees a
retry and its end; that the budget is kept for more is proved. With one record, every job concerns the same chunks, which is the case
that races; the texts alternate between two chunks and one so that orphans arise. Two runs are what
"overlap" takes, and one open article is enough to suppress. In
`answering`, chunks 1 and 2 share a record, so that the cap takes effect, and record 3 is only
reached by a relation; a single change between the awaits moves a chunk, a flag or a record,
and the violations of the mutants need no more.

The scenes of pure functions take every text of their alphabet up to a length that holds two
rules side by side, or a cut and what follows it; longer texts repeat these neighbourhoods. Those of machines have room
for one failure, one retry beyond it and one competitor. `EmbedderCalls` needs no bound on
retries but the code's own.

One version, API and worker with two embedders are what a race for the ledger takes, and two
deployments what an overlap and a rollback take; the theorems cover the rest.

**Deadlock** is checked except in the article and deployment runs, whose bounds on runs, weeks,
edits and deployments leave nothing to do at the end, and whose scenes are over when their text is
cut or their call answered.

**Fairness.** Liveness is claimed where the code schedules the step. `EmbedQueue`: time
passes; the polling loop goes on after every outcome; a dead worker is started again
(`restart: unless-stopped`, `docker-compose.yml`); claiming is strongly fair, which says that a
worker does not die for ever just before each claim. Clients, operators and
failures owe nothing. `KnowledgeStore` adds that a request in progress finishes or dies. `Answering`: an awaited call returns or throws,
since the clients have timeouts. `Deployment`: an exited container is started again, and a boot
that is tried again and again gets each of its calls through at some time (strong
fairness, since a crash may interrupt any one try); nothing is assumed of deployments.
`Bootstrap`: a run that nobody kills takes its next step (`InitStep`), as a process does; the server
may never get ready, and the timeout is what ends the run then.

## 4. What is proved

With tlapm, for every value of the constants that the assumptions of the modules allow. A theorem is about the
same definition a run checks. Where an inductive invariant says more than the run's properties, TLC was
asked about it before it was proved; what it found is said below.

### The queue, the store and re-embedding (`KnowledgeStoreProofs`)

*The queue.*
- `TypeCorrect`: `Spec => []TypeOK`.
- `BudgetKept`: `RetryBudget`, with crashes, stalls and lost replies. Inductive with
  `HeldBudget`: the attempts a worker remembers are below the limit, which matters because
  a stale worker writes them back whatever the document has become.
- `NeverShared` (`NoSharedJob`) and `TriesAreBounded` (`TriesBounded`), for workers that
  finish within their lease. Inductive with `LeaseKept` (a worker and the document of its
  job agree on status, age and attempts) and `TriesKept` (the attempts of a document say how
  often its ingestion was begun).
- `QueueImplementsLifecycle`: initial states and every step map to `JobLifecycle`, under the
  same assumption and when an applied write is reported (a lost reply of `completeJob` takes a
  `done` document back to `pending`, which the diagram has no arrow for).

*The store.*
- `StoreUsesTheQueue`: `StoreSpec => Spec`. Every step of the store is one of the queue or leaves the
  jobs alone, so that all theorems above hold of the store.
- `StoreTypeCorrect` (`StoreTypeOK`), inductive with what the types alone do not say (`StoreInv`): a record has a text
  from its insertion on, a job is for a record that exists, and an ingestion past its load has a text and
  a chunk to write that the text has.
- `WatermarkOnlyRises` (`WatermarkNeverDrops`), an action property.
- `IndexedStaysServed` (`GenerationsStayServed`), an action property that is not one of each step alone: a worker that loaded an
  older text must not find the present one in the index to write over. Inductive with `WritesFresh` (the text a
  request will write stands nowhere yet) and `StaleBlind` (while a worker embeds an older text of its record,
  its generation holds no chunk of the present one). Assumed: one worker per generation, as
  `docker-compose.yml` has it, without which the property is false (`store_workers`), and that a text has at
  least one chunk, which the schema's minimum for every section gives.
- `PublishedGetsIndexed` (`PublishedIsIndexed`), through crashes, expired leases, late workers and lost replies. The
  invariant `CoverInv` follows the promise: a published record whose job was not given up is *pledged* (a
  request will still insert its job, or a job is open, or a worker holds one) or it is at rest and *settled*
  in the index. Assumed: one worker. Any number of requests may be in flight, and their bodies, tags and flags may race; the theorem
  is about the behaviours in which no request changes the *status* of a record while another request of that record is in flight
  (`StatusLeftAlone`, a condition on steps). The code does not ensure it, and where it fails `PublishedIsIndexed` is false (section 5): a PATCH
  decides by the status it has read (`ReadsHold`) whether to enqueue and to purge. The run has one handler, for which the condition always holds.

*Re-embedding.* A redeployment stops all old workers in the middle of whatever they do; the lemmas say that
this is, for the queue and for the store, several crashes at once.
- `ReembedTypeCorrect`, `RedeployedNeverShared`, `ReembeddingImplementsLifecycle`, `RedeployKeepsWatermarks` and
  `RedeployedStaysServed`: the properties of the store and the queue hold on, under the same assumptions.
- `ReembeddingCoversAll` (`ReembedCoversAll`): when the tool has finished and the queue is empty, every published record
  is in the new generation. `ReembedCoverInv` adds to the pledge a third case: the tool has not passed over the record yet
  (`Exempt`); and that a worker about to complete a job has raised the watermark (`CompletedRaised`),
  without which the tool's filter would leave records out. Under the same condition on requests (`StatusLeftAlone`), which matters here as much:
  the tool does not notice chunks that a late purge took, since the watermark stays. TLC: no violation in 1.75 million states of the `reembed` run.

### Articles (`PublishingProofs`) and hosts (`ServicesProofs`)

*Articles.*
- `ArticlesTypeCorrect`; `OnlyWrittenIsPublished`, from `EditorsHoldArticles` (a request in
  progress refers to an article that exists, and carries a time); `DecisionsStand` and `ApprovalsStand`, the action properties,
  from the same invariant.
- `QueueDoesNotPileUp` (`NoPileUp`), for any number of overlapping runs. Inductive with
  `AgesKnown` (no article is newer than the runs begun) and `OpenSeen` (what is open and was
  filed before a run began is in that run's snapshot): a wider article is filed beside an open narrower one only by a run whose
  snapshot could not hold it.
- `RunsAnswerProposals` (`WideReportsSurvive`), for a finite corpus. Inductive with `WidestFirst`: what is left to do is no wider than what
  the run has filed, so that nothing is passed over for an article of the same run.

*Hosts.*
- `SpacesKeptApart` (`SpacesNeverMix`), for any processes, versions and embedders. Inductive
  with `Vouched`: the ledger speaks for all vectors of a version, nobody is up against it, and
  a process about to insert a claim has seen a version without vectors, which stays so until
  there is an entry, since only a process that is up stores any.
- `DeploymentIsBooting`: a behaviour of the host is a behaviour of `EmbeddingGenerations`, so
  that `DeploymentKeepsSpaces` follows without another induction.
- `RollbackTargetIsGood` (`LastGoodCameUp`), from `CameUp`: past the wait the tag of a script
  has come up. `SuccessIsKept` (`SuccessIsServed`), from `Undisturbed`: nobody else is at work
  beside a script that is alone, so what it has brought up stays. `DeploymentTypeCorrect`.

### Searches and answers (`AnsweringProofs`)

The lemmas are about lists: a strict order on a finite set puts each element at a place of
its own (`OrderedPlaces`), a picked list keeps the order of the places it was picked from
(`PickedPlaces`), and what deduplication, the cap, fusion and expansion make of any lists (`DedupeList`,
`CapKeepsRecords`, `FuseList`, `TopHitsList`, `ExpansionList`).
- `SlotsStayShared` (`SlotsAreShared`): counting, `SlotsNeeded` and `CapKeepsRecords`: a capped list shows a record for every
  `MaxChunksPerRecord` of its places, unless it shows them all.
- `BetterRankedAreFirst` (`BetterRankedComesFirst`): fractions are compared across (`FractionsInOrder`), so that a score follows
  the ranks (`ScoresFollowRanks`), and where scores are equal the ties go to the better best rank.
- `SuspectsAreKeptOut` (`SuspectsStayOut`). These three are from `SearchInv`, which follows a chunk through every
  list a request keeps: what is not flagged in it was seen without its flag while the request was served. TLC: no violation in
  324 000 states of the constants of `answering`.
- `CallsAreEarned` (`ModelCallsAreEarned`), from `EarnedInv`: nothing is paid for before the context is there.
- `GroundedAsDelivered` (`AnswersAreGrounded`). What is delivered is checked as the sentences were read in the whole
  answer but read as they stand in what is left of it. A block of code stays or goes as a whole when no blank line splits it
  (`BlocksGoWhole`), so that an even number of fences goes between any two pieces that stay (`FencesStayPaired`); where no two lines are
  joined and no fence is made (`~Rejoins`) each piece that stays begins a line if it did, and is read as it was (`StrippedReadsSame`). The two exceptions
  are what the code does wrong, not what the model leaves out (section 5); `answering_citations` shows the first. TLC: `GroundInv`
  holds in the 48 863 states of that run's constants.

### Processes and their calls (`ServicesProofs`)

- `WorkersLeaveNothingInHand` (`ExitsEmptyHanded`), from what each stage of the process says about its loop.
- `ToolsWriteOnce` (`WritesHappenOnce`): at most one request of a call that writes is ever on its way, and what is on its way
  or was done tells what the client may have been told (`OneRequestEach`, `EffectTold`); for any calls and attempts.
- `BootstrapVerifies` (`SuccessIsVerified`), for any number of runs and releases beside each other. Inductive with what a run may rely on after
  each command and poll (`RunKept`), which other runs never undo and an operator's drop is recorded against.
- `VectorsAnswerTheirTexts` (`VectorsAnswerTexts`): a call has the vectors of its first texts; a reply that fits a batch is a permutation of
  it, which the index in each item undoes (an injection of a finite set into itself).
- `WaitsFitTheLease` (`WaitsFitLease`), for all settings for which `LeaseFits`: the waits of all retries together are shorter than the lease. The defaults give 332 400 ms
  of 600 000 ms. Neither counter gives the other its retries back.

### Seeding and lists (`PublishingProofs`)

- `SeedsMakeOne` (`SeedsStayOne`), with crashes anywhere and people at the records. `SeedingInv` says what a run remembers about a title
  and what the records and the manifest hold of it meanwhile. TLC: no violation in 44 635 states.
- `WalksMissNothing` (`PagesMissNothing`), for any collection and page size: what has been there throughout was shown once or is still
  behind the cursor, and the last of a page is before all that is left (`CursorParts`). TLC: no violation in 283 741 states.

### Prompts, facts and drafts (`DraftingProofs`)

For any records, texts, style files, limits and answers of a model; the texts are sequences of tokens of any length.
- `PromptsStayClean` (`PromptsAreClean`), for any records, style files and limits. The invariant `PromptKept` says that a prompt, once sent, is
  one of the facts that were taken (`PackKept`). The rest needs no induction. *Records*: a text that was
  cut is the beginning of one that was judged, and holds nothing the whole does not (`PrefixHolds`, `NarrativeIsClean`), and only records that may be quoted have a head.
  *Facts*: what is quoted is what `FactsStaySourced` says of it, and every name in a distribution, among the common tags or in the timeline is a label that
  was screened, or a day, of a record that was counted (`TallyNames`, `LabelsCounted`, `FactsAreGiven`). Assumed (`FactsAssumption`): the records of an article
  differ in their ids, being documents of one collection, and have finitely many tags (nothing under `src/` but its tests calls `extractFacts` yet).
- `FactsStaySourced` (`FactsAreSourced`). The induction is short, since facts are taken once: what is in `pack` are the facts of `sources`
  (`PackKept`). The rest is about `ExtractFacts`. *That it adds up*: every distribution counts disjoint sets that
  make up what is counted (`TwoParts`, `SumsOver`, `AsMany`), which is said for labels (`TallyTotals`), for the categories and the models of
  divergences (`CategoriesCounted`, `ModelsCounted`), for days and weeks (`PeriodsCounted`); the intervals between the records add up to the span
  because the instants are sorted, but for the rounding of each (`RoundedNear`, `DaysAddUp`, `IntervalsCounted`); a distribution counts the most frequent
  keys only, so its sum is that of the chart's cells when there are no more (`CutItems`). *That it is sourced*: what a rule cuts out of a text stands in it
  without a break (`ExtractedSnippets`), and grouping forgets no record of a snippet (`EvidenceIsSourced`).
- `DraftsStayGrounded` (`DraftsAreGrounded`). What the facts allow to be said is true of the records: the days, the ids, the
  vocabulary and the strings of evidence (`AllowedIsTrue`). So a body or a diagram in which the cross-check finds no violation names no other day or
  record, line by line, and what it shows as code or quotes stands in a record that may be quoted (`CheckedIsTrue`, `DrawnIsTrue`; the text that is checked is put together
  again from lines, which are split as they were). The inductive invariant `DraftKept` carries this through the machine: the facts are those of
  the sources (`PackKept`), what is allowed is what they allow (`AssignmentKept`), a draft past its checks has
  a body that passed them, and no rewrite replaces it after (`DrawingKept`), and every diagram that is kept was checked by itself (`OutcomeKept`).
  The property speaks of the accepted body under any number of rewrites for style and attempts at diagrams.

### Texts (`TextProofs`)

These are about what a fold computes for a text of any length. The provers take no operator for an argument and so cannot use the
library's induction theorems; `Folding` has the operator as a CONSTANT of the module instead, and each fold of the model instantiates it. `FoldGoesAlong`
(for sets `SetFoldGoesAlong`) then gives the values a fold goes through, one for each item, and an invariant of the fold is carried along them by induction in its set form
(`CountingUp`, `FromTheEnd`, `LeastOf`). A recursive function is handled likewise, once one is shown to exist.
- `FragmentsAreRedacted` (`NoFragmentSurvives`), for any keys and surroundings. `SplitAndJoin` scans the text once from the left (`Scans`); what comes out of it
  holds no text but what stood there before, and not the piece (`SplitAndJoinTakesOut`), so that no piece taken out comes back with a later one. That nothing
  of the key is left beside the label rests on the order: the longest pieces go first (`LongPiecesFirst`), so that a piece that
  stands alone is taken out whole (`TakenOutWhole`) and not by a part.
- `SecretsAreLabelled` (`FoundIsLabelled`), for any text over `Tokens`. Each rule yields segments within the text (`RulesFind`); none is lost when they are collected, where a
  later rule may grow an earlier segment (`CollectedTakes`), when those of the probe are carried back to the text they come from (`SourceTakes`), or when the edits are sorted
  and merged (`MergeTakes`). So what was found is under a label (`FoundIsHidden`); and the userinfo of a database URI ends where the code says.
- `ChunksAreWhole` (`ChunksAreFaithful`), for any sections, prefixes and limits. Splitting by paragraphs, by sentences and by force (the recursion of `HardCut`) divides
  a body: nothing but blanks is lost, every part fits, and no cut is inside a pair (`ParagraphDivides`, `HardCutDivides`, `CutKeepsPairs`). Packing joins neighbours only
  (`PackUnitsDivides`). Each division remembers at how many solid units it cuts (`Marks`), so that where every sentence fits, every chunk ends with one (`HeardAtBoundary`).

### Assumptions

Those named in the modules (`QueueAssumption`, `HorizonCoversBackoff`, `StoreAssumption`,
`FeedbackAssumption`, `ArticlesAssumption`, `GenerationsAssumption`, `DeploymentAssumption`,
`RetrievalAssumption`, `AnsweringAssumption`, `EmbedderCallsAssumption`, `BackoffAssumption`, `SeedingAssumption`, `ListingAssumption`,
`ModelClientAssumption`, `SanitizingAssumption`, `ChunkingAssumption`, `FactsAssumption`, `DraftingAssumption` and their like); TLC evaluates them in the runs. Chunks, relations and entries of lists are finite sets. `ChunkingAssumption` takes
bodies whose pairs are whole: they come from the database, which holds UTF-8 and no half of a pair. `FactsAssumption` takes
records that differ in their ids, with times and names of labels that are numbers and of the types and severities there are; `DraftingAssumption`, answers of a model that are texts. `BackoffAssumption` says what a power of two is
for the exponents in use, since the provers do not know exponentiation.

Assumptions of single theorems, in their ASSUME: `~StallsAllowed` (workers finish within their lease), `~RepliesLost` (a write that is applied is
reported), `OneWorker` and `OneWorkerEach` (one worker, one per generation: there is no `replicas` or `--scale` anywhere), finiteness of the corpus, `LeaseFits`.
`PublishedGetsIndexed` and `ReembeddingCoversAll` assume of a behaviour `[][StatusLeftAlone]_allVars`, which the code does not ensure (section 5 says
what happens without).

### What proofs changed in the model

Two definitions had a CASE whose arms overlap, which TLA+ leaves open and TLC decides by their order: a blank line inside a code block was a
*blank* and *code* (`Citations.Piece`), and settings with two faults had two errors (`EmbedderCalls.ConfigError`). They are now decided in
the code's order. Lists that were sorted and filtered by recursive operators are now said by their places (`Lists`), or are
sets where the order said nothing (`Listing`, `Seeding`, the screened records of `Facts`); `KnowledgeStore` says the same with set filters. `Masking` sorts its
edits by places too (`ByStart`), and `Chunking` packs with folds (`TakeIn`) where it had recursive functions. `ChunksAreFaithful` was
stated by a helper of the chunker that the code does not have; it is now about its paragraphs and sentences (`SentencesFit`). Assumptions
that held of every instance were missing: some record exists, file types are the two there are, what is listed is finite, a record is found once.

`Facts`, `FactCheck` and `Drafting` sorted and
filtered by the recursive operators of the libraries and now say the same by places (`Sorted`, `Picked`), and compare texts by their first different token (`TextBefore`). Two
properties claimed more than the code does, which no instance was large enough to show and the proofs did: `FactsAreSourced` forbade
a full stop within an error, but one that is quoted may hold it (`evidence.ts:112`); and `DraftsAreGrounded` spoke of the text beside the
mark of a fence, which nothing checks (section 5).

### Only model-checked

Liveness (`EveryJobSettles`, `EditsReachIndex`, `EveryRequestEnds`,
`RightfulStarts`, `EveryBootstrapEnds`) is out of the prover's reach, as is ENABLED.

Of the safety properties, `RepliesKeepTheirIds` stays with TLC. Token estimates are rounded up for each part and then
shrunk in proportion, up to eight times (`format.ts`); that the last of these fits the budget, so that the final cut takes no line with
an id, depends on the weights and the budget and is not true of all.

The violations of section 5 are counterexamples; there is nothing to prove.

## 5. Where code and text disagree

With a run: `store_workers` (a late ingest of an older text leaves it in the index),
`store_unpublish` (a queued job embeds a record that was taken back to draft),
`articles_digest` (a record published late gives its week a second digest),
`answering_citations` (stripping half a code block leaves an answer that does not verify),
`deployment_rollback` (the rollback brings up the failed tag again: it is still exported, and
compose looks there before `--env-file`; the docker stub of the test reads `.env`).

Met while modelling, without a run of their own:
- Two PATCHes, unpublish and publish again, may order the purge after the chunks of the
  second; `PublishedIsIndexed` is therefore checked with one request at a time, and proved for any number
  that leave each other's status alone.
- Two PATCHes that raise different sanitize flags can lose one: the union starts from the
  flags that were read (`records.ts:457`).
- A process that dies between the record and its job leaves the record unindexed; nothing looks for it.
- A worker may copy metadata it loaded earlier over what a PATCH has just repaired.
- After its lease a late worker requeues or completes the job of another, since its writes filter by `_id`.
- `now` is taken before the await in `claimNextJob`, so a slow call judges by an older clock.
- Old and new workers at once defeat `reembed`: it skips a record whose job an old worker has.
- `rrf.ts:126` says the cap before the fusion loses nothing the cap after it would keep. With
  v = <<a, b, c>> and t = <<d, a, c>>, where a, b, c belong to one record and two slots are
  allowed, it drops c.
- With relation expansion a search returns up to three hits more than `limit`.
- `stripUngroundedSentences` joins what it keeps as it is (`citation.ts:246-253`). An uncited sentence at the end of a line goes with its newline, and the
  next line is glued to the sentence before: an opening fence is none any more, and its code is delivered as uncited claims. A sentence removed from
  the beginning of a line may leave one that begins with three backticks, and make a fence. `AnswersAreGrounded` names both (`Rejoins`).
- A code block with a blank line in it, right after a cited sentence, is judged ungrounded
  in its second half (`citation.ts:267`).
- Unknown citations in headings and labels are no violation.
- Two first judgements of one query insert the same eval case; the loser's record is dropped.
- `aws ssm wait` gives up before a long deployment has ended, and its exit code is swallowed
  (`deploy.yml:268`): the job ends and the next deployment may start beside the script that the
  concurrency group was to keep it from (`deploy.yml:30-35`).
- The worker has no health check, so that one which cannot boot fails no deployment.
- A rollback restores neither the bundle nor `EMBEDDING_MODEL`.
- A process that loses the race for a version to one of its own kind, which then stores
  vectors between its two reads, is refused and comes up only when it is started again.
- Proposals of equal width are filed in the order of the triggers; the model takes any.
- `masking.ts:711` says that a later rule's range is discarded where it overlaps an earlier one's. `collectEdits` (`masking.ts:837-850`) widens the earlier
  range instead, as its own comment demands; discarding is the mutant that `FoundIsLabelled` catches.
- `<facts>` and `<outline>` count flagged records: a masked one gives its tags, project, model and tool to the prompt (`draft.ts:367-402`), though none of its
  words; an address may be quoted there as a signal; and the tags in the head of a record (`narrative.ts:245-263`) are not screened as labels are.
- The rounded intervals of a recurrence need not add up to its rounded span, and the cells of the model heatmap are not cut at 50 keys as `byModel` is
  (`aggregate.ts:31-44`, `charts.ts:152-167`): a chart may disagree with the table beside it.
- Masking what was masked may mask more (`token=sk-…`).
- `lint.ts:25-27` says that the density of facts cannot be had without material; empty fences count as facts and as code blocks.
- A fence that is never closed swallows the diagrams appended after it; the fact check still takes its lines for code.
- A call for a diagram that throws fails the whole draft, where §5.2 of the specification omits the diagram alone.
- Digits in ids of records are among the allowed numbers, so that 0 to 3 pass everywhere; text beside the mark of a fence is never checked.
- `aggregate.ts:46` says that a record cannot count twice for one tag; with `a` and ` a` it does, since the blanks go only later.
- `types.ts:152`: records without evidence are counted before citations are cut to `MAX_CITATIONS`.
- Two batches of one `embed` call whose rate limits ask for the maximum wait longer than the lease
  (602.8 s, `worker/src/config.ts:43-46`), and nothing limits a request itself; `WaitsFitLease` is about one batch.
- `suggest-resolution.ts:80-81` allows 30 s for what two completions of two attempts each may take 32 s for.
- `waitForSearchIndexesReady` looks at readiness alone; an index that was replaced since it was compared passes.
- A stop that comes after the queue was found empty and before the idle begins finds no timer to wake, and
  waits out one interval; a worker that is started before its stopped loop has ended runs two.
- The seeding that dies between a record and its job is not repaired by a plain run, which skips the title and
  reports success; and `--reset` adopts a record of the same title that people made, which the doc of `runSeed` rules out.
- One document that its schema refuses fails the whole page of a list.
- `db/client.ts`: a failed first connection clears whichever attempt is current, which after `closeDb` may be another's.
- A record written after its call timed out is in the answer of nobody; the next call repeats the write if the client does.

## 6. Not modelled

- *Infrastructure and images*: Terraform, nginx and Dockerfiles declare; what compose makes of them is in `Deployment`.
- *Evaluation harnesses* (`eval/`): measurements over fixed data, sequential, without state they share with the service.
- *Repository tools* (`tools/`): reports and lints about the repository itself.

Of components that are modelled in part: the validation of bodies against their schemas, project
checks, relations and detail routes (they read one document and change nothing); routing, error mapping and the OpenAPI document;
the wording of prompts, templates and errors; the parser of mermaid (a code is broken or it is not); components, charts and
Markdown of the web; `mcp-ping.ts`; the framing of stdio and HTTP. Regular expressions are modelled by what they match among tokens, never
character by character: whether a pattern's character class is right is for its unit tests.

One hazard has no property: a process that dies between a record and its job (`records.ts:293`). Nothing in
the code repairs it, so that there is nothing to check but the loss itself, which `unqueued` keeps
out of `PublishedIsIndexed` by name.

## 7. Plan

Done, in this order: the queue and its lifecycle; the store; re-embedding; articles with
feedback; retrieval, citations and answers; the generations and deployment; proofs about the
queue, the articles and the host; sanitizer, chunker, facts and publisher; the bootstrap, the worker
process, the clients of the providers and the MCP server; seeding and lists; proofs
about the store, re-embedding, searches and answers, the processes and their calls, the seeding and the lists;
proofs about texts: redacting, masking, chunking, prompts, facts and drafts.

Next:
1. For which budgets and weights `RepliesKeepTheirIds` holds.
2. `SeedsStayOne` with runs at the same time, which today duplicate.
3. Validation and relations of the records API, once two requests are modelled beside each other.
