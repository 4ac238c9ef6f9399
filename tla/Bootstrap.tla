------------------------------ MODULE Bootstrap ------------------------------
(***************************************************************************)
(* db-init: the one-shot container that core-api and worker wait for.  It  *)
(* runs ensure-indexes.cli.ts and then ensure-search-indexes.cli.ts        *)
(* (packages/core/src/db), and nothing keeps two of them, of two releases, *)
(* from being at it at once.                                               *)
(*                                                                         *)
(* A definition is a function from its settings to their values; what the  *)
(* server reports of an index holds its defaults besides.  Time counts in  *)
(* polling intervals.                                                      *)
(***************************************************************************)
EXTENDS Integers, Sequences, Functions

CONSTANTS
    Runs,           \* runs of db-init
    Releases,       \* [dim, edition, placed, both]: EMBEDDING_DIM (0: not set), what
                    \* the files say, whether they say where the dimension goes, and
                    \* whether both tools are run or the second alone, by hand
    Clashing,       \* of the indexes, those another may be there instead of
    ReadyTimeout,   \* SEARCH_INDEX_READY_TIMEOUT_MS, in polling intervals
    MaxDrops        \* bound: indexes somebody drops by hand

ASSUME BootstrapAssumption ==
    /\ \A r \in Releases : r.dim \in Nat /\ {r.placed, r.both} \subseteq BOOLEAN
    /\ ReadyTimeout \in Nat \ {0}
    /\ MaxDrops \in Nat

VARIABLES
    database,   \* [search, duplicates, collections, btree, index]
    init,       \* init[r] = [pc, release, at, pending, waited, sure]; it is sure
                \* while no index has been dropped since it began
    drops

bootstrapVars == <<database, init, drops>>

-----------------------------------------------------------------------------
(* What is to be there.                                                    *)

DB_INDEX_SPECS == <<
    [collection |-> "records",  name |-> "records_project_type_createdAt",     unique |-> FALSE],
    [collection |-> "records",  name |-> "records_tags",                       unique |-> FALSE],
    [collection |-> "jobs",     name |-> "jobs_status_createdAt",              unique |-> FALSE],
    [collection |-> "chunks",   name |-> "chunks_recordId_section_seq_embeddingVersion",
                                                                               unique |-> TRUE],
    [collection |-> "articles", name |-> "articles_status_createdAt",          unique |-> FALSE],
    [collection |-> "articles", name |-> "articles_kind_status",               unique |-> FALSE],
    [collection |-> "articles", name |-> "articles_slug",                      unique |-> TRUE] >>

Plans == <<"vec_idx", "text_idx">>
IsVector(plan) == plan = "vec_idx"
PlanCollection == "chunks"

\* substitute, and the file as it is.
Definition(plan, release) ==
    IF IsVector(plan) THEN [numDimensions |-> release.dim, similarity |-> release.edition]
                      ELSE [analyzer |-> release.edition]

\* readEmbeddingDim, and the check of buildSearchIndexPlans.
Buildable(release) == release.dim > 0 /\ release.placed

Absent == [status |-> "absent", queryable |-> FALSE, latest |-> << >>]

\* What a server says of an index that was created with this definition.
Reported(plan, definition) == [x \in DOMAIN definition \cup {"defaults"} |->
    IF x = "defaults" THEN TRUE ELSE definition[x]]

\* readVectorNumDimensions of what there is.
Dimension(found) == IF "numDimensions" \in DOMAIN found.latest THEN found.latest.numDimensions ELSE 0

\* isSubsetOf
IsSubsetOf(expected, actual) ==
    \A x \in DOMAIN expected : x \in DOMAIN actual /\ actual[x] = expected[x]

-----------------------------------------------------------------------------

Idle == [pc |-> "off", release |-> CHOOSE r \in Releases : TRUE, at |-> 1,
         pending |-> FALSE, waited |-> 0, sure |-> TRUE]

\* The cluster may be new, or an older release may have been at it: the same
\* indexes, or one under the name of another, chunks twice, indexes of its own.
BootstrapInit ==
    /\ \E search, duplicates \in BOOLEAN, other \in Clashing \cup {0},
          old \in Releases, present \in BOOLEAN :
          /\ duplicates \/ other # 0 => present
          /\ database = [search |-> search, duplicates |-> duplicates,
                collections |-> IF present THEN {"records", "jobs", "chunks"} ELSE {},
                btree |-> [i \in 1 .. Len(DB_INDEX_SPECS) |-> IF i = other THEN "other" ELSE "absent"],
                index |-> [p \in Range(Plans) |->
                    IF present /\ search /\ Buildable(old) THEN
                        [status |-> "READY", queryable |-> TRUE,
                         latest |-> Reported(p, Definition(p, old))]
                    ELSE Absent]]
    /\ init = [r \in Runs |-> Idle]
    /\ drops = 0

Moves(r, pc) == init' = [init EXCEPT ![r].pc = pc]
Begins(r, pc) == init' = [init EXCEPT ![r].pc = pc, ![r].at = 1]

\* compose up starts the container, or somebody runs `pnpm db:search-indexes`.
StartInit(r) ==
    /\ init[r].pc = "off"
    /\ \E release \in Releases :
          init' = [init EXCEPT ![r] = [Idle EXCEPT !.release = release,
                                        !.pc = IF release.both THEN "connecting" ELSE "reading"]]
    /\ UNCHANGED <<database, drops>>

\* getDb of either tool: the settings, the URI, the server and a ping.  What
\* the exit code is, is the tool's.
Connect(r) ==
    /\ init[r].pc \in {"connecting", "reconnecting"}
    /\ \/ Begins(r, IF init[r].pc = "connecting" THEN "btree" ELSE "listing")
       \/ Moves(r, "exit78")
       \/ Moves(r, "exit69")
    /\ UNCHANGED <<database, drops>>

\* createIndex creates the collection with the index.  It does nothing when the
\* index is there, fails on another under its name, and on a unique one over
\* documents that are not.
EnsureIndex(r) ==
    LET i == init[r].at  spec == DB_INDEX_SPECS[i]
    IN  /\ init[r].pc = "btree"
        /\ IF \/ database.btree[i] = "other"
              \/ database.btree[i] = "absent" /\ spec.name = DB_INDEX_SPECS[4].name
                                              /\ database.duplicates
           THEN Moves(r, "exit1") /\ UNCHANGED database
           ELSE /\ database' = [database EXCEPT !.btree[i] = "own",
                                                !.collections = @ \cup {spec.collection}]
                /\ IF i < Len(DB_INDEX_SPECS) THEN init' = [init EXCEPT ![r].at = i + 1]
                                              ELSE Begins(r, "reading")
        /\ UNCHANGED drops

\* The second tool reads what it needs before it asks for a connection.
ReadPlans(r) ==
    /\ init[r].pc = "reading"
    /\ Moves(r, IF Buildable(init[r].release) THEN "reconnecting" ELSE "exit78")
    /\ UNCHANGED <<database, drops>>

\* ensureCollection
ListCollections(r) ==
    /\ init[r].pc = "listing"
    /\ Moves(r, IF PlanCollection \in database.collections THEN "finding" ELSE "collecting")
    /\ UNCHANGED <<database, drops>>

\* Another run may have been faster: NamespaceExists is as good.
CreateCollection(r) ==
    /\ init[r].pc = "collecting"
    /\ database' = [database EXCEPT !.collections = @ \cup {PlanCollection}]
    /\ Moves(r, "finding")
    /\ UNCHANGED drops

Plan(r) == Plans[init[r].at]
Wanted(r) == Definition(Plan(r), init[r].release)

\* On to the next plan, or to the wait.
PlanDone(r) == IF init[r].at < Len(Plans)
               THEN init' = [init EXCEPT ![r].pc = "listing", ![r].at = @ + 1]
               ELSE Begins(r, "polling")

\* Mutant: what is there is taken for what is wanted when its dimension is.
Verdict_DimensionOnly(r, found) ==
    IF IsVector(Plan(r)) /\ Dimension(found) # init[r].release.dim THEN "exit78" ELSE "keep"

\* assertDimMatches, then assertDefinitionMatches.
Verdict(r, found) ==
    IF IsVector(Plan(r)) /\ Dimension(found) # init[r].release.dim THEN "exit78"
    ELSE IF ~IsSubsetOf(Wanted(r), found.latest) THEN "exit1" ELSE "keep"

\* findExisting; a server without search answers with an error.
FindExisting(r) ==
    /\ init[r].pc = "finding"
    /\ LET found == database.index[Plan(r)]
       IN  IF ~database.search THEN Moves(r, "exit1")
           ELSE IF found = Absent THEN Moves(r, "creating")
           ELSE IF Verdict(r, found) = "keep" THEN PlanDone(r)
           ELSE Moves(r, Verdict(r, found))
    /\ UNCHANGED <<database, drops>>

Created(r) == [status |-> "PENDING", queryable |-> FALSE, latest |-> Reported(Plan(r), Wanted(r))]

\* createSearchIndex; IndexAlreadyExists ends the run.
CreateSearchIndex(r) ==
    /\ init[r].pc = "creating"
    /\ IF database.index[Plan(r)] = Absent
       THEN PlanDone(r) /\ database' = [database EXCEPT !.index[Plan(r)] = Created(r)]
       ELSE Moves(r, "exit1") /\ UNCHANGED database
    /\ UNCHANGED drops

\* What a poll says of one index: waitForSearchIndexesReady does not look at
\* definitions.
PollIndex(r) ==
    /\ init[r].pc = "polling"
    /\ init[r].at <= Len(Plans)
    /\ LET found == database.index[Plan(r)]
       IN  IF found.status = "FAILED" THEN Moves(r, "exit1")
           ELSE init' = [init EXCEPT ![r].at = @ + 1,
                                     ![r].pending = @ \/ found.status # "READY" \/ ~found.queryable]
    /\ UNCHANGED <<database, drops>>

\* Mutant: asks for ever.
EndRound_Untimed(r) ==
    /\ init[r].pc = "polling"
    /\ init[r].at > Len(Plans)
    /\ Moves(r, IF ~init[r].pending THEN "exit0" ELSE "sleeping")
    /\ UNCHANGED <<database, drops>>

\* After a round of polls: ready, out of time, or another round.
EndRound(r) ==
    /\ init[r].pc = "polling"
    /\ init[r].at > Len(Plans)
    /\ Moves(r, IF ~init[r].pending THEN "exit0"
                ELSE IF init[r].waited >= ReadyTimeout THEN "exit1" ELSE "sleeping")
    /\ UNCHANGED <<database, drops>>

Sleep(r) ==
    /\ init[r].pc = "sleeping"
    /\ init' = [init EXCEPT ![r].pc = "polling", ![r].at = 1, ![r].pending = FALSE,
                            ![r].waited = IF @ < ReadyTimeout THEN @ + 1 ELSE @]
    /\ UNCHANGED <<database, drops>>

Exits == {"exit0", "exit1", "exit69", "exit78"}

\* A call to the database fails, or the container is killed.
CrashInit(r) ==
    /\ init[r].pc \notin {"off"} \cup Exits
    /\ Moves(r, "exit1")
    /\ UNCHANGED <<database, drops>>

\* mongot builds an index, gives up on it, or lets it be queried.
BuildIndex(p) ==
    /\ \/ /\ database.index[p].status = "PENDING"
          /\ \E s \in {"READY", "FAILED"} : database' = [database EXCEPT !.index[p].status = s]
       \/ /\ database.index[p].status = "READY" /\ ~database.index[p].queryable
          /\ database' = [database EXCEPT !.index[p].queryable = TRUE]
    /\ UNCHANGED <<init, drops>>

\* What DEFINITION_DRIFT tells the operator to do.
DropIndex(p) ==
    /\ drops < MaxDrops
    /\ database.index[p] # Absent
    /\ database' = [database EXCEPT !.index[p] = Absent]
    /\ init' = [r \in Runs |-> [init[r] EXCEPT !.sure = init[r].pc = "off"]]
    /\ drops' = drops + 1

InitStep(r) ==
    \/ Connect(r) \/ EnsureIndex(r) \/ ReadPlans(r) \/ ListCollections(r) \/ CreateCollection(r)
    \/ FindExisting(r) \/ CreateSearchIndex(r) \/ PollIndex(r) \/ EndRound(r) \/ Sleep(r)

BootstrapNext ==
    \/ \E r \in Runs : StartInit(r) \/ InitStep(r) \/ CrashInit(r)
    \/ \E p \in Range(Plans) : BuildIndex(p) \/ DropIndex(p)

BootstrapSpec == BootstrapInit /\ [][BootstrapNext]_bootstrapVars

-----------------------------------------------------------------------------
(* Properties.                                                             *)

\* docker-compose.yml: core-api and worker start when db-init has exited with
\* 0.  The unique index that ingesting relies on is there then, and both search
\* indexes answer queries and are those of that release, whichever other runs
\* were at it, unless somebody dropped one meanwhile.
SuccessIsVerified ==
    \A r \in Runs : init[r].pc = "exit0" =>
        /\ init[r].release.both => \A i \in 1 .. Len(DB_INDEX_SPECS) : database.btree[i] = "own"
        /\ init[r].sure => \A p \in Range(Plans) :
              /\ database.index[p].queryable
              /\ IsSubsetOf(Definition(p, init[r].release), database.index[p].latest)

\* A db-init that was started ends, though an index is never built.
EveryBootstrapEnds ==
    \A r \in Runs : init[r].pc \notin {"off"} \cup Exits ~> init[r].pc \in Exits
=============================================================================
