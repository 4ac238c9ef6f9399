------------------------------- MODULE Seeding -------------------------------
(***************************************************************************)
(* pnpm db:seed (scripts/seed.ts and seed.cli.ts): the seed files are      *)
(* brought into the records through the API, a record for each title.  A   *)
(* plain run skips titles that are there; --reset patches the records that *)
(* are the seeds' own, which a manifest beside the records remembers.  A run *)
(* may die anywhere, and people work on the records meanwhile.             *)
(*                                                                         *)
(* Only the project that is seeded is modelled, and one run at a time.     *)
(***************************************************************************)
EXTENDS Integers, Sequences, FiniteSets

CONSTANTS
    Files,          \* sequence of [title, type]: the seed files, sorted
    Rewritten,      \* titles the sanitizer changes on the way in
    Others,         \* titles no file has
    SeedSetups,     \* what a run may be started with: [argv, claimed, provider,
                    \* folder, database]
    RecordIds,      \* bound: records ever made
    MaxSeedRuns,    \* bound: runs
    MaxHandEdits    \* bound: records made, renamed or deleted by people

SeedTitles == {Files[i].title : i \in 1 .. Len(Files)}
Types == {"incident", "divergence"}

ASSUME SeedingAssumption ==
    /\ Files \in Seq([title : SeedTitles, type : Types])
    /\ RecordIds \subseteq Nat \ {0}
    /\ \A i, j \in 1 .. Len(Files) : Files[i].title = Files[j].title => i = j
    /\ Others \cap SeedTitles = {}
    /\ {MaxSeedRuns, MaxHandEdits} \subseteq Nat

VARIABLES
    rows,       \* records by id: [title, type, for, moved, job], or NoRow; "for" is
                \* the title of the file it was made for, or "people"; it has moved
                \* if somebody renamed it
    manifest,   \* seedManifest: the record of a title, or 0
    seeding,    \* [pc, reset, at, existing, claims, targets, id, failed, exit]
    counts      \* [runs, edits]

seedingVars == <<rows, manifest, seeding, counts>>

NoRow == [for |-> "none"]
Deleted == [for |-> "nobody"]       \* its id is not used again
Rows == {i \in RecordIds : rows[i] \notin {NoRow, Deleted}}
Unused == {i \in RecordIds : rows[i] = NoRow}
NotSeeding == [pc |-> "off", reset |-> FALSE, at |-> 1, existing |-> {}, claims |-> {},
               targets |-> [t \in SeedTitles |-> 0], id |-> 0, failed |-> FALSE, exit |-> 0]

SeedingInit ==
    /\ rows = [i \in RecordIds |-> NoRow]
    /\ manifest = [t \in SeedTitles |-> 0]
    /\ seeding = NotSeeding
    /\ counts = [runs |-> 0, edits |-> 0]

File == Files[seeding.at]
Seeds(pc) == seeding' = [seeding EXCEPT !.pc = pc]
\* EX_CONFIG, EX_UNAVAILABLE of sysexits.h
ExitConfigError == 78
ExitUnavailable == 69
ExitFailure == 1
SeedFails == seeding' = [seeding EXCEPT !.pc = "failed", !.exit = ExitFailure]

\* The sanitizer's title for it.
StoredTitle(title) == IF title \in Rewritten THEN "masked" ELSE title

\* findSeedTitles
FindSeedTitles == SeedTitles \cap {rows[i].title : i \in Rows}

-----------------------------------------------------------------------------
(* A run                                                                   *)

\* parseSeedArgs: an argument nobody knows ends the run.
ParseSeedArgs(argv) == [wrong |-> ~(argv \subseteq {"--reset", "--allow-fake-embeddings"}),
                        reset |-> "--reset" \in argv,
                        allowFake |-> "--allow-fake-embeddings" \in argv]

\* resolveSeedApiKey: a key that is the project's own; any other would put the
\* records into another project.
ResolveSeedApiKey(claimed) == "seeded" \in claimed

\* loadSeedRecords: all files must be records, with titles of their own.
LoadSeedRecords(folder) == folder = "fine"

\* The order in which main reads what it needs, and with which code it ends.
Refusal(args, setup) ==
    IF \/ args.wrong \/ ~ResolveSeedApiKey(setup.claimed) \/ setup.provider = "unknown"
       \/ setup.provider = "fake" /\ ~args.allowFake
    THEN ExitConfigError
    ELSE IF ~LoadSeedRecords(setup.folder) THEN ExitFailure
    ELSE IF setup.database = "unreachable" THEN ExitUnavailable
    ELSE IF setup.database = "unset" THEN ExitConfigError
    ELSE 0

\* main, up to runSeed.
StartSeed ==
    /\ seeding.pc \in {"off", "done", "failed"}
    /\ counts.runs < MaxSeedRuns
    /\ \E setup \in SeedSetups :
          LET args == ParseSeedArgs(setup.argv)
              exit == Refusal(args, setup)
          IN  seeding' = [NotSeeding EXCEPT !.reset = args.reset, !.exit = exit,
                 !.pc = IF exit # 0 THEN "failed"
                        ELSE IF args.reset THEN "claiming" ELSE "looking"]
    /\ counts' = [counts EXCEPT !.runs = @ + 1]
    /\ UNCHANGED <<rows, manifest>>

\* A plain run asks which titles are there.
LookForTitles ==
    /\ seeding.pc = "looking"
    /\ seeding' = [seeding EXCEPT !.pc = "loading", !.existing = FindSeedTitles]
    /\ UNCHANGED <<rows, manifest, counts>>

\* resolveSeedTargets reads the manifest ...
ReadManifest ==
    /\ seeding.pc = "claiming"
    /\ seeding' = [seeding EXCEPT !.pc = "claimed",
                                  !.claims = {t \in SeedTitles : manifest[t] # 0}]
    /\ UNCHANGED <<rows, manifest, counts>>

\* ... then the records it names that are still there.  Of two titles that name
\* one record, one has it.
ReadClaimed ==
    /\ seeding.pc = "claimed"
    /\ \E owner \in [{manifest[t] : t \in seeding.claims} -> SeedTitles] :
          /\ \A i \in DOMAIN owner : manifest[owner[i]] = i
          /\ seeding' = [seeding EXCEPT !.pc = "adopting",
                !.targets = [t \in SeedTitles |->
                    IF t \in seeding.claims /\ manifest[t] \in Rows /\ owner[manifest[t]] = t
                    THEN manifest[t] ELSE 0]]
    /\ UNCHANGED <<rows, manifest, counts>>

Candidates(title) == {i \in Rows : rows[i].title = title}
Orphans == {t \in SeedTitles : seeding.targets[t] = 0}

\* Mutant: what the manifest does not name is not looked for.
AdoptCandidates_LedgerOnly ==
    /\ seeding.pc = "adopting"
    /\ Seeds("loading")
    /\ UNCHANGED <<rows, manifest, counts>>

\* ... and at last the records with a title nobody claims: one alone is adopted,
\* of several nobody knows which.
AdoptCandidates ==
    /\ seeding.pc = "adopting"
    /\ IF \E t \in Orphans : Cardinality(Candidates(t)) > 1 THEN SeedFails
       ELSE seeding' = [seeding EXCEPT !.pc = "loading",
                !.targets = [t \in SeedTitles |->
                    IF t \in Orphans /\ Candidates(t) # {}
                    THEN CHOOSE i \in Candidates(t) : TRUE ELSE seeding.targets[t]]]
    /\ UNCHANGED <<rows, manifest, counts>>

NextFile == seeding' = [seeding EXCEPT !.pc = "loading", !.at = @ + 1]

\* One file: skipped, or its record patched or made.  A type cannot be patched.
LoadFile ==
    LET target == seeding.targets[File.title] IN
    /\ seeding.pc = "loading"
    /\ IF seeding.at > Len(Files) THEN Seeds("verifying")
       ELSE IF target \in Rows /\ rows[target].type # File.type THEN SeedFails
       ELSE IF target # 0 THEN seeding' = [seeding EXCEPT !.id = target, !.pc = "patching"]
       ELSE IF File.title \in seeding.existing THEN NextFile
       ELSE Seeds("posting")
    /\ UNCHANGED <<rows, manifest, counts>>

\* patchSeedRecord: everything the file says, and a job.  It is a 404 when the
\* record has been deleted meanwhile.
PatchSeedRecord ==
    /\ seeding.pc = "patching"
    /\ IF seeding.id \notin Rows THEN SeedFails /\ UNCHANGED rows
       ELSE /\ rows' = [rows EXCEPT ![seeding.id].title = StoredTitle(File.title),
                                        ![seeding.id].job = TRUE]
            /\ Seeds("remembering")
    /\ UNCHANGED <<manifest, counts>>

\* createSeedRecord, the record, and then its job.
PostSeedRecord ==
    /\ seeding.pc = "posting"
    /\ \E i \in Unused :
          /\ \A j \in Unused : i <= j
          /\ rows' = [rows EXCEPT ![i] =
                [title |-> StoredTitle(File.title), type |-> File.type, for |-> File.title,
                 moved |-> FALSE, job |-> FALSE]]
          /\ seeding' = [seeding EXCEPT !.pc = "enqueueing", !.id = i]
    /\ UNCHANGED <<manifest, counts>>

EnqueueSeedJob ==
    /\ seeding.pc = "enqueueing"
    /\ rows' = IF seeding.id \notin Rows THEN rows
                 ELSE [rows EXCEPT ![seeding.id].job = TRUE]
    /\ Seeds("remembering")
    /\ UNCHANGED <<manifest, counts>>

RememberSeedRecord ==
    /\ seeding.pc = "remembering"
    /\ manifest' = [manifest EXCEPT ![File.title] = seeding.id]
    /\ NextFile
    /\ UNCHANGED <<rows, counts>>

\* A title that cannot be found now would be loaded again the next time.
VerifyTitles ==
    /\ seeding.pc = "verifying"
    /\ IF FindSeedTitles = SeedTitles THEN Seeds("draining") ELSE SeedFails
    /\ UNCHANGED <<rows, manifest, counts>>

\* drainEmbedJobs: a job is embedded, or left to a later try; the run is a
\* failure then.  Its limit, four jobs a file, is out of reach here.
DrainEmbedJobs ==
    /\ seeding.pc = "draining"
    /\ \/ \E i \in Rows, failed \in BOOLEAN :
             /\ rows[i].job
             /\ rows' = [rows EXCEPT ![i].job = FALSE]
             /\ seeding' = [seeding EXCEPT !.failed = @ \/ failed]
       \/ /\ \A i \in Rows : ~rows[i].job
          /\ IF seeding.failed THEN SeedFails ELSE Seeds("done")
          /\ UNCHANGED rows
    /\ UNCHANGED <<manifest, counts>>

\* A call is refused or fails, or somebody stops the run.
CrashSeed ==
    /\ seeding.pc \notin {"off", "done", "failed"}
    /\ SeedFails
    /\ UNCHANGED <<rows, manifest, counts>>

-----------------------------------------------------------------------------
(* People                                                                  *)

ByHand == counts.edits < MaxHandEdits /\ counts' = [counts EXCEPT !.edits = @ + 1]

\* Somebody records a case, perhaps under the title of a seed, of either type.
RecordByHand ==
    /\ ByHand
    /\ \E i \in Unused, title \in SeedTitles \cup Others, type \in Types :
          /\ \A j \in Unused : i <= j
          /\ rows' = [rows EXCEPT ![i] = [title |-> title, type |-> type,
                            for |-> "people", moved |-> FALSE, job |-> TRUE]]
    /\ UNCHANGED <<manifest, seeding>>

RenameByHand ==
    /\ ByHand
    /\ \E i \in Rows, title \in SeedTitles \cup Others :
          rows' = [rows EXCEPT ![i].title = title, ![i].moved = TRUE]
    /\ UNCHANGED <<manifest, seeding>>

\* What SEED_TYPE_CHANGED tells the operator to do.
DeleteByHand ==
    /\ ByHand
    /\ \E i \in Rows : rows' = [rows EXCEPT ![i] = Deleted]
    /\ UNCHANGED <<manifest, seeding>>

SeedRun ==
    \/ LookForTitles \/ ReadManifest \/ ReadClaimed \/ AdoptCandidates \/ LoadFile
    \/ PatchSeedRecord \/ PostSeedRecord \/ EnqueueSeedJob \/ RememberSeedRecord
    \/ VerifyTitles \/ DrainEmbedJobs

SeedingNext == StartSeed \/ SeedRun \/ CrashSeed \/ RecordByHand \/ RenameByHand \/ DeleteByHand

SeedingSpec == SeedingInit /\ [][SeedingNext]_seedingVars

-----------------------------------------------------------------------------
(* Properties.                                                             *)

\* seed.ts, runSeed: however often it is run, plain or with --reset, and wherever
\* it dies, the seeds make one record for a title: a second one only where a
\* person has renamed or deleted the first, or the sanitizer changes the title.
SeedsStayOne ==
    \A i, j \in Rows : i # j /\ rows[i].for = rows[j].for /\ rows[i].for # "people" =>
        rows[i].moved \/ rows[j].moved \/ rows[i].for \in Rewritten
=============================================================================
