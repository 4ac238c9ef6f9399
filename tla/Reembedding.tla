----------------------------- MODULE Reembedding -----------------------------
(***************************************************************************)
(* Raising EMBEDDING_VERSION: the workers are redeployed with the new      *)
(* version and `reembed` (packages/worker/src/reembed.ts) inserts a job    *)
(* for every published record whose watermark is behind.  It reads the     *)
(* records, then the jobs, then writes, and runs beside the API and the    *)
(* workers of KnowledgeStore.                                              *)
(***************************************************************************)
EXTENDS KnowledgeStore

CONSTANTS
    OldVersion, NewVersion,   \* EMBEDDING_VERSION before and after
    MaxRuns                   \* bound: runs of the tool

ASSUME ReembedAssumption ==
    /\ OldVersion < NewVersion
    /\ Generations = {OldVersion, NewVersion}
    /\ MaxRuns \in Nat
    /\ MaxJobs >= MaxEdits + MaxRuns * Cardinality(Records)

VARIABLES
    orderly,    \* the deployment stops the old workers, and no request is cut short
    deployed,   \* the version the present deployment runs
    tool,       \* tool = [pc, stale, todo]: the run of reembed
    runs        \* runs begun

toolVars == <<tool, runs>>
reembedVars == <<allVars, orderly, deployed, tool, runs>>

NoRun == [pc |-> "idle", stale |-> {}, todo |-> {}]

Old == {w \in Workers : Generation[w] = OldVersion}

\* A worker container of this version exists.
Active(w) == \/ Generation[w] = deployed
             \/ Generation[w] < deployed /\ ~orderly

ReembedInit ==
    /\ StoreInit
    /\ orderly \in BOOLEAN
    /\ deployed = IF orderly THEN OldVersion ELSE NewVersion
    /\ tool = NoRun
    /\ runs = 0

\* docker compose up -d with the new version.  Old workers are told to stop
\* and killed after the grace period, or live on when they run elsewhere.
Redeploy ==
    /\ deployed = OldVersion
    /\ deployed' = NewVersion
    /\ workers' = [w \in Workers |->
          IF w \in Old THEN [Idle EXCEPT !.pc = "down"] ELSE workers[w]]
    /\ ingest' = [w \in Workers |-> IF w \in Old THEN NotLoaded ELSE ingest[w]]
    /\ UNCHANGED <<jobs, tries, requeues, records, chunks, target, req, edits, unqueued,
                   orderly, toolVars>>

\* records.find: published and behind.
FindStale ==
    /\ tool.pc = "idle"
    /\ orderly /\ deployed = NewVersion
    /\ runs < MaxRuns
    /\ runs' = runs + 1
    /\ LET stale == {r \in Records : /\ records[r].status = "published"
                                     /\ records[r].watermark < NewVersion}
       IN  tool' = [pc |-> IF stale = {} THEN "finished" ELSE "found",
                    stale |-> stale, todo |-> {}]
    /\ UNCHANGED <<allVars, orderly, deployed>>

\* Mutant: a job that has already come to an end counts as queued.
Queued_AnyJob(r) == \E j \in JobIds : target[j] = r /\ jobs[j].status # "none"

Queued(r) == \E j \in JobIds :
                target[j] = r /\ jobs[j].status \in {"pending", "running"}

\* jobs.find: the records that have a job already are left out.
SkipQueued ==
    /\ tool.pc = "found"
    /\ LET todo == {r \in tool.stale : ~Queued(r)}
       IN  tool' = [pc |-> IF todo = {} THEN "finished" ELSE "inserting",
                    stale |-> {}, todo |-> todo]
    /\ UNCHANGED <<allVars, orderly, deployed, runs>>

\* insertMany, one document.
InsertJob(r) ==
    /\ tool.pc = "inserting"
    /\ r \in tool.todo
    /\ \E j \in JobIds : Enqueue(j) /\ target' = [target EXCEPT ![j] = r]
    /\ tool' = [tool EXCEPT !.todo = @ \ {r},
                            !.pc = IF tool.todo = {r} THEN "finished" ELSE @]
    /\ UNCHANGED <<records, chunks, ingest, req, edits, unqueued, orderly,
                   deployed, runs>>

\* The tool dies and may be run again.
ToolDies ==
    /\ tool.pc \in {"found", "inserting"}
    /\ tool' = NoRun
    /\ UNCHANGED <<allVars, orderly, deployed, runs>>

Tool == FindStale \/ SkipQueued \/ ToolDies \/ \E r \in Records : InsertJob(r)

\* The store goes on meanwhile, with the workers that exist.
StoreStep ==
    /\ \/ \E h \in Handlers : Serve(h)
       \/ ~orderly /\ \E h \in Handlers : RequestDies(h)
       \/ \E w \in Workers : Active(w) /\ WorkerStep(w)
       \/ \E j \in JobIds : OperatorRequeues(j)
       \/ TimePasses
    /\ UNCHANGED <<orderly, deployed, tool, runs>>

ReembedNext == Redeploy \/ Tool \/ StoreStep

ReembedSpec == ReembedInit /\ [][ReembedNext]_reembedVars

-----------------------------------------------------------------------------
(* Properties, besides those of KnowledgeStore.                            *)

\* reembed.ts:4-6: once the tool has finished and the queue is empty, every
\* published record is searchable in the new version; skipping the records
\* that have a job already loses none of them.
ReembedCoversAll ==
    orderly /\ Quiescent /\ tool.pc = "finished" =>
        \A r \in Records : records[r].status = "published" /\ ~GivenUp(r) =>
            Indexed(r, NewVersion) /\ records[r].watermark = NewVersion
=============================================================================
