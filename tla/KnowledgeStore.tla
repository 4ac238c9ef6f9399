--------------------------- MODULE KnowledgeStore ---------------------------
(***************************************************************************)
(* Records, their chunks and the jobs between them: the handlers of        *)
(* POST /v1/records and PATCH /v1/records/:id (packages/api/src/records.ts)*)
(* write a record, insert an embed job and repair the chunks, one MongoDB  *)
(* call at a time; workers (EmbedQueue) turn the record of a job into      *)
(* chunks (packages/worker/src/ingest.ts).  There are no transactions.     *)
(*                                                                         *)
(* Texts are content ids: every request that changes something brings a    *)
(* new one.  The text of a chunk is the id of the body it was cut from,    *)
(* and ChunkCount says into how many chunks a body is cut.                 *)
(***************************************************************************)
EXTENDS EmbedQueue, FiniteSets

CONSTANTS
    Records,      \* record identities
    Handlers,     \* requests in flight at once
    Patches,      \* the PATCH bodies clients send
    MaxEdits,     \* bound: writing requests
    MaxSeq,       \* bound: chunks per record
    ChunkCount,   \* ChunkCount[body]: number of chunks of that body
    Flags,        \* sanitize flags
    Generation,   \* Generation[w]: EMBEDDING_VERSION of worker w
    ApiMayDie     \* may a request end between two of its writes?

Contents == 1 .. MaxEdits
Generations == {Generation[w] : w \in Workers}
Seqs == 1 .. MaxSeq

AllPatches == [body : BOOLEAN, tags : BOOLEAN,
               status : {"keep", "draft", "published"}, flags : SUBSET Flags]

ASSUME StoreAssumption ==
    /\ MaxEdits \in Nat
    /\ MaxSeq \in Nat
    /\ ChunkCount \in [Contents -> 0 .. MaxSeq]
    /\ Generation \in [Workers -> Nat \ {0}]
    /\ Patches \subseteq AllPatches
    /\ ApiMayDie \in BOOLEAN
    /\ Records # {}

VARIABLES
    records,   \* records[r] = [status, body, tags, flags, watermark]
    chunks,    \* chunks[r][g][s] = [text, tags, flags]; text 0: no such chunk
    target,    \* target[j]: recordId of job j
    ingest,    \* ingest[w]: how far worker w is with the record of its job
    req,       \* req[h]: how far request h is
    edits,     \* content ids handed out
    unqueued   \* history: records whose last job a request died before inserting

storeVars == <<records, chunks, target, ingest, req, edits, unqueued>>
allVars == <<vars, storeVars>>

NoChunk == [text |-> 0, tags |-> 0, flags |-> {}]
NoRecord == [status |-> "none", body |-> 0, tags |-> 0, flags |-> {},
             watermark |-> 0]
NoPatch == [body |-> FALSE, tags |-> FALSE, status |-> "keep", flags |-> {}]
NotLoaded == [step |-> "load", body |-> 0, tags |-> 0, flags |-> {}, seq |-> 1]
NoRequest == [pc |-> "idle", rec |-> CHOOSE r \in Records : TRUE,
              patch |-> NoPatch, content |-> 0, was |-> "none",
              wasFlags |-> {}, tags |-> 0, flags |-> {}, todo |-> {}]

StoreTypeOK ==
    /\ TypeOK
    /\ records \in [Records -> [status : {"none", "draft", "published"},
                                body : 0 .. MaxEdits, tags : 0 .. MaxEdits,
                                flags : SUBSET Flags,
                                watermark : {0} \cup Generations]]
    /\ chunks \in [Records -> [Generations -> [Seqs ->
                      [text : 0 .. MaxEdits, tags : 0 .. MaxEdits,
                       flags : SUBSET Flags]]]]
    /\ target \in [JobIds -> Records]
    /\ ingest \in [Workers ->
                      [step : {"load", "embed", "upsert", "orphans", "raise"},
                       body : 0 .. MaxEdits, tags : 0 .. MaxEdits,
                       flags : SUBSET Flags, seq : 1 .. MaxSeq + 1]]
    /\ req \in [Handlers ->
                   [pc : {"idle", "writing", "following"}, rec : Records,
                    patch : AllPatches, content : 0 .. MaxEdits,
                    was : {"none", "draft", "published"},
                    wasFlags : SUBSET Flags, tags : 0 .. MaxEdits,
                    flags : SUBSET Flags,
                    todo : SUBSET {"enqueue", "sync", "purge"}]]
    /\ edits \in 0 .. MaxEdits
    /\ unqueued \subseteq Records

StoreInit ==
    /\ Init
    /\ records = [r \in Records |-> NoRecord]
    /\ chunks = [r \in Records |-> [g \in Generations |-> [s \in Seqs |-> NoChunk]]]
    /\ target = [j \in JobIds |-> CHOOSE r \in Records : TRUE]
    /\ ingest = [w \in Workers |-> NotLoaded]
    /\ req = [h \in Handlers |-> NoRequest]
    /\ edits = 0
    /\ unqueued = {}

-----------------------------------------------------------------------------
(* The API.                                                                *)

FreshContent == edits < MaxEdits /\ edits' = edits + 1

\* POST: insertOne, then (when published) enqueueEmbedJob.
CreateRecord(h, r, s) ==
    /\ req[h].pc = "idle"
    /\ records[r].status = "none"
    /\ FreshContent
    /\ records' = [records EXCEPT ![r] = [status |-> s, body |-> edits',
                      tags |-> edits', flags |-> {}, watermark |-> 0]]
    /\ req' = [req EXCEPT ![h] = IF s = "published"
                  THEN [NoRequest EXCEPT !.pc = "following", !.rec = r,
                                         !.todo = {"enqueue"}]
                  ELSE NoRequest]
    /\ UNCHANGED <<vars, chunks, target, ingest, unqueued>>

\* PATCH reads the record; everything it decides later rests on this read.
ReadExisting(h, r, p) ==
    /\ req[h].pc = "idle"
    /\ records[r].status # "none"
    /\ FreshContent
    /\ req' = [req EXCEPT ![h] = [NoRequest EXCEPT !.pc = "writing",
                  !.rec = r, !.patch = p, !.content = edits',
                  !.was = records[r].status, !.wasFlags = records[r].flags]]
    /\ UNCHANGED <<vars, records, chunks, target, ingest, unqueued>>

\* The partial $set; the union of flags starts from the flags that were read.
Patched(h) ==
    LET q == req[h] p == q.patch old == records[q.rec]
    IN  [status |-> IF p.status = "keep" THEN old.status ELSE p.status,
         body |-> IF p.body THEN q.content ELSE old.body,
         tags |-> IF p.tags THEN q.content ELSE old.tags,
         flags |-> IF p.flags = {} THEN old.flags ELSE q.wasFlags \cup p.flags,
         watermark |-> old.watermark]

\* Mutant: only the transition to published is embedded.
FollowUps_OnTransition(h, new) ==
    LET p == req[h].patch was == req[h].was
    IN  {f \in {"enqueue", "sync", "purge"} :
            \/ f = "enqueue" /\ new.status = "published" /\ was # "published"
            \/ f = "sync" /\ (p.tags \/ p.flags # {})
            \/ f = "purge" /\ was = "published" /\ new.status # "published"}

\* What is left to do once the record is written: embed again, copy the
\* metadata to the chunks, delete the chunks.
FollowUps(h, new) ==
    LET p == req[h].patch was == req[h].was
    IN  {f \in {"enqueue", "sync", "purge"} :
            \/ /\ f = "enqueue" /\ new.status = "published"
               /\ p.body \/ was # "published"
            \/ f = "sync" /\ (p.tags \/ p.flags # {})
            \/ f = "purge" /\ was = "published" /\ new.status # "published"}

\* findOneAndUpdate; records are never deleted, so it finds the document.
WritePatch(h) ==
    LET r == req[h].rec
        todo == FollowUps(h, Patched(h))
    IN  /\ req[h].pc = "writing"
        /\ records' = [records EXCEPT ![r] = Patched(h)]
        /\ req' = [req EXCEPT ![h] = IF todo = {} THEN NoRequest ELSE
                      [@ EXCEPT !.pc = "following", !.todo = todo,
                                !.tags = records'[r].tags,
                                !.flags = records'[r].flags]]
        /\ UNCHANGED <<vars, chunks, target, ingest, edits, unqueued>>

\* The follow-ups run in this order, each after the one before it returned.
Following(h, f) ==
    /\ req[h].pc = "following"
    /\ f \in req[h].todo
    /\ f = "sync" => "enqueue" \notin req[h].todo
    /\ f = "purge" => req[h].todo = {"purge"}
    /\ req' = [req EXCEPT ![h] = IF @.todo = {f} THEN NoRequest
                                 ELSE [@ EXCEPT !.todo = req[h].todo \ {f}]]

\* Mutant: no second job while one of the record is queued or running.
EnqueueEmbedJob_SkipsQueued(h) ==
    /\ Following(h, "enqueue")
    /\ \E j \in JobIds :
          IF \E i \in JobIds : /\ target[i] = req[h].rec
                               /\ jobs[i].status \in {"pending", "running"}
          THEN UNCHANGED <<vars, target>>
          ELSE Enqueue(j) /\ target' = [target EXCEPT ![j] = req[h].rec]
    /\ unqueued' = unqueued \ {req[h].rec}
    /\ UNCHANGED <<records, chunks, ingest, edits>>

EnqueueEmbedJob(h) ==
    /\ Following(h, "enqueue")
    /\ \E j \in JobIds : /\ Enqueue(j)
                         /\ target' = [target EXCEPT ![j] = req[h].rec]
    /\ unqueued' = unqueued \ {req[h].rec}
    /\ UNCHANGED <<records, chunks, ingest, edits>>

\* chunks.updateMany with the metadata findOneAndUpdate returned.
SyncChunkMeta(h) ==
    /\ Following(h, "sync")
    /\ chunks' = [chunks EXCEPT ![req[h].rec] =
          [g \in Generations |-> [s \in Seqs |->
              IF @[g][s] = NoChunk THEN NoChunk
              ELSE [@[g][s] EXCEPT !.tags = req[h].tags,
                                   !.flags = req[h].flags]]]]
    /\ UNCHANGED <<vars, records, target, ingest, edits, unqueued>>

\* chunks.deleteMany, when the record is published no longer.
PurgeChunks(h) ==
    /\ Following(h, "purge")
    /\ chunks' = [chunks EXCEPT ![req[h].rec] =
                     [g \in Generations |-> [s \in Seqs |-> NoChunk]]]
    /\ UNCHANGED <<vars, records, target, ingest, edits, unqueued>>

\* A call fails or the process dies: the remaining steps never happen.
RequestDies(h) ==
    /\ ApiMayDie
    /\ req[h].pc # "idle"
    /\ req' = [req EXCEPT ![h] = NoRequest]
    /\ unqueued' = IF "enqueue" \in req[h].todo THEN unqueued \cup {req[h].rec} ELSE unqueued
    /\ UNCHANGED <<vars, records, chunks, target, ingest, edits>>

Request(h) == WritePatch(h) \/ EnqueueEmbedJob(h) \/ SyncChunkMeta(h) \/ PurgeChunks(h)

-----------------------------------------------------------------------------
(* ingestRecord.                                                           *)

AtStep(w, step) == workers[w].pc = "ingesting" /\ ingest[w].step = step

RecordOf(w) == target[workers[w].job]

\* loadRecord: whatever the status of the record.
LoadRecord(w) ==
    LET rec == records[RecordOf(w)]
    IN  /\ AtStep(w, "load")
        /\ ingest' = [ingest EXCEPT ![w] = [step |-> "embed", body |-> rec.body,
                         tags |-> rec.tags, flags |-> rec.flags, seq |-> 1]]
        /\ UNCHANGED <<vars, records, chunks, target, req, edits, unqueued>>

\* The embedding provider answers; a record without text is not sent to it.
Embed(w) ==
    /\ AtStep(w, "embed")
    /\ ingest' = [ingest EXCEPT ![w].step =
                     IF ChunkCount[ingest[w].body] = 0 THEN "orphans" ELSE "upsert"]
    /\ UNCHANGED <<vars, records, chunks, target, req, edits, unqueued>>

UpsertedChunk(w) == [text |-> ingest[w].body, tags |-> ingest[w].tags,
                     flags |-> ingest[w].flags]

\* One update of the ordered bulkWrite, keyed by record, seq and generation.
UpsertChunk(w) ==
    LET s == ingest[w].seq
        g == Generation[w]
    IN  /\ AtStep(w, "upsert")
        /\ chunks' = [chunks EXCEPT ![RecordOf(w)][g][s] = UpsertedChunk(w)]
        /\ ingest' = [ingest EXCEPT ![w].seq = s + 1,
                         ![w].step = IF s = ChunkCount[ingest[w].body]
                                     THEN "orphans" ELSE "upsert"]
        /\ UNCHANGED <<vars, records, target, req, edits, unqueued>>

\* Mutant: chunks of every generation are taken for orphans.
Orphans_AnyGeneration(w) ==
    {place \in Generations \X Seqs :
        place[1] # Generation[w] \/ place[2] > ChunkCount[ingest[w].body]}

\* Mutant: orphans are not looked for.
Orphans_None(w) == {}

Orphans(w) == {place \in Generations \X Seqs :
                  place[1] = Generation[w] /\ place[2] > ChunkCount[ingest[w].body]}

DeleteOrphans(w) ==
    /\ AtStep(w, "orphans")
    /\ chunks' = [chunks EXCEPT ![RecordOf(w)] =
          [g \in Generations |-> [s \in Seqs |->
              IF <<g, s>> \in Orphans(w) THEN NoChunk ELSE @[g][s]]]]
    /\ ingest' = [ingest EXCEPT ![w].step = "raise"]
    /\ UNCHANGED <<vars, records, target, req, edits, unqueued>>

\* Mutant: $set instead of $max.
Raised_Set(w, watermark) == Generation[w]

\* Mutant: the watermark counts embeddings.
Raised_Counted(w, watermark) == watermark + 1

Raised(w, watermark) ==
    IF watermark < Generation[w] THEN Generation[w] ELSE watermark

RaiseWatermark(w) ==
    /\ AtStep(w, "raise")
    /\ IngestSucceeds(w)
    /\ records' = [records EXCEPT ![RecordOf(w)].watermark = Raised(w, @)]
    /\ ingest' = [ingest EXCEPT ![w] = NotLoaded]
    /\ UNCHANGED <<chunks, target, req, edits, unqueued>>

\* A step of the pipeline throws.  Bad data and refused requests are found
\* before the first chunk is written; database failures at any step.
IngestThrows(w, permanent) ==
    /\ permanent => ingest[w].step \in {"load", "embed"}
    /\ IngestFails(w, permanent)
    /\ ingest' = [ingest EXCEPT ![w] = NotLoaded]
    /\ UNCHANGED <<records, chunks, target, req, edits, unqueued>>

Ingest(w) == \/ LoadRecord(w) \/ Embed(w) \/ UpsertChunk(w)
             \/ DeleteOrphans(w) \/ RaiseWatermark(w)
             \/ \E permanent \in BOOLEAN : IngestThrows(w, permanent)

-----------------------------------------------------------------------------
(* The queue seen from here.                                               *)

QueueStep(w) ==
    /\ Claim(w) \/ CompleteJob(w) \/ CompleteThrows(w) \/ FailJob(w)
          \/ FailThrows(w) \/ Restart(w)
    /\ UNCHANGED storeVars

WorkerCrash(w) ==
    /\ Crash(w)
    /\ ingest' = [ingest EXCEPT ![w] = NotLoaded]
    /\ UNCHANGED <<records, chunks, target, req, edits, unqueued>>

OperatorRequeues(j) == Requeue(j) /\ UNCHANGED storeVars

TimePasses == Tick /\ UNCHANGED storeVars

Serve(h) ==
    \/ \E r \in Records :
          \/ \E s \in {"draft", "published"} : CreateRecord(h, r, s)
          \/ \E p \in Patches : ReadExisting(h, r, p)
    \/ Request(h)

Api == \E h \in Handlers : Serve(h) \/ RequestDies(h)

WorkerStep(w) == Ingest(w) \/ QueueStep(w) \/ WorkerCrash(w)

StoreNext ==
    \/ Api
    \/ \E w \in Workers : WorkerStep(w)
    \/ \E j \in JobIds : OperatorRequeues(j)
    \/ TimePasses

StoreSpec == StoreInit /\ [][StoreNext]_allVars

\* Requests that do not die run to their end, workers as in EmbedQueue.
StoreFairness ==
    /\ WF_allVars(TimePasses)
    /\ \A h \in Handlers : WF_allVars(Request(h))
    /\ \A w \in Workers :
          /\ WF_allVars(Ingest(w))
          /\ WF_allVars((NothingDue(w) \/ CompleteJob(w) \/ FailJob(w) \/ Restart(w))
                        /\ UNCHANGED storeVars)
          /\ SF_allVars(NoneExpired(w) /\ UNCHANGED storeVars)
          /\ SF_allVars((\E j \in JobIds : ReclaimExpired(w, j) \/ ClaimPending(w, j))
                        /\ UNCHANGED storeVars)

FairStoreSpec == StoreSpec /\ StoreFairness

-----------------------------------------------------------------------------
(* Properties.                                                             *)

\* Nothing is on its way: no request, no queued job, no job in hand.
Quiescent ==
    /\ \A h \in Handlers : req[h].pc = "idle"
    /\ \A j \in JobIds : jobs[j].status \notin {"pending", "running"}
    /\ \A w \in Workers : ~Holding(w)

\* A job of r has come to rest without having embedded it, or was never
\* inserted, because a request died in between, and none was since.
GivenUp(r) ==
    \/ \E j \in JobIds : target[j] = r /\ jobs[j].status \in {"failed", "dead"}
    \/ r \in unqueued

\* Generation g of r holds the chunks of its present body and no others.
Indexed(r, g) ==
    records[r].status # "none" /\ \A s \in Seqs : chunks[r][g][s].text =
        IF s <= ChunkCount[records[r].body] THEN records[r].body ELSE 0

\* ingest.ts: once everything has come to rest, a published record is found by
\* its present text and by nothing it used to say, and its watermark says so.
\* Crashes, retries and lease recoveries of the worker do not matter.
PublishedIsIndexed ==
    Quiescent => \A r \in Records :
        records[r].status = "published" /\ ~GivenUp(r) =>
            \A g \in Generations : Indexed(r, g) /\ records[r].watermark = g

\* The same as progress: an edit of a published record reaches the index,
\* unless the record is edited again, unpublished, or its job given up.
EditsReachIndex ==
    \A r \in Records : \A b \in Contents : \A g \in Generations :
        (records[r].status = "published" /\ records[r].body = b) ~>
            \/ Indexed(r, g)
            \/ records[r].status # "published"
            \/ records[r].body # b
            \/ GivenUp(r)

\* ingest.ts:139-148: the watermark never goes back, whichever generations
\* of workers run side by side and whatever PATCH writes meanwhile.
WatermarkNeverDrops ==
    [][\A r \in Records : records'[r].watermark >= records[r].watermark]_allVars

\* ingest.ts:109-111: once a generation holds the whole present text of a
\* record, no worker takes it out of service while embedding the record again.
GenerationsStayServed ==
    [][\A r \in Records : \A g \in Generations :
          Indexed(r, g) /\ (\E w \in Workers : Ingest(w)) => Indexed(r, g)']_allVars

\* ingest.ts:105-107 says that no chunk of an earlier text stays searchable.
\* Two workers of one generation on two jobs of one record break it.
OldTextIsGone ==
    Quiescent => \A r \in Records : records[r].status = "published" /\ ~GivenUp(r) =>
        \A g \in Generations, s \in Seqs : chunks[r][g][s].text \in {0, records[r].body}

\* records.ts:525 says that a record taken back to draft is no longer found.
UnpublishedIsNotFound ==
    Quiescent => \A r \in Records : records[r].status = "draft" =>
        \A g \in Generations, s \in Seqs : chunks[r][g][s] = NoChunk

=============================================================================
