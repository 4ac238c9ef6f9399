----------------------------- MODULE EmbedQueue -----------------------------
(***************************************************************************)
(* The `jobs` collection as a work queue, and the worker processes that    *)
(* poll it: packages/worker/src/jobs.ts, worker.ts and requeue.ts, and the *)
(* insertion of packages/api/src/embed-jobs.ts.  MongoDB gives atomicity   *)
(* per document only; every step below is one call on one document.        *)
(*                                                                         *)
(* Time is the age of a document (ticks since its updatedAt), capped at    *)
(* Horizon, so that no clock has to be bounded.  What happens while a job  *)
(* is ingested is the business of KnowledgeStore; here an ingest succeeds  *)
(* or fails.                                                               *)
(***************************************************************************)
EXTENDS Integers

CONSTANTS
    MaxJobs,        \* bound: job documents inserted in a behaviour
    Workers,        \* worker processes
    MaxAttempts,    \* EMBED_JOB_MAX_ATTEMPTS
    BackoffBase,    \* EMBED_RETRY_BACKOFF_MS, in ticks
    Lease,          \* EMBED_JOB_LEASE_MS, in ticks
    Horizon,        \* ages at or above it are not told apart
    MaxRequeues,    \* bound: documents an operator requeues
    StallsAllowed,  \* may a live worker outlive its lease?
    RepliesLost     \* may a write be applied and still be reported as failed?

JobIds == 1 .. MaxJobs
NoJob == 0

\* config.ts retryDelayMs: 0 before the first failure, then base * 2^(n-1).
RetryDelay(attempts) ==
    IF attempts <= 0 THEN 0 ELSE BackoffBase * 2 ^ (attempts - 1)

ASSUME QueueAssumption ==
    /\ MaxJobs \in Nat
    /\ MaxAttempts \in Nat \ {0}
    /\ BackoffBase \in Nat
    /\ Lease \in Nat
    /\ Horizon \in Nat /\ Horizon > Lease
    /\ MaxRequeues \in Nat
    /\ StallsAllowed \in BOOLEAN
    /\ RepliesLost \in BOOLEAN
    /\ NoJob \notin JobIds

\* Without this a job could wait for an age the model never reaches.
ASSUME HorizonCoversBackoff ==
    \A a \in 0 .. MaxAttempts - 1 : RetryDelay(a) <= Horizon

VARIABLES
    jobs,      \* jobs[j] = [status, attempts, age]
    workers,   \* workers[w] = [pc, job, attempts, held, permanent]
    tries,     \* history: ingests begun on j since it was last (re)queued,
               \* counted up to MaxAttempts + 1
    requeues   \* documents requeued so far

vars == <<jobs, workers, tries, requeues>>

Statuses == {"none", "pending", "running", "done", "failed", "dead"}

\* Where a worker is: looking for expired leases, looking for pending jobs
\* after finding none, ingesting, about to write the outcome, or down.
Phases == {"polling", "scanned", "ingesting", "completing", "failing", "down"}

Idle == [pc |-> "polling", job |-> NoJob, attempts |-> 0, held |-> 0,
         permanent |-> FALSE]

Holding(w) == workers[w].pc \in {"ingesting", "completing", "failing"}

Older(age) == IF age < Horizon THEN age + 1 ELSE age

TypeOK ==
    /\ jobs \in [JobIds -> [status : Statuses, attempts : Nat,
                            age : 0 .. Horizon]]
    /\ workers \in [Workers -> [pc : Phases, job : JobIds \cup {NoJob},
                                attempts : Nat, held : 0 .. Horizon,
                                permanent : BOOLEAN]]
    /\ tries \in [JobIds -> 0 .. MaxAttempts + 1]
    /\ requeues \in 0 .. MaxRequeues
    /\ \A w \in Workers : Holding(w) => workers[w].job \in JobIds

Init ==
    /\ jobs = [j \in JobIds |-> [status |-> "none", attempts |-> 0, age |-> 0]]
    /\ workers = [w \in Workers |-> Idle]
    /\ tries = [j \in JobIds |-> 0]
    /\ requeues = 0

-----------------------------------------------------------------------------
(* The API and the operator.                                               *)

\* enqueueEmbedJob: unconditional insert.  Identities are handed out in
\* insertion order, which is the order of createdAt.
Enqueue(j) ==
    /\ jobs[j].status = "none"
    /\ \A i \in 1 .. j - 1 : jobs[i].status # "none"
    /\ jobs' = [jobs EXCEPT ![j] = [status |-> "pending", attempts |-> 0,
                                    age |-> 0]]
    /\ UNCHANGED <<workers, tries, requeues>>

\* requeueJobs, for one of the documents its updateMany selects: updateMany
\* is atomic per document only.
Requeue(j) ==
    /\ jobs[j].status \in {"failed", "dead"}
    /\ requeues < MaxRequeues
    /\ requeues' = requeues + 1
    /\ jobs' = [jobs EXCEPT ![j] = [status |-> "pending", attempts |-> 0,
                                    age |-> 0]]
    /\ tries' = [tries EXCEPT ![j] = 0]
    /\ UNCHANGED workers

-----------------------------------------------------------------------------
(* claimNextJob.                                                           *)

\* Mutant: the lease is not looked at.
Expired_LeaseIgnored(j) == jobs[j].status = "running"

\* Mutant: the queue before leases existed (T-054).
Expired_Never(j) == FALSE

Expired(j) == jobs[j].status = "running" /\ jobs[j].age > Lease

Due(j) == jobs[j].status = "pending" /\ jobs[j].age >= RetryDelay(jobs[j].attempts)

\* sort {createdAt: 1}
Oldest(j, P(_)) == P(j) /\ \A i \in JobIds : P(i) => j <= i

Take(w, j, n) ==
    /\ workers' = [workers EXCEPT ![w] = [pc |-> "ingesting", job |-> j,
                       attempts |-> n, held |-> 0, permanent |-> FALSE]]
    /\ tries' = [tries EXCEPT ![j] = IF @ > MaxAttempts THEN @ ELSE @ + 1]

\* A lost lease costs one attempt; at the limit the job is dead.
ReclaimedDoc(j) ==
    LET n == jobs[j].attempts + 1
    IN  [status |-> IF n >= MaxAttempts THEN "dead" ELSE "running",
         attempts |-> n, age |-> 0]

\* The reclaiming findOneAndUpdate.  When the job is dead the loop looks for
\* another expired lease.
ReclaimExpired(w, j) ==
    /\ workers[w].pc = "polling"
    /\ Oldest(j, Expired)
    /\ jobs' = [jobs EXCEPT ![j] = ReclaimedDoc(j)]
    /\ \/ jobs'[j].status = "running" /\ Take(w, j, jobs'[j].attempts)
       \/ jobs'[j].status = "dead" /\ UNCHANGED <<workers, tries>>
    /\ UNCHANGED requeues

NoneExpired(w) ==
    /\ workers[w].pc = "polling"
    /\ \A j \in JobIds : ~Expired(j)
    /\ workers' = [workers EXCEPT ![w].pc = "scanned"]
    /\ UNCHANGED <<jobs, tries, requeues>>

ClaimPending(w, j) ==
    /\ workers[w].pc = "scanned"
    /\ Oldest(j, Due)
    /\ jobs' = [jobs EXCEPT ![j].status = "running", ![j].age = 0]
    /\ Take(w, j, jobs[j].attempts)
    /\ UNCHANGED requeues

\* Nothing to do: idle for a poll interval, then poll again.
NothingDue(w) ==
    /\ workers[w].pc = "scanned"
    /\ \A j \in JobIds : ~Due(j)
    /\ workers' = [workers EXCEPT ![w].pc = "polling"]
    /\ UNCHANGED <<jobs, tries, requeues>>

-----------------------------------------------------------------------------
(* processClaimedJob.                                                      *)

Release(w) == workers' = [workers EXCEPT ![w] = Idle]

IngestSucceeds(w) ==
    /\ workers[w].pc = "ingesting"
    /\ workers' = [workers EXCEPT ![w].pc = "completing"]
    /\ UNCHANGED <<jobs, tries, requeues>>

\* isPermanentFailure decides whether the failure burns an attempt.
IngestFails(w, permanent) ==
    /\ workers[w].pc = "ingesting"
    /\ workers' = [workers EXCEPT ![w].pc = "failing",
                                  ![w].permanent = permanent]
    /\ UNCHANGED <<jobs, tries, requeues>>

MarkDone(w) == jobs' = [jobs EXCEPT ![workers[w].job].status = "done",
                                    ![workers[w].job].age = 0]

\* completeJob: updateOne by _id alone, whatever the job has become.
CompleteJob(w) ==
    /\ workers[w].pc = "completing"
    /\ MarkDone(w)
    /\ Release(w)
    /\ UNCHANGED <<tries, requeues>>

\* completeJob throws inside the try, so the job is failed as a transient
\* failure; with a lost reply the write has happened all the same.
CompleteThrows(w) ==
    /\ workers[w].pc = "completing"
    /\ UNCHANGED jobs \/ (RepliesLost /\ MarkDone(w))
    /\ workers' = [workers EXCEPT ![w].pc = "failing"]
    /\ UNCHANGED <<tries, requeues>>

\* Mutant: the limit is compared with > instead of >=.
FailedDoc_OneTooMany(w) ==
    LET n == IF workers[w].permanent THEN workers[w].attempts
                                     ELSE workers[w].attempts + 1
    IN  [status |-> IF workers[w].permanent THEN "failed"
                    ELSE IF n > MaxAttempts THEN "dead" ELSE "pending",
         attempts |-> n, age |-> 0]

\* Mutant: a permanent failure burns an attempt too (before T-053).
FailedDoc_PermanentBurns(w) ==
    LET n == workers[w].attempts + 1
    IN  [status |-> IF workers[w].permanent THEN "failed"
                    ELSE IF n >= MaxAttempts THEN "dead" ELSE "pending",
         attempts |-> n, age |-> 0]

\* attempts and status come from the document as it was claimed.
FailedDoc(w) ==
    LET n == IF workers[w].permanent THEN workers[w].attempts
                                     ELSE workers[w].attempts + 1
    IN  [status |-> IF workers[w].permanent THEN "failed"
                    ELSE IF n >= MaxAttempts THEN "dead" ELSE "pending",
         attempts |-> n, age |-> 0]

\* failJob: its updateOne filters by _id alone.
FailJob(w) ==
    /\ workers[w].pc = "failing"
    /\ jobs' = [jobs EXCEPT ![workers[w].job] = FailedDoc(w)]
    /\ Release(w)
    /\ UNCHANGED <<tries, requeues>>

\* failJob itself throws: onError, and the loop goes on; the job stays running.
FailThrows(w) ==
    /\ workers[w].pc = "failing"
    /\ Release(w)
    /\ UNCHANGED <<jobs, tries, requeues>>

-----------------------------------------------------------------------------
(* Processes and time.                                                     *)

Crash(w) ==
    /\ workers[w].pc # "down"
    /\ workers' = [workers EXCEPT ![w] = [Idle EXCEPT !.pc = "down"]]
    /\ UNCHANGED <<jobs, tries, requeues>>

Restart(w) ==
    /\ workers[w].pc = "down"
    /\ Release(w)
    /\ UNCHANGED <<jobs, tries, requeues>>

\* Unless stalls are allowed, a live worker writes its outcome before its
\* lease is over (config.ts: ten minutes for a job of a few seconds).
Tick ==
    /\ StallsAllowed \/ \A w \in Workers : Holding(w) => workers[w].held < Lease
    /\ jobs' = [j \in JobIds |-> [jobs[j] EXCEPT !.age = Older(@)]]
    /\ workers' = [w \in Workers |->
                      IF Holding(w) THEN [workers[w] EXCEPT !.held = Older(@)]
                                    ELSE workers[w]]
    /\ UNCHANGED <<tries, requeues>>

Claim(w) == \/ NoneExpired(w) \/ NothingDue(w)
            \/ \E j \in JobIds : ReclaimExpired(w, j) \/ ClaimPending(w, j)

Process(w) == \/ IngestSucceeds(w) \/ CompleteJob(w) \/ FailJob(w)
              \/ \E permanent \in BOOLEAN : IngestFails(w, permanent)

Interrupt(w) == CompleteThrows(w) \/ FailThrows(w) \/ Crash(w)

WorkerNext == \E w \in Workers : Claim(w) \/ Process(w) \/ Interrupt(w) \/ Restart(w)

Next == \/ \E j \in JobIds : Enqueue(j) \/ Requeue(j)
        \/ WorkerNext
        \/ Tick

Spec == Init /\ [][Next]_vars

\* The loop runs on and the container runtime restarts a worker that died
\* (docker-compose: restart unless-stopped).  Claims are strongly fair: a
\* worker may die of every job it takes, but not for ever before it takes one.
\* Nothing obliges clients, operators or failures to act.
Fairness ==
    /\ WF_vars(Tick)
    /\ \A w \in Workers :
          /\ WF_vars(NothingDue(w) \/ Process(w) \/ Restart(w))
          /\ SF_vars(NoneExpired(w))
          /\ SF_vars(\E j \in JobIds : ReclaimExpired(w, j) \/ ClaimPending(w, j))

FairSpec == Spec /\ Fairness

-----------------------------------------------------------------------------
(* Properties.                                                             *)

\* A job that can still be picked up has a try left and a dead one has none,
\* even when workers that lost their lease write their outcome over another
\* worker's: claimNextJob and failJob agree on where the limit lies.
RetryBudget ==
    \A j \in JobIds :
        /\ jobs[j].status \in {"none", "pending", "running"} =>
               jobs[j].attempts < MaxAttempts
        /\ jobs[j].status = "dead" => jobs[j].attempts = MaxAttempts

\* No two workers ingest the same job at once (the atomic claim of
\* claimNextJob), provided workers finish within their lease.
NoSharedJob ==
    \A v, w \in Workers :
        v # w /\ Holding(v) /\ Holding(w) => workers[v].job # workers[w].job

\* The provider is paid for a job at most MaxAttempts times before an
\* operator steps in, crashes and lease recoveries included, provided
\* workers finish within their lease.
TriesBounded == \A j \in JobIds : tries[j] <= MaxAttempts

\* The documents follow the state diagram of jobs.ts: the queue implements
\* JobLifecycle when workers finish within their lease and every applied
\* write is reported.
Documents == [j \in JobIds |-> [status |-> jobs[j].status,
                                attempts |-> jobs[j].attempts]]
Lifecycle == INSTANCE JobLifecycle WITH job <- Documents
FollowsLifecycle == Lifecycle!LSpec

\* Whatever crashes, stalls or fails, a queued job does not stay in flight
\* for ever: it is done, or it comes to rest as failed or dead.
EveryJobSettles ==
    \A j \in JobIds :
        jobs[j].status \in {"pending", "running"} ~>
            jobs[j].status \in {"done", "failed", "dead"}
=============================================================================
