---------------------------- MODULE JobLifecycle ----------------------------
(***************************************************************************)
(* What the embedding queue promises about one job document, without       *)
(* workers, leases or clocks: the state diagram of                         *)
(* packages/worker/src/jobs.ts (pending, running, done, failed, dead) with *)
(* the retry budget.  EmbedQueue is shown to implement it when workers     *)
(* finish within their lease.                                              *)
(***************************************************************************)
EXTENDS Naturals

CONSTANTS
    JobIds,        \* identities of job documents
    MaxAttempts    \* EMBED_JOB_MAX_ATTEMPTS

VARIABLE job       \* job[j] = [status, attempts]

Terminal == {"failed", "dead"}

LInit == job = [j \in JobIds |-> [status |-> "none", attempts |-> 0]]

\* Every transition of job j is one of these; attempts move only as stated.
Become(j, s, n) == job' = [job EXCEPT ![j] = [status |-> s, attempts |-> n]]

Insert(j)    == /\ job[j].status = "none"
                /\ Become(j, "pending", 0)

Start(j)     == /\ job[j].status = "pending"
                /\ Become(j, "running", job[j].attempts)

Finish(j)    == /\ job[j].status = "running"
                /\ Become(j, "done", job[j].attempts)

Abandon(j)   == /\ job[j].status = "running"
                /\ Become(j, "failed", job[j].attempts)

\* A try that is spent: back to the queue, straight to another worker
\* (lease recovery), or dead when it was the last one.
Spend(j)     == /\ job[j].status = "running"
                /\ \/ /\ job[j].attempts + 1 < MaxAttempts
                      /\ \/ Become(j, "pending", job[j].attempts + 1)
                         \/ Become(j, "running", job[j].attempts + 1)
                   \/ /\ job[j].attempts + 1 = MaxAttempts
                      /\ Become(j, "dead", MaxAttempts)

Revive(j)    == /\ job[j].status \in Terminal
                /\ Become(j, "pending", 0)

LNext == \E j \in JobIds : \/ Insert(j) \/ Start(j) \/ Finish(j)
                           \/ Abandon(j) \/ Spend(j) \/ Revive(j)

LSpec == LInit /\ [][LNext]_job
=============================================================================
