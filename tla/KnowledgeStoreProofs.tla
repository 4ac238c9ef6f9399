------------------------ MODULE KnowledgeStoreProofs ------------------------
(***************************************************************************)
(* Proofs about EmbedQueue, for any number of jobs and workers and any     *)
(* retry budget, backoff and lease:                                        *)
(*   TypeCorrect        the types,                                         *)
(*   BudgetKept         the retry budget, stalls and lost replies included,*)
(*   NeverShared        one worker per job,        } when workers finish   *)
(*   TriesAreBounded    MaxAttempts tries per job  } within their lease;   *)
(*   QueueImplementsLifecycle                      }                       *)
(* the assumption of the last three is stated in each theorem, for         *)
(* StallsAllowed and RepliesLost are constants of the model.  And about    *)
(* KnowledgeStore, for any number of records, requests and edits too:      *)
(*   StoreUsesTheQueue     the jobs behave as EmbedQueue says,             *)
(*   StoreTypeCorrect      everything keeps its type,                      *)
(*   WatermarkOnlyRises    no watermark goes back,                         *)
(*   IndexedStaysServed    what is indexed stays found by its searches,    *)
(*   PublishedGetsIndexed  what is published is found by its present text. *)
(* And about Reembedding, for any runs of the tool and pair of versions:   *)
(* what holds of the store holds through a redeployment too,               *)
(*   ReembedTypeCorrect, RedeployedNeverShared,                            *)
(*   ReembeddingImplementsLifecycle, RedeployKeepsWatermarks,              *)
(*   RedeployedStaysServed,                                                *)
(* and ReembeddingCoversAll says that the tool does what it is for.        *)
(***************************************************************************)
EXTENDS Reembedding, TLAPS

-----------------------------------------------------------------------------
(* The queue.                                                              *)

\* Strengthening of RetryBudget: a worker may write back the attempts it read
\* when it claimed the job, long after another worker has taken the job over;
\* that copy is below the limit too.
HeldBudget == \A w \in Workers : Holding(w) => workers[w].attempts < MaxAttempts

BudgetInv == TypeOK /\ RetryBudget /\ HeldBudget

\* A worker in its lease and the document of its job agree: the document is
\* running, as old as the lease, with the attempts the worker remembers.
InStep(w) ==
    LET j == workers[w].job
    IN  /\ workers[w].held <= Lease
        /\ jobs[j].status = "running"
        /\ jobs[j].age = workers[w].held
        /\ jobs[j].attempts = workers[w].attempts

LeaseKept == \A w \in Workers : Holding(w) => InStep(w)

\* The attempts of a document say how often its ingestion was begun.
TriesMatch(j) ==
    /\ jobs[j].status = "none" => tries[j] = 0
    /\ jobs[j].status = "pending" => tries[j] = jobs[j].attempts
    /\ jobs[j].status = "running" => tries[j] = jobs[j].attempts + 1

TriesKept == \A j \in JobIds : TriesMatch(j) /\ tries[j] <= MaxAttempts

LeaseInv == BudgetInv /\ LeaseKept /\ NoSharedJob /\ TriesKept

-----------------------------------------------------------------------------
(* Types.                                                                  *)

Job == [status : Statuses, attempts : Nat, age : 0 .. Horizon]
WorkerState == [pc : Phases, job : JobIds \cup {NoJob}, attempts : Nat,
                held : 0 .. Horizon, permanent : BOOLEAN]

\* Ages stay in range.
LEMMA OlderType == ASSUME NEW a \in 0 .. Horizon PROVE Older(a) \in 0 .. Horizon
  BY QueueAssumption DEF Older

\* A worker that gives its job back is Idle.
LEMMA IdleType == Idle \in WorkerState
  BY QueueAssumption DEF Idle, WorkerState, Phases

\* Assigning one document keeps the collection typed.
LEMMA JobsType ==
  ASSUME TypeOK, NEW j \in JobIds, NEW d \in Job
  PROVE  [jobs EXCEPT ![j] = d] \in [JobIds -> Job]
  BY DEF TypeOK, Job

\* Assigning one worker keeps the workers typed, and a holder has a job.
LEMMA WorkersType ==
  ASSUME TypeOK, NEW w \in Workers, NEW s \in WorkerState,
         s.pc \in {"ingesting", "completing", "failing"} => s.job \in JobIds,
         workers' = [workers EXCEPT ![w] = s]
  PROVE  /\ workers' \in [Workers -> WorkerState]
         /\ \A v \in Workers : Holding(v)' => workers'[v].job \in JobIds
  BY DEF TypeOK, WorkerState, Holding

\* Taking a job keeps workers and tries typed.
LEMMA TakeType ==
  ASSUME TypeOK, NEW w \in Workers, NEW j \in JobIds, NEW n \in Nat, Take(w, j, n)
  PROVE  /\ workers' \in [Workers -> WorkerState]
         /\ \A v \in Workers : Holding(v)' => workers'[v].job \in JobIds
         /\ tries' \in [JobIds -> 0 .. MaxAttempts + 1]
  <1> DEFINE s == [pc |-> "ingesting", job |-> j, attempts |-> n, held |-> 0,
                   permanent |-> FALSE]
  <1>1. s \in WorkerState
    BY QueueAssumption DEF WorkerState, Phases
  <1>2. workers' = [workers EXCEPT ![w] = s]
    BY DEF Take
  <1>3. tries' \in [JobIds -> 0 .. MaxAttempts + 1]
    BY QueueAssumption DEF Take, TypeOK
  <1> QED
    BY <1>1, <1>2, <1>3, WorkersType

\* What a reclaim and a failure write are documents.
LEMMA DocTypes ==
  ASSUME TypeOK
  PROVE  /\ \A j \in JobIds : ReclaimedDoc(j) \in Job
         /\ \A w \in Workers : FailedDoc(w) \in Job
  BY QueueAssumption DEF TypeOK, Job, Statuses, ReclaimedDoc, FailedDoc

\* What completeJob writes, as a document.
DoneDoc(j) == [status |-> "done", attempts |-> jobs[j].attempts, age |-> 0]

LEMMA MarkDoneDoc ==
  ASSUME TypeOK, NEW w \in Workers, Holding(w)
  PROVE  /\ DoneDoc(workers[w].job) \in Job
         /\ MarkDone(w) => jobs' = [jobs EXCEPT ![workers[w].job] = DoneDoc(workers[w].job)]
  BY QueueAssumption DEF TypeOK, MarkDone, DoneDoc, Job, Statuses

\* What claiming a pending job writes, as a document.
RunningDoc(j) == [status |-> "running", attempts |-> jobs[j].attempts, age |-> 0]

LEMMA RunningDocType ==
  ASSUME TypeOK, NEW j \in JobIds, NEW w
  PROVE  /\ RunningDoc(j) \in Job
         /\ ClaimPending(w, j) => jobs' = [jobs EXCEPT ![j] = RunningDoc(j)]
  BY QueueAssumption DEF TypeOK, ClaimPending, RunningDoc, Job, Statuses

\* Every step of every actor keeps the types.
LEMMA TypeStep == TypeOK /\ [Next]_vars => TypeOK'
  <1> SUFFICES ASSUME TypeOK, [Next]_vars PROVE TypeOK'
    OBVIOUS
  <1> USE DEF TypeOK
  <1> DEFINE NewDoc == [status |-> "pending", attempts |-> 0, age |-> 0]
  <1>0. NewDoc \in Job
    BY QueueAssumption DEF Job, Statuses
  <1>1. ASSUME NEW j \in JobIds, Enqueue(j) PROVE TypeOK'
    BY <1>0, <1>1, JobsType DEF Enqueue, Job, Holding
  <1>2. ASSUME NEW j \in JobIds, Requeue(j) PROVE TypeOK'
    <2>1. jobs' \in [JobIds -> Job]
      BY <1>0, <1>2, JobsType DEF Requeue
    <2>2. tries' \in [JobIds -> 0 .. MaxAttempts + 1] /\ requeues' \in 0 .. MaxRequeues
      BY <1>2, QueueAssumption DEF Requeue
    <2> QED
      BY <1>2, <2>1, <2>2 DEF Requeue, Job, Holding
  <1>3. ASSUME NEW w \in Workers, NEW j \in JobIds, ReclaimExpired(w, j) PROVE TypeOK'
    <2>1. ReclaimedDoc(j) \in Job /\ jobs' = [jobs EXCEPT ![j] = ReclaimedDoc(j)]
      BY <1>3, DocTypes DEF ReclaimExpired
    <2>2. jobs' \in [JobIds -> Job] /\ jobs'[j].attempts \in Nat
      BY <2>1, JobsType DEF Job
    <2>3. CASE Take(w, j, jobs'[j].attempts)
      BY <1>3, <2>2, <2>3, TakeType DEF ReclaimExpired, Job, WorkerState
    <2>4. CASE UNCHANGED <<workers, tries>>
      BY <1>3, <2>2, <2>4 DEF ReclaimExpired, Job, Holding
    <2> QED
      BY <1>3, <2>3, <2>4 DEF ReclaimExpired
  <1>4. ASSUME NEW w \in Workers, NEW j \in JobIds, ClaimPending(w, j) PROVE TypeOK'
    <2>1. jobs' = [jobs EXCEPT ![j] = RunningDoc(j)]
      BY <1>4, RunningDocType
    <2>2. jobs' \in [JobIds -> Job]
      BY <2>1, RunningDocType, JobsType
    <2> QED
      BY <1>4, <2>2, TakeType DEF ClaimPending, Job, WorkerState
  <1>5. ASSUME NEW w \in Workers,
               \/ NoneExpired(w) \/ NothingDue(w)
               \/ IngestSucceeds(w) \/ \E p \in BOOLEAN : IngestFails(w, p)
        PROVE  TypeOK'
    BY <1>5 DEF NoneExpired, NothingDue, IngestSucceeds, IngestFails, Phases, Holding
  <1>6. ASSUME NEW w \in Workers, Release(w),
               jobs' \in [JobIds -> Job], UNCHANGED <<tries, requeues>>
        PROVE  TypeOK'
    BY <1>6, IdleType, WorkersType DEF Release, Idle, Job, WorkerState
  <1>7. ASSUME NEW w \in Workers, Holding(w), MarkDone(w)
        PROVE  jobs' \in [JobIds -> Job]
    BY <1>7, MarkDoneDoc, JobsType DEF MarkDone
  <1>8. ASSUME NEW w \in Workers, CompleteJob(w) PROVE TypeOK'
    BY <1>6, <1>7, <1>8 DEF CompleteJob, Holding
  <1>9. ASSUME NEW w \in Workers, CompleteThrows(w) PROVE TypeOK'
    <2>1. jobs' \in [JobIds -> Job]
      BY <1>7, <1>9 DEF CompleteThrows, Job, Holding
    <2> QED
      BY <1>9, <2>1 DEF CompleteThrows, Job, Phases, Holding
  <1>10. ASSUME NEW w \in Workers, FailJob(w) PROVE TypeOK'
    <2>1. workers[w].job \in JobIds
      BY <1>10 DEF FailJob, Holding
    <2>2. jobs' \in [JobIds -> Job]
      BY <1>10, <2>1, DocTypes, JobsType DEF FailJob
    <2> QED
      BY <1>6, <1>10, <2>2 DEF FailJob
  <1>11. ASSUME NEW w \in Workers, FailThrows(w) \/ Restart(w) PROVE TypeOK'
    BY <1>6, <1>11 DEF FailThrows, Restart, Job
  <1>12. ASSUME NEW w \in Workers, Crash(w) PROVE TypeOK'
    <2> DEFINE s == [Idle EXCEPT !.pc = "down"]
    <2>1. s \in WorkerState /\ s.pc = "down"
      BY IdleType DEF WorkerState, Phases
    <2> QED
      BY <1>12, <2>1, WorkersType DEF Crash, Job, WorkerState
  <1>13. ASSUME Tick PROVE TypeOK'
    BY <1>13, OlderType DEF Tick, Holding
  <1>14. CASE UNCHANGED vars
    BY <1>14 DEF vars, Holding
  <1> QED
    BY <1>1, <1>2, <1>3, <1>4, <1>5, <1>8, <1>9, <1>10, <1>11, <1>12, <1>13, <1>14
    DEF Next, WorkerNext, Claim, Process, Interrupt

\* The collection and the workers have the types of TypeOK in every state.
THEOREM TypeCorrect == Spec => []TypeOK
  <1>1. Init => TypeOK
    BY QueueAssumption DEF Init, TypeOK, Statuses, Idle, Phases, Holding
  <1> QED
    BY <1>1, TypeStep, PTL DEF Spec

-----------------------------------------------------------------------------
(* The retry budget, for any schedule of stalls, crashes and lost replies. *)

\* RetryBudget of one document.
WithinBudget(d) ==
    /\ d.status \in {"none", "pending", "running"} => d.attempts < MaxAttempts
    /\ d.status = "dead" => d.attempts = MaxAttempts

\* Writing one document that respects the budget keeps RetryBudget.
LEMMA BudgetAssign ==
  ASSUME TypeOK, RetryBudget, NEW j \in JobIds, NEW d \in Job, WithinBudget(d),
         jobs' = [jobs EXCEPT ![j] = d]
  PROVE  RetryBudget'
  BY DEF TypeOK, Job, RetryBudget, WithinBudget

\* Each document a worker writes respects the budget.
LEMMA DocsWithinBudget ==
  ASSUME BudgetInv
  PROVE  /\ \A j \in JobIds : Expired(j) => WithinBudget(ReclaimedDoc(j))
         /\ \A j \in JobIds : Due(j) => WithinBudget(RunningDoc(j))
         /\ \A j \in JobIds : WithinBudget(DoneDoc(j))
         /\ \A w \in Workers : Holding(w) => WithinBudget(FailedDoc(w))
  <1> USE QueueAssumption DEF BudgetInv, TypeOK, WithinBudget
  <1>1. \A j \in JobIds : Expired(j) => WithinBudget(ReclaimedDoc(j))
    BY DEF RetryBudget, Expired, ReclaimedDoc
  <1>2. \A j \in JobIds : Due(j) => WithinBudget(RunningDoc(j))
    BY DEF RetryBudget, Due, RunningDoc
  <1>3. \A j \in JobIds : WithinBudget(DoneDoc(j))
    BY DEF DoneDoc
  <1>4. \A w \in Workers : Holding(w) => WithinBudget(FailedDoc(w))
    BY DEF HeldBudget, FailedDoc
  <1> QED
    BY <1>1, <1>2, <1>3, <1>4

\* A worker that takes a job takes an attempt count below the limit.
LEMMA HeldAfterTake ==
  ASSUME TypeOK, HeldBudget, NEW w \in Workers, NEW j, NEW n \in Nat,
         n < MaxAttempts, Take(w, j, n)
  PROVE  HeldBudget'
  BY DEF TypeOK, HeldBudget, Holding, Take

\* Steps that move a worker without giving it a job keep what is held.
LEMMA HeldAfterMove ==
  ASSUME TypeOK, HeldBudget, NEW w \in Workers,
         \A v \in Workers : v # w => workers'[v] = workers[v],
         Holding(w)' => /\ Holding(w)
                        /\ workers'[w].attempts = workers[w].attempts
  PROVE  HeldBudget'
  BY DEF HeldBudget, Holding

LEMMA BudgetStep == BudgetInv /\ [Next]_vars => BudgetInv'
  <1> SUFFICES ASSUME BudgetInv, [Next]_vars PROVE RetryBudget' /\ HeldBudget'
    BY TypeStep DEF BudgetInv
  <1> USE DEF BudgetInv
  <1> DEFINE NewDoc == [status |-> "pending", attempts |-> 0, age |-> 0]
  <1>0. NewDoc \in Job /\ WithinBudget(NewDoc)
    BY QueueAssumption DEF Job, Statuses, WithinBudget
  <1>1. ASSUME NEW j \in JobIds, Enqueue(j) \/ Requeue(j)
        PROVE  RetryBudget' /\ HeldBudget'
    <2>1. jobs' = [jobs EXCEPT ![j] = NewDoc] /\ UNCHANGED workers
      BY <1>1 DEF Enqueue, Requeue
    <2> QED
      BY <1>0, <2>1, BudgetAssign DEF HeldBudget, Holding
  <1>2. ASSUME NEW w \in Workers, NEW j \in JobIds, ReclaimExpired(w, j)
        PROVE  RetryBudget' /\ HeldBudget'
    <2>1. /\ ReclaimedDoc(j) \in Job /\ WithinBudget(ReclaimedDoc(j))
          /\ jobs' = [jobs EXCEPT ![j] = ReclaimedDoc(j)]
      BY <1>2, DocTypes, DocsWithinBudget DEF ReclaimExpired, Oldest
    <2>2. RetryBudget'
      BY <2>1, BudgetAssign
    <2>3. jobs'[j].attempts \in Nat /\ jobs'[j] \in Job
      BY <2>1 DEF TypeOK, Job
    <2>4. CASE jobs'[j].status = "running" /\ Take(w, j, jobs'[j].attempts)
      BY <2>2, <2>3, <2>4, HeldAfterTake DEF RetryBudget
    <2>5. CASE UNCHANGED <<workers, tries>>
      BY <2>2, <2>5, HeldAfterMove DEF Holding
    <2> QED
      BY <1>2, <2>2, <2>4, <2>5 DEF ReclaimExpired
  <1>3. ASSUME NEW w \in Workers, NEW j \in JobIds, ClaimPending(w, j)
        PROVE  RetryBudget' /\ HeldBudget'
    <2>1. jobs' = [jobs EXCEPT ![j] = RunningDoc(j)] /\ RunningDoc(j) \in Job
      BY <1>3, RunningDocType
    <2>2. Due(j) /\ Take(w, j, jobs[j].attempts)
      BY <1>3 DEF ClaimPending, Oldest
    <2>3. jobs[j].attempts \in Nat /\ jobs[j].attempts < MaxAttempts
      BY <2>2 DEF Due, RetryBudget, TypeOK
    <2> QED
      BY <2>1, <2>2, <2>3, DocsWithinBudget, BudgetAssign, HeldAfterTake
  <1>4. ASSUME NEW w \in Workers,
               \/ NoneExpired(w) \/ NothingDue(w) \/ IngestSucceeds(w)
               \/ \E p \in BOOLEAN : IngestFails(w, p)
               \/ FailThrows(w) \/ Crash(w) \/ Restart(w)
        PROVE  RetryBudget' /\ HeldBudget'
    <2>1. UNCHANGED jobs
      BY <1>4 DEF NoneExpired, NothingDue, IngestSucceeds, IngestFails,
                  FailThrows, Crash, Restart
    <2>2. /\ \A v \in Workers : v # w => workers'[v] = workers[v]
          /\ Holding(w)' => /\ Holding(w)
                            /\ workers'[w].attempts = workers[w].attempts
      BY <1>4 DEF NoneExpired, NothingDue, IngestSucceeds, IngestFails, Release,
                  FailThrows, Crash, Restart, Idle, Holding, TypeOK
    <2> QED
      BY <2>1, <2>2, HeldAfterMove DEF RetryBudget
  <1>5. ASSUME NEW w \in Workers, CompleteJob(w) \/ CompleteThrows(w)
        PROVE  RetryBudget' /\ HeldBudget'
    <2>1. Holding(w) /\ (MarkDone(w) \/ UNCHANGED jobs)
      BY <1>5 DEF CompleteJob, CompleteThrows, Holding
    <2>2. workers[w].job \in JobIds
      BY <2>1 DEF TypeOK
    <2>3. RetryBudget'
      <3>1. CASE MarkDone(w)
        BY <2>1, <2>2, <3>1, MarkDoneDoc, DocsWithinBudget, BudgetAssign
      <3>2. CASE UNCHANGED jobs
        BY <3>2 DEF RetryBudget
      <3> QED
        BY <2>1, <3>1, <3>2
    <2>4. /\ \A v \in Workers : v # w => workers'[v] = workers[v]
          /\ Holding(w)' => workers'[w].attempts = workers[w].attempts
      BY <1>5 DEF CompleteJob, CompleteThrows, Release, Idle, Holding, TypeOK
    <2> QED
      BY <2>1, <2>3, <2>4, HeldAfterMove
  <1>6. ASSUME NEW w \in Workers, FailJob(w) PROVE RetryBudget' /\ HeldBudget'
    <2>1. Holding(w)
      BY <1>6 DEF FailJob, Holding
    <2>2. workers[w].job \in JobIds /\ FailedDoc(w) \in Job /\ WithinBudget(FailedDoc(w))
      BY <2>1, DocTypes, DocsWithinBudget DEF TypeOK
    <2>3. /\ \A v \in Workers : v # w => workers'[v] = workers[v]
          /\ ~Holding(w)'
      BY <1>6 DEF FailJob, Release, Idle, Holding, TypeOK
    <2> QED
      BY <1>6, <2>2, <2>3, BudgetAssign, HeldAfterMove DEF FailJob
  <1>7. ASSUME Tick PROVE RetryBudget' /\ HeldBudget'
    BY <1>7 DEF Tick, TypeOK, RetryBudget, HeldBudget, Holding
  <1>8. CASE UNCHANGED vars
    BY <1>8 DEF vars, RetryBudget, HeldBudget, Holding
  <1> QED
    BY <1>1, <1>2, <1>3, <1>4, <1>5, <1>6, <1>7, <1>8
    DEF Next, WorkerNext, Claim, Process, Interrupt

\* claimNextJob and failJob agree on the limit in every state: no document is
\* up for another try at MaxAttempts, and none is dead before it, even when
\* workers write outcomes long after they lost their lease.
THEOREM BudgetKept == Spec => []RetryBudget
  <1>1. Init => BudgetInv
    BY QueueAssumption
    DEF Init, BudgetInv, TypeOK, RetryBudget, HeldBudget, Statuses, Idle, Phases, Holding
  <1>2. BudgetInv => RetryBudget
    BY DEF BudgetInv
  <1> QED
    BY <1>1, <1>2, BudgetStep, PTL DEF Spec

-----------------------------------------------------------------------------
(* Workers that finish within their lease.                                 *)

\* No worker has job j in hand.
Unheld(j) == \A v \in Workers : Holding(v) => workers[v].job # j

\* What worker v holds after a step it held before.
HoldsOn(v) ==
    Holding(v)' => /\ Holding(v)
                   /\ workers'[v].job = workers[v].job
                   /\ workers'[v].held = workers[v].held
                   /\ workers'[v].attempts = workers[v].attempts

\* A document that is not running, or runs past its lease, is in no hands.
LEMMA FreeJobs ==
  ASSUME TypeOK, LeaseKept, NEW j \in JobIds,
         jobs[j].status # "running" \/ jobs[j].age > Lease
  PROVE  Unheld(j)
  BY QueueAssumption DEF TypeOK, LeaseKept, InStep, Unheld

\* Rewriting a document that no holder is left with keeps the leases.
LEMMA LeaseAssign ==
  ASSUME TypeOK, LeaseKept, NoSharedJob, NEW j \in JobIds, NEW d,
         jobs' = [jobs EXCEPT ![j] = d],
         \A v \in Workers : HoldsOn(v) /\ (Holding(v)' => workers[v].job # j)
  PROVE  LeaseKept' /\ NoSharedJob'
  <1>1. ASSUME NEW v \in Workers, Holding(v)' PROVE InStep(v)'
    <2>1. Holding(v) /\ workers[v].job # j /\ workers'[v].job = workers[v].job
      BY <1>1 DEF HoldsOn
    <2>2. jobs'[workers'[v].job] = jobs[workers[v].job]
      BY <2>1 DEF TypeOK
    <2> QED
      BY <1>1, <2>1, <2>2 DEF LeaseKept, InStep, HoldsOn
  <1>2. NoSharedJob'
    BY DEF NoSharedJob, HoldsOn
  <1> QED
    BY <1>1, <1>2 DEF LeaseKept

\* So does a step that leaves the documents alone.
LEMMA LeaseMove ==
  ASSUME LeaseKept, NoSharedJob, UNCHANGED jobs, \A v \in Workers : HoldsOn(v)
  PROVE  LeaseKept' /\ NoSharedJob'
  <1>1. ASSUME NEW v \in Workers, Holding(v)' PROVE InStep(v)'
    BY <1>1 DEF LeaseKept, InStep, HoldsOn
  <1>2. NoSharedJob'
    BY DEF NoSharedJob, HoldsOn
  <1> QED
    BY <1>1, <1>2 DEF LeaseKept

\* And so does taking a free job.
LEMMA LeaseTake ==
  ASSUME TypeOK, LeaseKept, NoSharedJob, NEW w \in Workers, NEW j \in JobIds,
         NEW n \in Nat, ~Holding(w), Unheld(j), Take(w, j, n),
         jobs' = [jobs EXCEPT ![j] = [status |-> "running", attempts |-> n, age |-> 0]]
  PROVE  LeaseKept' /\ NoSharedJob'
  <1>1. /\ workers'[w].job = j /\ workers'[w].held = 0 /\ workers'[w].attempts = n
        /\ \A v \in Workers : v # w => workers'[v] = workers[v]
    BY DEF Take, TypeOK
  <1>2. jobs'[j] = [status |-> "running", attempts |-> n, age |-> 0]
    BY DEF TypeOK
  <1>3. InStep(w)'
    BY <1>1, <1>2, QueueAssumption DEF InStep
  <1>4. ASSUME NEW v \in Workers, v # w, Holding(v)' PROVE InStep(v)'
    <2>1. Holding(v) /\ workers'[v] = workers[v]
      BY <1>1, <1>4 DEF Holding
    <2>2. jobs'[workers'[v].job] = jobs[workers[v].job]
      BY <2>1 DEF TypeOK, Unheld
    <2> QED
      BY <2>1, <2>2 DEF LeaseKept, InStep
  <1>5. NoSharedJob'
    BY <1>1 DEF NoSharedJob, Unheld, Holding
  <1> QED
    BY <1>3, <1>4, <1>5 DEF LeaseKept

\* Writing one document and its history keeps the others' history.
LEMMA TriesAssign ==
  ASSUME TypeOK, TriesKept, NEW j \in JobIds, NEW d, NEW k,
         jobs' = [jobs EXCEPT ![j] = d], tries' = [tries EXCEPT ![j] = k],
         k \in 0 .. MaxAttempts,
         d.status = "none" => k = 0,
         d.status = "pending" => k = d.attempts,
         d.status = "running" => k = d.attempts + 1
  PROVE  TriesKept'
  <1>1. TriesMatch(j)' /\ tries'[j] <= MaxAttempts
    BY QueueAssumption DEF TypeOK, TriesMatch
  <1>2. ASSUME NEW i \in JobIds, i # j PROVE TriesMatch(i)' /\ tries'[i] <= MaxAttempts
    BY <1>2 DEF TypeOK, TriesKept, TriesMatch
  <1> QED
    BY <1>1, <1>2 DEF TriesKept

\* Leaving the history alone is assigning what is there.
LEMMA TriesSame ==
  ASSUME TypeOK, NEW j \in JobIds, UNCHANGED tries
  PROVE  tries' = [tries EXCEPT ![j] = tries[j]]
  BY DEF TypeOK

\* Workers that move without touching a document.
LEMMA LeaseQuiet ==
  ASSUME LeaseInv, NEW w \in Workers,
         \/ NoneExpired(w) \/ NothingDue(w) \/ IngestSucceeds(w)
         \/ \E p \in BOOLEAN : IngestFails(w, p)
         \/ FailThrows(w) \/ Crash(w) \/ Restart(w)
  PROVE  LeaseKept' /\ NoSharedJob' /\ TriesKept'
  <1> USE DEF LeaseInv, BudgetInv
  <1>1. UNCHANGED <<jobs, tries>>
    BY DEF NoneExpired, NothingDue, IngestSucceeds, IngestFails,
           FailThrows, Crash, Restart
  <1>2. \A v \in Workers : HoldsOn(v)
    BY DEF NoneExpired, NothingDue, IngestSucceeds, IngestFails, Release,
           FailThrows, Crash, Restart, Idle, Holding, HoldsOn, TypeOK
  <1> QED
    BY <1>1, <1>2, LeaseMove DEF TriesKept, TriesMatch

\* Below the cap a new try is counted.
LEMMA TakeTries ==
  ASSUME TypeOK, NEW w, NEW j \in JobIds, NEW n, Take(w, j, n), tries[j] <= MaxAttempts
  PROVE  tries' = [tries EXCEPT ![j] = tries[j] + 1]
  <1>1. ~(tries[j] > MaxAttempts)
    BY QueueAssumption DEF TypeOK
  <1> QED
    BY <1>1 DEF Take

\* Claiming: the document is free, and the new try is on the books.
LEMMA LeaseClaim ==
  ASSUME LeaseInv, NEW w \in Workers, NEW j \in JobIds,
         ReclaimExpired(w, j) \/ ClaimPending(w, j)
  PROVE  LeaseKept' /\ NoSharedJob' /\ TriesKept'
  <1> USE DEF LeaseInv, BudgetInv
  <1>1. jobs[j].attempts \in Nat /\ jobs[j].attempts < MaxAttempts /\ ~Holding(w)
    BY DEF ReclaimExpired, ClaimPending, Oldest, Expired, Due, RetryBudget,
           TypeOK, Holding
  <1>2. Unheld(j)
    BY FreeJobs DEF ReclaimExpired, ClaimPending, Oldest, Expired, Due
  <1>3. TriesMatch(j) /\ tries[j] <= MaxAttempts
    BY DEF TriesKept
  <1>4. CASE ClaimPending(w, j)
    <2> DEFINE n == jobs[j].attempts
    <2>1. jobs' = [jobs EXCEPT ![j] = [status |-> "running", attempts |-> n, age |-> 0]]
      BY <1>4, RunningDocType DEF RunningDoc
    <2>2. Take(w, j, n) /\ tries[j] = n
      BY <1>3, <1>4 DEF ClaimPending, Oldest, Due, TriesMatch
    <2>3. tries' = [tries EXCEPT ![j] = n + 1]
      BY <1>3, <2>2, TakeTries
    <2>4. n + 1 \in 0 .. MaxAttempts
      BY <1>1, QueueAssumption
    <2>5. TriesKept'
      BY <2>1, <2>3, <2>4, TriesAssign
    <2> QED
      BY <1>1, <1>2, <2>1, <2>2, <2>5, LeaseTake
  <1>5. CASE ReclaimExpired(w, j)
    <2> DEFINE n == jobs[j].attempts + 1
    <2>1. tries[j] = n /\ jobs' = [jobs EXCEPT ![j] = ReclaimedDoc(j)]
      BY <1>3, <1>5 DEF ReclaimExpired, Oldest, Expired, TriesMatch
    <2>2. jobs'[j] = ReclaimedDoc(j)
      BY <2>1 DEF TypeOK
    <2>3. CASE jobs'[j].status = "running" /\ Take(w, j, jobs'[j].attempts)
      <3>1. n < MaxAttempts /\ n \in Nat
        BY <1>1, <2>2, <2>3, QueueAssumption DEF ReclaimedDoc
      <3>2. ReclaimedDoc(j) = [status |-> "running", attempts |-> n, age |-> 0]
        BY <3>1, QueueAssumption DEF ReclaimedDoc
      <3>3. Take(w, j, n)
        BY <2>2, <2>3, <3>2
      <3>4. tries' = [tries EXCEPT ![j] = n + 1]
        BY <1>3, <2>1, <3>3, TakeTries
      <3>5. n + 1 \in 0 .. MaxAttempts
        BY <3>1, QueueAssumption
      <3>6. TriesKept'
        BY <2>1, <3>2, <3>4, <3>5, TriesAssign
      <3> QED
        BY <1>1, <1>2, <2>1, <3>1, <3>2, <3>3, <3>6, LeaseTake
    <2>4. CASE jobs'[j].status = "dead" /\ UNCHANGED <<workers, tries>>
      <3>1. \A v \in Workers : HoldsOn(v) /\ (Holding(v)' => workers[v].job # j)
        BY <1>2, <2>4 DEF HoldsOn, Holding, Unheld
      <3>2. n \in 0 .. MaxAttempts /\ ReclaimedDoc(j).status = "dead"
        BY <1>1, <2>2, <2>4, QueueAssumption
      <3>3. tries' = [tries EXCEPT ![j] = n]
        BY <2>1, <2>4, TriesSame
      <3>4. TriesKept'
        BY <2>1, <3>2, <3>3, TriesAssign
      <3> QED
        BY <2>1, <3>1, <3>4, LeaseAssign
    <2> QED
      BY <1>5, <2>3, <2>4 DEF ReclaimExpired
  <1> QED
    BY <1>4, <1>5

\* Writing an outcome: the document is the worker's own.
LEMMA LeaseOutcome ==
  ASSUME LeaseInv, NEW w \in Workers, CompleteJob(w) \/ FailJob(w)
  PROVE  LeaseKept' /\ NoSharedJob' /\ TriesKept'
  <1> USE DEF LeaseInv, BudgetInv
  <1> DEFINE j == workers[w].job
  <1>1. Holding(w) /\ j \in JobIds /\ UNCHANGED tries /\ Release(w)
    BY DEF CompleteJob, FailJob, Holding, TypeOK
  <1>2. \A v \in Workers : HoldsOn(v) /\ (Holding(v)' => workers[v].job # j)
    BY <1>1 DEF Release, Idle, Holding, HoldsOn, NoSharedJob, TypeOK
  <1>3. InStep(w) /\ jobs[j].attempts < MaxAttempts
    BY <1>1 DEF LeaseKept, InStep, RetryBudget
  <1>4. tries[j] = jobs[j].attempts + 1 /\ tries[j] \in 0 .. MaxAttempts
    BY <1>1, <1>3, QueueAssumption DEF TriesKept, TriesMatch, InStep, TypeOK
  <1>5. tries' = [tries EXCEPT ![j] = tries[j]]
    BY <1>1, TriesSame
  <1>6. CASE CompleteJob(w)
    <2>1. jobs' = [jobs EXCEPT ![j] = DoneDoc(j)]
      BY <1>1, <1>6, MarkDoneDoc DEF CompleteJob
    <2>2. TriesKept'
      BY <1>1, <1>4, <1>5, <2>1, TriesAssign DEF DoneDoc
    <2> QED
      BY <1>1, <1>2, <2>1, <2>2, LeaseAssign
  <1>7. CASE FailJob(w)
    <2>1. jobs' = [jobs EXCEPT ![j] = FailedDoc(w)]
      BY <1>7 DEF FailJob
    <2>2. FailedDoc(w).status = "pending" => FailedDoc(w).attempts = tries[j]
      BY <1>3, <1>4, QueueAssumption DEF FailedDoc, InStep, TypeOK
    <2>3. FailedDoc(w).status \in {"failed", "dead", "pending"}
      BY DEF FailedDoc
    <2>4. TriesKept'
      BY <1>1, <1>4, <1>5, <2>1, <2>2, <2>3, TriesAssign
    <2> QED
      BY <1>1, <1>2, <2>1, <2>4, LeaseAssign
  <1> QED
    BY <1>6, <1>7

\* A lost reply is the one way to a document that is done and still held.
LEMMA LeaseThrows ==
  ASSUME LeaseInv, ~RepliesLost, NEW w \in Workers, CompleteThrows(w)
  PROVE  LeaseKept' /\ NoSharedJob' /\ TriesKept'
  <1> USE DEF LeaseInv, BudgetInv
  <1>1. UNCHANGED <<jobs, tries>>
    BY DEF CompleteThrows
  <1>2. \A v \in Workers : HoldsOn(v)
    BY DEF CompleteThrows, Holding, HoldsOn, TypeOK
  <1> QED
    BY <1>1, <1>2, LeaseMove DEF TriesKept, TriesMatch

\* Documents and leases grow old together.
LEMMA LeaseTick ==
  ASSUME LeaseInv, ~StallsAllowed, Tick
  PROVE  LeaseKept' /\ NoSharedJob' /\ TriesKept'
  <1> USE DEF LeaseInv, BudgetInv
  <1>1. \A w \in Workers :
           /\ workers'[w].job = workers[w].job /\ workers'[w].attempts = workers[w].attempts
           /\ Holding(w)' <=> Holding(w)
           /\ Holding(w) => workers'[w].held = Older(workers[w].held)
    BY DEF Tick, TypeOK, Holding
  <1>2. \A j \in JobIds : /\ jobs'[j].status = jobs[j].status
                          /\ jobs'[j].attempts = jobs[j].attempts
                          /\ jobs'[j].age = Older(jobs[j].age)
    BY DEF Tick, TypeOK
  <1>3. ASSUME NEW w \in Workers, Holding(w)' PROVE InStep(w)'
    <2>1. Holding(w) /\ workers[w].held < Lease /\ InStep(w) /\ workers[w].job \in JobIds
      BY <1>1, <1>3 DEF Tick, LeaseKept, TypeOK
    <2>2. Older(workers[w].held) <= Lease
      BY <2>1, QueueAssumption DEF Older, TypeOK
    <2> QED
      BY <1>1, <1>2, <2>1, <2>2 DEF InStep
  <1>4. NoSharedJob'
    BY <1>1 DEF NoSharedJob
  <1>5. TriesKept'
    BY <1>2 DEF Tick, TriesKept, TriesMatch
  <1> QED
    BY <1>3, <1>4, <1>5 DEF LeaseKept

LEMMA LeaseStep ==
  ASSUME ~StallsAllowed, ~RepliesLost
  PROVE  LeaseInv /\ [Next]_vars => LeaseInv'
  <1> SUFFICES ASSUME LeaseInv, [Next]_vars PROVE LeaseKept' /\ NoSharedJob' /\ TriesKept'
    BY BudgetStep DEF LeaseInv
  <1> DEFINE NewDoc == [status |-> "pending", attempts |-> 0, age |-> 0]
  <1>1. ASSUME NEW j \in JobIds, Enqueue(j) \/ Requeue(j)
        PROVE  LeaseKept' /\ NoSharedJob' /\ TriesKept'
    <2> USE DEF LeaseInv, BudgetInv
    <2>1. jobs' = [jobs EXCEPT ![j] = NewDoc] /\ UNCHANGED workers
      BY <1>1 DEF Enqueue, Requeue
    <2>2. Unheld(j)
      BY <1>1, FreeJobs DEF Enqueue, Requeue
    <2>3. \A v \in Workers : HoldsOn(v) /\ (Holding(v)' => workers[v].job # j)
      BY <2>1, <2>2 DEF HoldsOn, Holding, Unheld
    <2>4. tries' = [tries EXCEPT ![j] = 0]
      <3>1. CASE Enqueue(j)
        BY <3>1, TriesSame DEF Enqueue, TriesKept, TriesMatch
      <3>2. CASE Requeue(j)
        BY <3>2 DEF Requeue
      <3> QED
        BY <1>1, <3>1, <3>2
    <2>5. 0 \in 0 .. MaxAttempts /\ NewDoc.status = "pending" /\ NewDoc.attempts = 0
      BY QueueAssumption
    <2>6. TriesKept'
      BY <2>1, <2>4, <2>5, TriesAssign
    <2> QED
      BY <2>1, <2>3, <2>6, LeaseAssign
  <1>2. ASSUME NEW w \in Workers, Claim(w)
        PROVE  LeaseKept' /\ NoSharedJob' /\ TriesKept'
    BY <1>2, LeaseClaim, LeaseQuiet DEF Claim
  <1>3. ASSUME NEW w \in Workers, Process(w) \/ Interrupt(w) \/ Restart(w)
        PROVE  LeaseKept' /\ NoSharedJob' /\ TriesKept'
    BY <1>3, LeaseQuiet, LeaseOutcome, LeaseThrows DEF Process, Interrupt
  <1>4. ASSUME Tick PROVE LeaseKept' /\ NoSharedJob' /\ TriesKept'
    BY <1>4, LeaseTick
  <1>5. CASE UNCHANGED vars
    <2>1. \A v \in Workers : HoldsOn(v)
      BY <1>5 DEF vars, HoldsOn, Holding
    <2> QED
      BY <1>5, <2>1, LeaseMove DEF LeaseInv, vars, TriesKept, TriesMatch
  <1> QED
    BY <1>1, <1>2, <1>3, <1>4, <1>5 DEF Next, WorkerNext

LEMMA LeaseInit == Init => LeaseInv
  BY QueueAssumption
  DEF Init, LeaseInv, BudgetInv, TypeOK, RetryBudget, HeldBudget, LeaseKept,
      NoSharedJob, TriesKept, TriesMatch, Statuses, Idle, Phases, Holding

LEMMA LeaseAlways ==
  ASSUME ~StallsAllowed, ~RepliesLost PROVE Spec => []LeaseInv
  BY LeaseInit, LeaseStep, PTL DEF Spec

\* Workers that finish within their lease never ingest one job side by side:
\* a document is claimed by the one findOneAndUpdate that finds it free.
THEOREM NeverShared ==
  ASSUME ~StallsAllowed, ~RepliesLost PROVE Spec => []NoSharedJob
  <1>1. LeaseInv => NoSharedJob
    BY DEF LeaseInv
  <1> QED
    BY <1>1, LeaseAlways, PTL

\* Failures, crashes and lease recoveries together cost a job at most
\* MaxAttempts ingestions before it comes to rest.
THEOREM TriesAreBounded ==
  ASSUME ~StallsAllowed, ~RepliesLost PROVE Spec => []TriesBounded
  <1>1. LeaseInv => TriesBounded
    BY DEF LeaseInv, TriesKept, TriesBounded
  <1> QED
    BY <1>1, LeaseAlways, PTL

-----------------------------------------------------------------------------
(* The queue implements JobLifecycle.                                      *)

\* Writing document j is one Become of the abstract state diagram.
LEMMA MapAssign ==
  ASSUME TypeOK, NEW j \in JobIds, NEW d \in Job, jobs' = [jobs EXCEPT ![j] = d]
  PROVE  Lifecycle!Become(j, d.status, d.attempts)
  BY DEF TypeOK, Job, Documents, Lifecycle!Become

\* What the abstract diagram sees of a document.
LEMMA MapState ==
  \A j \in JobIds : /\ Documents[j].status = jobs[j].status
                    /\ Documents[j].attempts = jobs[j].attempts
  BY DEF Documents

LEMMA MapClaim ==
  ASSUME LeaseInv, NEW w \in Workers, NEW j \in JobIds,
         ReclaimExpired(w, j) \/ ClaimPending(w, j)
  PROVE  Lifecycle!LNext
  <1> USE DEF LeaseInv, BudgetInv
  <1>1. jobs[j].attempts \in Nat /\ jobs[j].attempts < MaxAttempts
    BY DEF ReclaimExpired, ClaimPending, Oldest, Expired, Due, RetryBudget, TypeOK
  <1>2. CASE ClaimPending(w, j)
    <2>1. Lifecycle!Become(j, "running", jobs[j].attempts)
      BY <1>2, RunningDocType, MapAssign DEF RunningDoc
    <2>2. jobs[j].status = "pending"
      BY <1>2 DEF ClaimPending, Oldest, Due
    <2>3. Lifecycle!Start(j)
      BY <2>1, <2>2, MapState DEF Lifecycle!Start
    <2> QED
      BY <2>3 DEF Lifecycle!LNext
  <1>3. CASE ReclaimExpired(w, j)
    <2> DEFINE n == jobs[j].attempts + 1
               d == ReclaimedDoc(j)
    <2>1. jobs[j].status = "running" /\ Lifecycle!Become(j, d.status, d.attempts)
      BY <1>3, DocTypes, MapAssign DEF ReclaimExpired, Oldest, Expired
    <2>2. d.attempts = n /\ d.status = IF n >= MaxAttempts THEN "dead" ELSE "running"
      BY DEF ReclaimedDoc
    <2>3. CASE n < MaxAttempts
      <3>1. Lifecycle!Become(j, "running", n)
        BY <1>1, <2>1, <2>2, <2>3, QueueAssumption
      <3> QED
        BY <2>1, <2>3, <3>1, MapState DEF Lifecycle!Spend, Lifecycle!LNext
    <2>4. CASE n = MaxAttempts
      <3>1. Lifecycle!Become(j, "dead", MaxAttempts)
        BY <2>1, <2>2, <2>4, QueueAssumption
      <3> QED
        BY <2>1, <2>4, <3>1, MapState DEF Lifecycle!Spend, Lifecycle!LNext
    <2> QED
      BY <1>1, <2>3, <2>4, QueueAssumption
  <1> QED
    BY <1>2, <1>3

LEMMA MapOutcome ==
  ASSUME LeaseInv, NEW w \in Workers, CompleteJob(w) \/ FailJob(w)
  PROVE  Lifecycle!LNext
  <1> USE DEF LeaseInv, BudgetInv
  <1> DEFINE j == workers[w].job
             n == jobs[j].attempts
             d == FailedDoc(w)
  <1>1. Holding(w) /\ j \in JobIds
    BY DEF CompleteJob, FailJob, Holding, TypeOK
  <1>2. /\ jobs[j].status = "running" /\ n = workers[w].attempts
        /\ n \in Nat /\ n < MaxAttempts
    BY <1>1 DEF LeaseKept, InStep, RetryBudget, TypeOK
  <1>3. CASE CompleteJob(w)
    <2>1. Lifecycle!Become(j, "done", n)
      BY <1>1, <1>3, MarkDoneDoc, MapAssign DEF CompleteJob, DoneDoc
    <2> QED
      BY <1>1, <1>2, <2>1, MapState DEF Lifecycle!Finish, Lifecycle!LNext
  <1>4. CASE FailJob(w)
    <2>1. Lifecycle!Become(j, d.status, d.attempts)
      BY <1>1, <1>4, DocTypes, MapAssign DEF FailJob
    <2>2. CASE workers[w].permanent
      <3>1. Lifecycle!Become(j, "failed", n)
        BY <1>2, <2>1, <2>2 DEF FailedDoc
      <3> QED
        BY <1>1, <1>2, <3>1, MapState DEF Lifecycle!Abandon, Lifecycle!LNext
    <2>3. CASE ~workers[w].permanent /\ n + 1 < MaxAttempts
      <3>1. Lifecycle!Become(j, "pending", n + 1)
        BY <1>2, <2>1, <2>3, QueueAssumption DEF FailedDoc
      <3> QED
        BY <1>1, <1>2, <2>3, <3>1, MapState DEF Lifecycle!Spend, Lifecycle!LNext
    <2>4. CASE ~workers[w].permanent /\ n + 1 = MaxAttempts
      <3>1. Lifecycle!Become(j, "dead", MaxAttempts)
        BY <1>2, <2>1, <2>4, QueueAssumption DEF FailedDoc
      <3> QED
        BY <1>1, <1>2, <2>4, <3>1, MapState DEF Lifecycle!Spend, Lifecycle!LNext
    <2> QED
      BY <1>2, <2>2, <2>3, <2>4, QueueAssumption
  <1> QED
    BY <1>3, <1>4

\* Every step of the queue is a step of the diagram or leaves it alone.
LEMMA MapStep ==
  ASSUME ~RepliesLost, LeaseInv, [Next]_vars
  PROVE  [Lifecycle!LNext]_Documents
  <1> USE DEF LeaseInv, BudgetInv
  <1> DEFINE NewDoc == [status |-> "pending", attempts |-> 0, age |-> 0]
  <1>0. NewDoc \in Job
    BY QueueAssumption DEF Job, Statuses
  <1>1. ASSUME NEW j \in JobIds, Enqueue(j) \/ Requeue(j) PROVE Lifecycle!LNext
    <2>1. Lifecycle!Become(j, "pending", 0)
      BY <1>0, <1>1, MapAssign DEF Enqueue, Requeue
    <2> QED
      BY <1>1, <2>1, MapState
      DEF Enqueue, Requeue, Lifecycle!Insert, Lifecycle!Revive, Lifecycle!Terminal,
          Lifecycle!LNext
  <1>2. ASSUME NEW w \in Workers,
               \/ NoneExpired(w) \/ NothingDue(w) \/ IngestSucceeds(w)
               \/ \E p \in BOOLEAN : IngestFails(w, p)
               \/ Interrupt(w) \/ Restart(w)
        PROVE  UNCHANGED Documents
    BY <1>2 DEF NoneExpired, NothingDue, IngestSucceeds, IngestFails, Interrupt,
                CompleteThrows, FailThrows, Crash, Restart, Documents
  <1>3. ASSUME Tick PROVE UNCHANGED Documents
    BY <1>3 DEF Tick, TypeOK, Documents
  <1>4. CASE UNCHANGED vars
    BY <1>4 DEF vars, Documents
  <1> QED
    BY <1>1, <1>2, <1>3, <1>4, MapClaim, MapOutcome
    DEF Next, WorkerNext, Claim, Process

\* When workers finish within their lease and every applied write is reported,
\* a job document only ever moves along the state diagram of jobs.ts, with
\* attempts counted as it says.
THEOREM QueueImplementsLifecycle ==
  ASSUME ~StallsAllowed, ~RepliesLost PROVE Spec => FollowsLifecycle
  <1>1. Init => Lifecycle!LInit
    BY DEF Init, Documents, Lifecycle!LInit
  <1>2. LeaseInv /\ [Next]_vars => [Lifecycle!LNext]_Documents
    BY MapStep
  <1> QED
    BY <1>1, <1>2, LeaseAlways, PTL DEF Spec, FollowsLifecycle, Lifecycle!LSpec


-----------------------------------------------------------------------------
(* What the types alone do not say.                                        *)

Known(r) == records[r].status # "none"

\* A record has a text from its insertion on, and no watermark before it.
RecordsKept ==
    \A r \in Records : IF Known(r) THEN records[r].body \in Contents
                                   ELSE records[r].watermark = 0

\* A request is about a record that exists, and writes a text of its own.
RequestsKept ==
    \A h \in Handlers : req[h].pc # "idle" =>
        /\ Known(req[h].rec)
        /\ req[h].pc = "writing" => req[h].content \in Contents

\* So is a job, and a worker holds a job that was inserted.
JobsKept ==
    /\ \A j \in JobIds : jobs[j].status # "none" => Known(target[j])
    /\ \A w \in Workers : Holding(w) => jobs[workers[w].job].status # "none"

\* A worker past the first step has a text in hand, and its next chunk is one
\* of that text.
IngestsKept ==
    \A w \in Workers : ingest[w].step # "load" =>
        /\ workers[w].pc = "ingesting"
        /\ ingest[w].body \in Contents
        /\ ingest[w].step = "embed" => ingest[w].seq = 1
        /\ ingest[w].step = "upsert" => ingest[w].seq <= ChunkCount[ingest[w].body]

StoreInv == StoreTypeOK /\ RecordsKept /\ RequestsKept /\ JobsKept /\ IngestsKept

-----------------------------------------------------------------------------
(* The steps of the store are steps of the queue.                          *)

RecordType == [status : {"none", "draft", "published"}, body : 0 .. MaxEdits,
               tags : 0 .. MaxEdits, flags : SUBSET Flags,
               watermark : {0} \cup Generations]
ChunkType == [text : 0 .. MaxEdits, tags : 0 .. MaxEdits, flags : SUBSET Flags]
IngestType == [step : {"load", "embed", "upsert", "orphans", "raise"},
               body : 0 .. MaxEdits, tags : 0 .. MaxEdits,
               flags : SUBSET Flags, seq : 1 .. MaxSeq + 1]
RequestType == [pc : {"idle", "writing", "following"}, rec : Records,
                patch : AllPatches, content : 0 .. MaxEdits,
                was : {"none", "draft", "published"},
                wasFlags : SUBSET Flags, tags : 0 .. MaxEdits,
                flags : SUBSET Flags,
                todo : SUBSET {"enqueue", "sync", "purge"}]

LEMMA StoreTypes ==
  StoreTypeOK <=> /\ TypeOK
                  /\ records \in [Records -> RecordType]
                  /\ chunks \in [Records -> [Generations -> [Seqs -> ChunkType]]]
                  /\ target \in [JobIds -> Records]
                  /\ ingest \in [Workers -> IngestType]
                  /\ req \in [Handlers -> RequestType]
                  /\ edits \in 0 .. MaxEdits
                  /\ unqueued \subseteq Records
  BY DEF StoreTypeOK, RecordType, ChunkType, IngestType, RequestType

LEMMA Placeholders ==
  /\ NoRequest \in RequestType /\ NotLoaded \in IngestType
  /\ NoRecord \in RecordType /\ NoChunk \in ChunkType
  BY StoreAssumption
  DEF NoRequest, NotLoaded, NoRecord, NoChunk, NoPatch, RequestType, IngestType,
      RecordType, ChunkType, AllPatches

\* What happens to the jobs beside insertions, and to the workers.
QueueMove == (\E j \in JobIds : Requeue(j)) \/ WorkerNext \/ Tick \/ UNCHANGED vars

LEMMA StoreStepIsQueueStep ==
  ASSUME [StoreNext]_allVars PROVE [Next]_vars
  <1>1. ASSUME Api PROVE [Next]_vars
    BY <1>1
    DEF Api, Serve, CreateRecord, ReadExisting, Request, WritePatch, EnqueueEmbedJob,
        SyncChunkMeta, PurgeChunks, RequestDies, Next
  <1>2. ASSUME NEW w \in Workers, WorkerStep(w) PROVE Next \/ UNCHANGED vars
    BY <1>2
    DEF WorkerStep, Ingest, LoadRecord, Embed, UpsertChunk, DeleteOrphans, RaiseWatermark,
        IngestThrows, QueueStep, WorkerCrash, Next, WorkerNext, Process, Interrupt
  <1> QED
    BY <1>1, <1>2 DEF StoreNext, OperatorRequeues, TimePasses, allVars, Next

\* The store is one of the queue's environments: whatever it does to records
\* and chunks, the queue of jobs behaves as EmbedQueue says.
THEOREM StoreUsesTheQueue == StoreSpec => Spec
  <1>1. StoreInit => Init
    BY DEF StoreInit
  <1>2. [StoreNext]_allVars => [Next]_vars
    BY StoreStepIsQueueStep
  <1> QED
    BY <1>1, <1>2, PTL DEF StoreSpec, Spec

-----------------------------------------------------------------------------
(* What the queue does to the jobs and workers that the store looks at.    *)

\* After a claim of job j, whoever holds a job holds that one, or held it before.
LEMMA TakeHolds ==
  ASSUME TypeOK, NEW w \in Workers, NEW j \in JobIds, NEW n,
         Take(w, j, n) \/ UNCHANGED workers
  PROVE  \A v \in Workers : Holding(v)' =>
             workers'[v].job = j \/ (Holding(v) /\ workers'[v].job = workers[v].job)
  <1>1. CASE Take(w, j, n)
    <2>1. \A v \in Workers : v # w => workers'[v] = workers[v]
      BY <1>1 DEF Take, TypeOK
    <2>2. workers'[w].job = j
      BY <1>1 DEF Take, TypeOK
    <2> QED
      BY <2>1, <2>2 DEF Holding
  <1>2. CASE UNCHANGED workers
    BY <1>2 DEF Holding
  <1> QED
    BY <1>1, <1>2

\* A document that was inserted stays, and no other appears by itself.
LEMMA JobsStay ==
  ASSUME TypeOK, JobsKept, QueueMove
  PROVE  /\ \A j \in JobIds : jobs'[j].status # "none" <=> jobs[j].status # "none"
         /\ \A w \in Workers : Holding(w)' => jobs'[workers'[w].job].status # "none"
  <1> DEFINE Same == \A j \in JobIds : jobs'[j].status # "none" <=> jobs[j].status # "none"
             Held == \A w \in Workers : Holding(w)' => jobs'[workers'[w].job].status # "none"
  <1>1. ASSUME NEW j \in JobIds, Requeue(j) PROVE Same /\ Held
    BY <1>1 DEF Requeue, TypeOK, JobsKept, Holding
  <1>2. ASSUME NEW w \in Workers, NEW j \in JobIds, ReclaimExpired(w, j) PROVE Same /\ Held
    <2>1. jobs[j].status = "running" /\ ReclaimedDoc(j).status # "none"
      BY <1>2 DEF ReclaimExpired, Oldest, Expired, ReclaimedDoc
    <2>2. Same
      BY <1>2, <2>1 DEF ReclaimExpired, TypeOK
    <2>3. ASSUME NEW v \in Workers, Holding(v)'
          PROVE  workers'[v].job = j \/ (Holding(v) /\ workers'[v].job = workers[v].job)
      BY <1>2, <2>3, TakeHolds DEF ReclaimExpired
    <2>4. Held
      BY <2>1, <2>2, <2>3 DEF JobsKept, TypeOK
    <2> QED
      BY <2>2, <2>4
  <1>3. ASSUME NEW w \in Workers, NEW j \in JobIds, ClaimPending(w, j) PROVE Same /\ Held
    <2>1. jobs[j].status = "pending"
      BY <1>3 DEF ClaimPending, Oldest, Due
    <2>2. Same
      BY <1>3, <2>1 DEF ClaimPending, TypeOK
    <2>3. ASSUME NEW v \in Workers, Holding(v)'
          PROVE  workers'[v].job = j \/ (Holding(v) /\ workers'[v].job = workers[v].job)
      BY <1>3, <2>3, TakeHolds DEF ClaimPending
    <2>4. Held
      BY <2>1, <2>2, <2>3 DEF JobsKept, TypeOK
    <2> QED
      BY <2>2, <2>4
  <1>4. ASSUME NEW w \in Workers,
               NoneExpired(w) \/ NothingDue(w) \/ IngestSucceeds(w) \/ FailThrows(w)
                 \/ Crash(w) \/ Restart(w) \/ \E p \in BOOLEAN : IngestFails(w, p)
        PROVE  Same /\ Held
    <2>1. ASSUME NEW v \in Workers, Holding(v)'
          PROVE  Holding(v) /\ workers'[v].job = workers[v].job
      BY <1>4, <2>1
      DEF NoneExpired, NothingDue, IngestSucceeds, FailThrows, Crash, Restart, IngestFails,
          Release, Idle, TypeOK, Holding
    <2>2. UNCHANGED jobs
      BY <1>4
      DEF NoneExpired, NothingDue, IngestSucceeds, FailThrows, Crash, Restart, IngestFails
    <2> QED
      BY <2>1, <2>2 DEF JobsKept
  <1>5. ASSUME NEW w \in Workers, CompleteJob(w) \/ CompleteThrows(w) \/ FailJob(w)
        PROVE  Same /\ Held
    <2>1. ASSUME NEW v \in Workers, Holding(v)'
          PROVE  Holding(v) /\ workers'[v].job = workers[v].job
      BY <1>5, <2>1 DEF CompleteJob, CompleteThrows, FailJob, Release, Idle, TypeOK, Holding
    <2>2. Holding(w) /\ workers[w].job \in JobIds /\ jobs[workers[w].job].status # "none"
      BY <1>5 DEF CompleteJob, CompleteThrows, FailJob, Holding, TypeOK, JobsKept
    <2>3. FailedDoc(w).status # "none"
      BY DEF FailedDoc
    <2>4. Same
      BY <1>5, <2>2, <2>3 DEF CompleteJob, CompleteThrows, FailJob, MarkDone, TypeOK
    <2> QED
      BY <2>1, <2>4 DEF JobsKept, TypeOK
  <1>6. ASSUME Tick PROVE Same /\ Held
    <2>1. \A w \in Workers : /\ Holding(w)' => Holding(w)
                             /\ workers'[w].job = workers[w].job
      BY <1>6 DEF Tick, TypeOK, Holding
    <2>2. Same
      BY <1>6 DEF Tick, TypeOK
    <2> QED
      BY <2>1, <2>2 DEF JobsKept, TypeOK
  <1>7. ASSUME UNCHANGED vars PROVE Same /\ Held
    BY <1>7 DEF vars, JobsKept, Holding
  <1> QED
    BY <1>1, <1>2, <1>3, <1>4, <1>5, <1>6, <1>7
    DEF QueueMove, WorkerNext, Claim, Process, Interrupt

\* Only its own pipeline, or its end, moves a worker that is ingesting.
LEMMA IngestingStays ==
  ASSUME StoreTypeOK, NEW v \in Workers, QueueStep(v) \/ Ingest(v) \/ WorkerCrash(v),
         NEW w \in Workers, w # v \/ QueueStep(v)
  PROVE  /\ workers[w].pc = "ingesting" => workers'[w] = workers[w]
         /\ ingest'[w] = ingest[w]
  <1> USE StoreTypes
  <1>1. CASE QueueStep(v)
    <2>1. UNCHANGED ingest
      BY <1>1 DEF QueueStep, storeVars
    <2>2. CASE Claim(v)
      BY <2>1, <2>2 DEF Claim, NoneExpired, NothingDue, ReclaimExpired, ClaimPending, Take, TypeOK
    <2>3. CASE CompleteJob(v) \/ CompleteThrows(v) \/ FailJob(v) \/ FailThrows(v) \/ Restart(v)
      BY <2>1, <2>3 DEF CompleteJob, CompleteThrows, FailJob, FailThrows, Restart, Release, TypeOK
    <2> QED
      BY <1>1, <2>2, <2>3 DEF QueueStep
  <1>2. CASE w # v /\ Ingest(v)
    BY <1>2
    DEF Ingest, LoadRecord, Embed, UpsertChunk, DeleteOrphans, RaiseWatermark, IngestThrows,
        IngestSucceeds, IngestFails, TypeOK, vars
  <1>3. CASE w # v /\ WorkerCrash(v)
    BY <1>3 DEF WorkerCrash, Crash, TypeOK
  <1> QED
    BY <1>1, <1>2, <1>3

-----------------------------------------------------------------------------
(* Types, and what they rest on.                                           *)

\* What is typed but the queue.
Typed ==
    /\ records \in [Records -> RecordType]
    /\ chunks \in [Records -> [Generations -> [Seqs -> ChunkType]]]
    /\ target \in [JobIds -> Records]
    /\ ingest \in [Workers -> IngestType]
    /\ req \in [Handlers -> RequestType]
    /\ edits \in 0 .. MaxEdits
    /\ unqueued \subseteq Records

LEMMA TypedPart ==
  /\ StoreTypeOK <=> TypeOK /\ Typed
  /\ TypeOK' /\ Typed' => StoreTypeOK'
  <1>1. StoreTypeOK <=> TypeOK /\ Typed
    BY StoreTypes DEF Typed
  <1>2. TypeOK' /\ Typed' => StoreTypeOK'
    BY <1>1, PTL
  <1> QED
    BY <1>1, <1>2

\* A step that inserts no job has to keep only what it changes.
LEMMA MoveKeeps ==
  ASSUME StoreInv, QueueMove, UNCHANGED target, Typed',
         RecordsKept', \A r \in Records : Known(r) => Known(r)',
         RequestsKept', IngestsKept'
  PROVE  StoreInv'
  <1>1. [Next]_vars
    BY DEF QueueMove, Next
  <1>2. TypeOK'
    BY <1>1, TypeStep, TypedPart DEF StoreInv
  <1>3. JobsKept'
    BY JobsStay, TypedPart DEF StoreInv, JobsKept, Typed
  <1> QED
    BY <1>2, <1>3, TypedPart DEF StoreInv

\* Nor does one that inserts a job of a record that exists.
LEMMA EnqueueKeeps ==
  ASSUME StoreInv, NEW j \in JobIds, Enqueue(j), NEW r \in Records, Known(r),
         target' = [target EXCEPT ![j] = r], UNCHANGED <<records, chunks, ingest, edits>>,
         req' \in [Handlers -> RequestType], RequestsKept', unqueued' \subseteq Records
  PROVE  StoreInv'
  <1> USE TypedPart DEF StoreInv, Typed
  <1>1. TypeOK'
    BY TypeStep DEF Next
  <1>2. Typed'
    OBVIOUS
  <1>3. RecordsKept'
    BY DEF RecordsKept, Known
  <1>4. JobsKept'
    BY DEF JobsKept, Known, Enqueue, TypeOK, Holding
  <1>5. IngestsKept'
    BY DEF IngestsKept, Enqueue
  <1> QED
    BY <1>1, <1>2, <1>3, <1>4, <1>5

\* The API.
LEMMA ApiKeeps ==
  ASSUME StoreInv, Api PROVE StoreInv'
  <1> USE TypedPart, StoreAssumption DEF StoreInv, Typed
  <1>0. NoRequest \in RequestType /\ NoRequest.pc = "idle"
    BY Placeholders DEF NoRequest
  <1>1. ASSUME NEW h \in Handlers, NEW r \in Records, NEW s \in {"draft", "published"},
               CreateRecord(h, r, s)
        PROVE  StoreInv'
    <2> DEFINE new == [status |-> s, body |-> edits', tags |-> edits', flags |-> {},
                       watermark |-> 0]
               q == IF s = "published"
                    THEN [NoRequest EXCEPT !.pc = "following", !.rec = r, !.todo = {"enqueue"}]
                    ELSE NoRequest
    <2>1. edits' \in Contents /\ edits' \in 0 .. MaxEdits
      BY <1>1 DEF CreateRecord, FreshContent, Contents
    <2>2. new \in RecordType /\ q \in RequestType
      BY <1>0, <2>1 DEF RecordType, RequestType
    <2>3. records' = [records EXCEPT ![r] = new] /\ req' = [req EXCEPT ![h] = q]
      BY <1>1 DEF CreateRecord
    <2>4. Typed'
      BY <1>1, <2>1, <2>2, <2>3 DEF CreateRecord
    <2>5. RecordsKept' /\ Known(r)' /\ \A x \in Records : Known(x) => Known(x)'
      BY <2>1, <2>3 DEF RecordsKept, Known
    <2>6. RequestsKept'
      BY <1>0, <2>3, <2>5 DEF RequestsKept, RequestType
    <2> QED
      BY <1>1, <2>4, <2>5, <2>6, MoveKeeps DEF CreateRecord, QueueMove, IngestsKept, vars
  <1>2. ASSUME NEW h \in Handlers, NEW r \in Records, NEW p \in Patches, ReadExisting(h, r, p)
        PROVE  StoreInv'
    <2> DEFINE q == [NoRequest EXCEPT !.pc = "writing", !.rec = r, !.patch = p,
                        !.content = edits', !.was = records[r].status,
                        !.wasFlags = records[r].flags]
    <2>1. edits' \in Contents /\ edits' \in 0 .. MaxEdits
      BY <1>2 DEF ReadExisting, FreshContent, Contents
    <2>2. q \in RequestType
      BY <1>0, <2>1 DEF RecordType, RequestType
    <2>3. req' = [req EXCEPT ![h] = q] /\ UNCHANGED records
      BY <1>2 DEF ReadExisting
    <2>4. Typed'
      BY <1>2, <2>1, <2>2, <2>3 DEF ReadExisting
    <2>5. RequestsKept'
      BY <1>0, <1>2, <2>1, <2>3 DEF RequestsKept, Known, ReadExisting
    <2> QED
      BY <1>2, <2>4, <2>5, MoveKeeps
      DEF ReadExisting, QueueMove, IngestsKept, RecordsKept, Known, vars
  <1>3. ASSUME NEW h \in Handlers, WritePatch(h) PROVE StoreInv'
    <2> DEFINE r == req[h].rec
               todo == FollowUps(h, Patched(h))
               q == IF todo = {} THEN NoRequest
                    ELSE [req[h] EXCEPT !.pc = "following", !.todo = todo,
                             !.tags = records'[r].tags, !.flags = records'[r].flags]
    <2>1. /\ r \in Records /\ Known(r) /\ req[h].content \in Contents
          /\ Contents \subseteq 0 .. MaxEdits
      BY <1>3 DEF WritePatch, RequestsKept, RequestType, Contents
    <2>2. Patched(h) \in RecordType /\ Patched(h).status # "none" /\ Patched(h).body \in Contents
      BY <2>1 DEF Patched, RecordType, RequestType, AllPatches, RecordsKept, Known
    <2>3. todo \subseteq {"enqueue", "sync", "purge"}
      BY DEF FollowUps
    <2>4. records' = [records EXCEPT ![r] = Patched(h)] /\ req' = [req EXCEPT ![h] = q]
      BY <1>3 DEF WritePatch
    <2>5. q \in RequestType /\ (q.pc = "idle" \/ (q.pc = "following" /\ q.rec = r))
      BY <1>0, <2>1, <2>2, <2>3, <2>4 DEF RecordType, RequestType
    <2>6. Typed'
      BY <1>3, <2>1, <2>2, <2>4, <2>5 DEF WritePatch
    <2>7. RecordsKept' /\ \A x \in Records : Known(x) => Known(x)'
      BY <2>1, <2>2, <2>4 DEF RecordsKept, Known
    <2>8. RequestsKept'
      BY <1>0, <2>1, <2>4, <2>5, <2>7 DEF RequestsKept, RequestType
    <2> QED
      BY <1>3, <2>6, <2>7, <2>8, MoveKeeps DEF WritePatch, QueueMove, IngestsKept, vars
  <1>4. ASSUME NEW h \in Handlers, NEW f, Following(h, f)
        PROVE  /\ req' \in [Handlers -> RequestType] /\ (UNCHANGED records => RequestsKept')
               /\ req[h].rec \in Records /\ Known(req[h].rec)
    <2> DEFINE q == IF req[h].todo = {f} THEN NoRequest
                    ELSE [req[h] EXCEPT !.todo = req[h].todo \ {f}]
    <2>1. req[h] \in RequestType /\ req' = [req EXCEPT ![h] = q] /\ req[h].pc = "following"
      BY <1>4 DEF Following
    <2>2. q \in RequestType /\ (q.pc = "idle" \/ (q.pc = "following" /\ q.rec = req[h].rec))
      BY <1>0, <2>1 DEF RequestType
    <2>3. Known(req[h].rec)
      BY <2>1 DEF RequestsKept
    <2> QED
      BY <2>1, <2>2, <2>3 DEF RequestsKept, Known, RequestType
  <1>5. ASSUME NEW h \in Handlers, EnqueueEmbedJob(h) PROVE StoreInv'
    <2>1. PICK j \in JobIds : Enqueue(j) /\ target' = [target EXCEPT ![j] = req[h].rec]
      BY <1>5 DEF EnqueueEmbedJob
    <2> QED
      BY <1>4, <1>5, <2>1, EnqueueKeeps DEF EnqueueEmbedJob
  <1>6. ASSUME NEW h \in Handlers, SyncChunkMeta(h) \/ PurgeChunks(h) PROVE StoreInv'
    <2>1. chunks' \in [Records -> [Generations -> [Seqs -> ChunkType]]]
      <3>1. CASE PurgeChunks(h)
        BY <3>1, Placeholders DEF PurgeChunks
      <3>2. CASE SyncChunkMeta(h)
        <4> DEFINE c(g, s) == chunks[req[h].rec][g][s]
                   new(g, s) == IF c(g, s) = NoChunk THEN NoChunk
                                ELSE [c(g, s) EXCEPT !.tags = req[h].tags, !.flags = req[h].flags]
        <4>1. req[h] \in RequestType /\ req[h].rec \in Records
          BY DEF RequestType
        <4>2. \A g \in Generations, s \in Seqs : c(g, s) \in ChunkType
          BY <4>1
        <4>3. \A g \in Generations, s \in Seqs : new(g, s) \in ChunkType
          BY <4>1, <4>2, Placeholders DEF ChunkType, RequestType
        <4>4. chunks' = [chunks EXCEPT ![req[h].rec] =
                             [g \in Generations |-> [s \in Seqs |-> new(g, s)]]]
          BY <3>2, <4>1 DEF SyncChunkMeta
        <4> QED
          BY <4>3, <4>4
      <3> QED
        BY <1>6, <3>1, <3>2
    <2>2. req' \in [Handlers -> RequestType] /\ RequestsKept'
      BY <1>4, <1>6 DEF SyncChunkMeta, PurgeChunks
    <2> QED
      BY <1>6, <2>1, <2>2, MoveKeeps
      DEF SyncChunkMeta, PurgeChunks, QueueMove, IngestsKept, RecordsKept, Known, vars
  <1>7. ASSUME NEW h \in Handlers, RequestDies(h) PROVE StoreInv'
    <2>1. req' \in [Handlers -> RequestType] /\ RequestsKept' /\ unqueued' \subseteq Records
      BY <1>0, <1>7 DEF RequestDies, RequestsKept, RequestType, Known
    <2> QED
      BY <1>7, <2>1, MoveKeeps
      DEF RequestDies, QueueMove, IngestsKept, RecordsKept, Known, vars
  <1> QED
    BY <1>1, <1>2, <1>3, <1>5, <1>6, <1>7 DEF Api, Serve, Request

\* The record of a worker that holds a job is one that exists.
LEMMA RecordInHand ==
  ASSUME StoreInv, NEW w \in Workers, Holding(w)
  PROVE  /\ workers[w].job \in JobIds
         /\ RecordOf(w) \in Records /\ Known(RecordOf(w))
         /\ records[RecordOf(w)].body \in Contents
         /\ Generation[w] \in Generations
  BY TypedPart DEF StoreInv, TypeOK, Typed, JobsKept, RecordsKept, RecordOf, Generations

\* A worker moves on with a typed step; the others stay where they are.
LEMMA IngestMoves ==
  ASSUME StoreInv, NEW w \in Workers, NEW i \in IngestType,
         ingest' = [ingest EXCEPT ![w] = i],
         \A v \in Workers : v # w => workers'[v] = workers[v],
         i.step # "load" =>
             /\ workers'[w].pc = "ingesting"
             /\ i.body \in Contents
             /\ i.step = "embed" => i.seq = 1
             /\ i.step = "upsert" => i.seq <= ChunkCount[i.body]
  PROVE  ingest' \in [Workers -> IngestType] /\ IngestsKept'
  BY TypedPart DEF StoreInv, Typed, IngestsKept

\* The pipeline of a worker.
LEMMA IngestKeeps ==
  ASSUME StoreInv, NEW w \in Workers, Ingest(w) PROVE StoreInv'
  <1> USE TypedPart, StoreAssumption DEF StoreInv, Typed
  <1> DEFINE r == RecordOf(w)
  <1>1. Holding(w) /\ workers[w].pc = "ingesting"
    BY DEF Ingest, LoadRecord, Embed, UpsertChunk, DeleteOrphans, RaiseWatermark, IngestThrows,
           AtStep, IngestSucceeds, IngestFails, Holding
  <1>2. r \in Records /\ Known(r) /\ records[r].body \in Contents /\ Generation[w] \in Generations
    BY <1>1, RecordInHand
  <1>3. ingest[w] \in IngestType /\ records[r] \in RecordType
    BY <1>2
  <1>4. NotLoaded \in IngestType /\ NotLoaded.step = "load"
    BY Placeholders DEF NotLoaded
  <1>5. \A b \in Contents : ChunkCount[b] \in 0 .. MaxSeq
    OBVIOUS
  <1>6. CASE LoadRecord(w)
    <2> DEFINE i == [step |-> "embed", body |-> records[r].body, tags |-> records[r].tags,
                     flags |-> records[r].flags, seq |-> 1]
    <2>1. i \in IngestType /\ ingest' = [ingest EXCEPT ![w] = i] /\ UNCHANGED vars
      BY <1>3, <1>6 DEF LoadRecord, IngestType, RecordType
    <2>2. ingest' \in [Workers -> IngestType] /\ IngestsKept'
      BY <1>1, <1>2, <2>1, IngestMoves DEF vars
    <2> QED
      BY <1>6, <2>2, MoveKeeps DEF LoadRecord, QueueMove, RecordsKept, RequestsKept, Known
  <1>7. CASE Embed(w)
    <2> DEFINE i == [ingest[w] EXCEPT !.step = IF ChunkCount[ingest[w].body] = 0
                                              THEN "orphans" ELSE "upsert"]
    <2>1. i \in IngestType /\ ingest' = [ingest EXCEPT ![w] = i] /\ UNCHANGED vars
      BY <1>3, <1>7 DEF Embed, IngestType
    <2>2. /\ ingest[w].body \in Contents /\ ingest[w].seq = 1
          /\ i.body = ingest[w].body /\ i.seq = 1
      BY <1>3, <1>7 DEF Embed, AtStep, IngestsKept, IngestType
    <2>3. i.step # "embed" /\ (i.step = "upsert" => i.seq <= ChunkCount[i.body])
      BY <1>3, <1>5, <2>2 DEF IngestType
    <2>4. ingest' \in [Workers -> IngestType] /\ IngestsKept'
      BY <1>1, <2>1, <2>2, <2>3, IngestMoves DEF vars
    <2> QED
      BY <1>7, <2>4, MoveKeeps DEF Embed, QueueMove, RecordsKept, RequestsKept, Known
  <1>8. CASE UpsertChunk(w)
    <2> DEFINE s == ingest[w].seq
               i == [ingest[w] EXCEPT !.seq = s + 1,
                        !.step = IF s = ChunkCount[ingest[w].body] THEN "orphans" ELSE "upsert"]
    <2>1. ingest[w].body \in Contents /\ s <= ChunkCount[ingest[w].body] /\ s \in Seqs
      <3>1. ingest[w].body \in Contents /\ s <= ChunkCount[ingest[w].body]
        BY <1>8 DEF UpsertChunk, AtStep, IngestsKept
      <3>2. s \in 1 .. MaxSeq + 1
        BY <1>3 DEF IngestType
      <3> QED
        BY <1>5, <3>1, <3>2 DEF Seqs
    <2>2. i \in IngestType /\ i.body = ingest[w].body /\ i.seq = s + 1 /\ i.step # "embed"
      <3>1. s + 1 \in 1 .. MaxSeq + 1
        BY <2>1 DEF Seqs
      <3> QED
        BY <1>3, <3>1 DEF IngestType
    <2>3. ingest' = [ingest EXCEPT ![w] = i] /\ UNCHANGED vars
      BY <1>8 DEF UpsertChunk
    <2>4. i.step = "upsert" => i.seq <= ChunkCount[i.body]
      BY <1>3, <1>5, <2>1, <2>2 DEF IngestType, Seqs
    <2>5. ingest' \in [Workers -> IngestType] /\ IngestsKept'
      BY <1>1, <2>1, <2>2, <2>3, <2>4, IngestMoves DEF vars
    <2>6. UpsertedChunk(w) \in ChunkType
      BY <1>3 DEF UpsertedChunk, ChunkType, IngestType
    <2>7. chunks' \in [Records -> [Generations -> [Seqs -> ChunkType]]]
      BY <1>2, <1>8, <2>1, <2>6 DEF UpsertChunk
    <2> QED
      BY <1>8, <2>5, <2>7, MoveKeeps DEF UpsertChunk, QueueMove, RecordsKept, RequestsKept, Known
  <1>9. CASE DeleteOrphans(w)
    <2> DEFINE i == [ingest[w] EXCEPT !.step = "raise"]
               new(g, s) == IF <<g, s>> \in Orphans(w) THEN NoChunk ELSE chunks[r][g][s]
    <2>1. /\ i \in IngestType /\ i.step = "raise" /\ i.body \in Contents
          /\ ingest' = [ingest EXCEPT ![w] = i] /\ UNCHANGED vars
      BY <1>3, <1>9 DEF DeleteOrphans, AtStep, IngestsKept, IngestType
    <2>2. ingest' \in [Workers -> IngestType] /\ IngestsKept'
      BY <1>1, <2>1, IngestMoves DEF vars
    <2>3. \A g \in Generations, s \in Seqs : new(g, s) \in ChunkType
      BY <1>2, Placeholders
    <2>4. chunks' = [chunks EXCEPT ![r] = [g \in Generations |-> [s \in Seqs |-> new(g, s)]]]
      BY <1>9 DEF DeleteOrphans
    <2>5. chunks' \in [Records -> [Generations -> [Seqs -> ChunkType]]]
      BY <2>3, <2>4
    <2> QED
      BY <1>9, <2>2, <2>5, MoveKeeps DEF DeleteOrphans, QueueMove, RecordsKept, RequestsKept, Known
  <1>10. CASE RaiseWatermark(w)
    <2> DEFINE m == Raised(w, records[r].watermark)
    <2>1. /\ ingest' = [ingest EXCEPT ![w] = NotLoaded]
          /\ workers' = [workers EXCEPT ![w].pc = "completing"]
          /\ records' = [records EXCEPT ![r].watermark = m]
      BY <1>10 DEF RaiseWatermark, IngestSucceeds
    <2>2. ingest' \in [Workers -> IngestType] /\ IngestsKept'
      BY <1>4, <2>1, IngestMoves DEF TypeOK
    <2>3. m \in {0} \cup Generations
      BY <1>2, <1>3 DEF Raised, RecordType
    <2>4. /\ records' \in [Records -> RecordType] /\ RecordsKept'
          /\ \A x \in Records : Known(x)' <=> Known(x)
      BY <1>2, <1>3, <2>1, <2>3 DEF RecordType, RecordsKept, Known
    <2> QED
      BY <1>10, <2>2, <2>4, MoveKeeps
      DEF RaiseWatermark, QueueMove, WorkerNext, Process, RequestsKept, RequestType
  <1>11. ASSUME NEW p \in BOOLEAN, IngestThrows(w, p) PROVE StoreInv'
    <2>1. /\ ingest' = [ingest EXCEPT ![w] = NotLoaded]
          /\ workers' = [workers EXCEPT ![w].pc = "failing", ![w].permanent = p]
      BY <1>11 DEF IngestThrows, IngestFails
    <2>2. ingest' \in [Workers -> IngestType] /\ IngestsKept'
      BY <1>4, <2>1, IngestMoves DEF TypeOK
    <2> QED
      BY <1>11, <2>2, MoveKeeps
      DEF IngestThrows, QueueMove, WorkerNext, Process, RecordsKept, RequestsKept, Known
  <1> QED
    BY <1>6, <1>7, <1>8, <1>9, <1>10, <1>11 DEF Ingest

\* Claims, outcomes, crashes, restarts, operators and time.
LEMMA QueueKeeps ==
  ASSUME StoreInv,
         \/ \E w \in Workers : QueueStep(w) \/ WorkerCrash(w)
         \/ \E j \in JobIds : OperatorRequeues(j)
         \/ TimePasses
  PROVE  StoreInv'
  <1> USE TypedPart DEF StoreInv, Typed
  <1>1. ASSUME NEW w \in Workers, QueueStep(w) PROVE StoreInv'
    <2>1. IngestsKept'
      BY <1>1, IngestingStays DEF IngestsKept
    <2> QED
      BY <1>1, <2>1, MoveKeeps
      DEF QueueStep, QueueMove, WorkerNext, Process, Interrupt, storeVars, RecordsKept,
          RequestsKept, Known
  <1>2. ASSUME NEW w \in Workers, WorkerCrash(w) PROVE StoreInv'
    <2>1. /\ ingest' = [ingest EXCEPT ![w] = NotLoaded]
          /\ NotLoaded \in IngestType /\ NotLoaded.step = "load"
          /\ \A v \in Workers : v # w => workers'[v] = workers[v]
      BY <1>2, Placeholders DEF WorkerCrash, Crash, NotLoaded, TypeOK
    <2>2. ingest' \in [Workers -> IngestType] /\ IngestsKept'
      BY <2>1, IngestMoves
    <2> QED
      BY <1>2, <2>2, MoveKeeps
      DEF WorkerCrash, QueueMove, WorkerNext, Interrupt, RecordsKept, RequestsKept, Known
  <1>3. ASSUME NEW j \in JobIds, OperatorRequeues(j) PROVE StoreInv'
    BY <1>3, MoveKeeps
    DEF OperatorRequeues, Requeue, QueueMove, storeVars, RecordsKept, RequestsKept, IngestsKept,
        Known
  <1>4. ASSUME TimePasses PROVE StoreInv'
    <2>1. \A w \in Workers : workers'[w].pc = workers[w].pc
      BY <1>4 DEF TimePasses, Tick, TypeOK
    <2> QED
      BY <1>4, <2>1, MoveKeeps
      DEF TimePasses, QueueMove, storeVars, RecordsKept, RequestsKept, IngestsKept, Known
  <1> QED
    BY <1>1, <1>2, <1>3, <1>4

LEMMA StoreIdle ==
  ASSUME StoreInv, UNCHANGED allVars PROVE StoreInv'
  BY MoveKeeps, TypedPart
  DEF StoreInv, Typed, allVars, storeVars, QueueMove, RecordsKept, RequestsKept, IngestsKept,
      Known, vars

LEMMA StoreStarts == StoreInit => StoreInv
  <1> SUFFICES ASSUME StoreInit PROVE StoreInv
    OBVIOUS
  <1>1. TypeOK
    BY LeaseInit DEF StoreInit, LeaseInv, BudgetInv
  <1>2. Typed
    BY Placeholders, StoreAssumption DEF StoreInit, Typed
  <1>3. RecordsKept /\ RequestsKept /\ IngestsKept
    BY DEF StoreInit, RecordsKept, RequestsKept, IngestsKept, Known, NoRecord, NoRequest, NotLoaded
  <1>4. JobsKept
    BY DEF StoreInit, Init, JobsKept, Holding, Idle
  <1> QED
    BY <1>1, <1>2, <1>3, <1>4, TypedPart DEF StoreInv

LEMMA StoreKept == StoreInv /\ [StoreNext]_allVars => StoreInv'
  BY ApiKeeps, IngestKeeps, QueueKeeps, StoreIdle DEF StoreNext, WorkerStep

LEMMA StoreAlways == StoreSpec => []StoreInv
  BY StoreStarts, StoreKept, PTL DEF StoreSpec

\* Records, chunks, requests and pipelines keep their types: a worker never
\* writes a chunk beyond the last one of a body, and the watermark only ever
\* holds a generation that some worker runs.
THEOREM StoreTypeCorrect == StoreSpec => []StoreTypeOK
  <1>1. StoreInv => StoreTypeOK
    BY DEF StoreInv
  <1> QED
    BY <1>1, StoreAlways, PTL

-----------------------------------------------------------------------------
(* The watermark.                                                          *)

LEMMA WatermarkStep ==
  ASSUME StoreInv, [StoreNext]_allVars, NEW r \in Records
  PROVE  records'[r].watermark >= records[r].watermark
  <1> USE TypedPart, StoreAssumption DEF StoreInv, Typed
  <1>0. /\ records[r] \in RecordType /\ records[r].watermark \in Nat
        /\ \A w \in Workers : Generation[w] \in Nat
    BY DEF RecordType, Generations
  <1>1. CASE records'[r].watermark = records[r].watermark
    BY <1>0, <1>1
  <1>2. ASSUME NEW h \in Handlers, NEW x \in Records, NEW s \in {"draft", "published"},
               CreateRecord(h, x, s)
        PROVE  records'[r].watermark >= records[r].watermark
    BY <1>0, <1>2 DEF CreateRecord, RecordsKept, Known
  <1>3. ASSUME NEW h \in Handlers, WritePatch(h)
        PROVE  records'[r].watermark = records[r].watermark
    <2>1. Patched(h).watermark = records[req[h].rec].watermark
      BY DEF Patched
    <2> QED
      BY <1>3, <2>1 DEF WritePatch
  <1>4. ASSUME NEW w \in Workers, RaiseWatermark(w)
        PROVE  records'[r].watermark >= records[r].watermark
    <2>1. Holding(w)
      BY <1>4 DEF RaiseWatermark, AtStep, Holding
    <2>2. RecordOf(w) \in Records
      BY <2>1, RecordInHand
    <2> QED
      BY <1>0, <1>4, <2>2 DEF RaiseWatermark, Raised, RecordType
  <1>5. CASE UNCHANGED records
    BY <1>0, <1>5
  <1> QED
    BY <1>2, <1>1, <1>3, <1>4, <1>5
    DEF StoreNext, Api, Serve, Request, ReadExisting, EnqueueEmbedJob, SyncChunkMeta,
        PurgeChunks, RequestDies, WorkerStep, Ingest, LoadRecord, Embed, UpsertChunk,
        DeleteOrphans, IngestThrows, QueueStep, WorkerCrash, OperatorRequeues, TimePasses,
        storeVars, allVars

\* Whichever generations of workers run side by side, and whatever PATCH
\* writes between a worker's read and its $max, no watermark goes back.
THEOREM WatermarkOnlyRises == StoreSpec => WatermarkNeverDrops
  <1>1. StoreInv /\ [StoreNext]_allVars =>
            [\A r \in Records : records'[r].watermark >= records[r].watermark]_allVars
    BY WatermarkStep
  <1> QED
    BY <1>1, StoreAlways, PTL DEF StoreSpec, WatermarkNeverDrops

-----------------------------------------------------------------------------
(* A text that a request is about to write stands nowhere yet, so a worker *)
(* of a generation that took its text earlier cannot know the present one. *)

\* Content ids up to edits have been handed out, and no others are in use.
Handed ==
    /\ \A r \in Records : records[r].body <= edits
    /\ \A r \in Records, g \in Generations, s \in Seqs : chunks[r][g][s].text <= edits
    /\ \A w \in Workers : ingest[w].body <= edits
    /\ \A h \in Handlers : req[h].content <= edits

\* The text that a request is about to write is its own.
WritesFresh ==
    \A h \in Handlers : req[h].pc = "writing" =>
        /\ \A r \in Records : records[r].body # req[h].content
        /\ \A r \in Records, g \in Generations, s \in Seqs :
               chunks[r][g][s].text # req[h].content
        /\ \A w \in Workers : ingest[w].body # req[h].content
        /\ \A k \in Handlers : k # h /\ req[k].pc = "writing" =>
               req[k].content # req[h].content

\* While a worker embeds an earlier text of its record, its generation holds
\* no chunk of the present one.
StaleBlind ==
    \A w \in Workers :
        LET r == RecordOf(w)
        IN  ingest[w].step # "load" /\ ingest[w].body # records[r].body =>
                \A s \in Seqs : chunks[r][Generation[w]][s].text # records[r].body

ServeInv == StoreInv /\ Handed /\ WritesFresh /\ StaleBlind

\* One worker process per embedding generation, as docker-compose.yml has it.
OneWorkerEach == \A v, w \in Workers : Generation[v] = Generation[w] => v = w

\* A worker that has loaded a record holds a job of it.
Loaded(w) ==
    /\ Holding(w) /\ jobs[workers[w].job].status # "none" /\ workers[w].job \in JobIds
    /\ RecordOf(w) \in Records /\ Known(RecordOf(w))
    /\ records[RecordOf(w)].body \in Contents /\ ingest[w].body \in Contents

LEMMA LoadedRecord ==
  /\ StoreInv => \A w \in Workers : ingest[w].step # "load" => Loaded(w)
  /\ StoreInv' => (\A w \in Workers : ingest[w].step # "load" => Loaded(w))'
  <1>1. StoreInv => \A w \in Workers : ingest[w].step # "load" => Loaded(w)
    BY RecordInHand DEF StoreInv, IngestsKept, JobsKept, Holding, Loaded
  <1>2. StoreInv' => (\A w \in Workers : ingest[w].step # "load" => Loaded(w))'
    BY <1>1, PTL
  <1> QED
    BY <1>1, <1>2

\* Steps that write no text: chunks are kept or deleted, a worker keeps its
\* text, drops it or takes the present one.
LEMMA NoTextKeeps ==
  ASSUME ServeInv, StoreInv', UNCHANGED edits,
         \A r \in Records : records'[r].body = records[r].body,
         \A r \in Records, g \in Generations, s \in Seqs :
             chunks'[r][g][s].text \in {0, chunks[r][g][s].text},
         \A w \in Workers :
             \/ ingest'[w].step = "load" /\ ingest'[w].body \in {0, ingest[w].body}
             \/ /\ ingest'[w].step # "load" /\ RecordOf(w)' \in Records
                /\ ingest'[w].body = records[RecordOf(w)'].body
             \/ /\ ingest[w].step # "load" /\ ingest'[w].body = ingest[w].body
                /\ RecordOf(w)' = RecordOf(w),
         \A h \in Handlers : /\ req'[h].content \in {0, req[h].content}
                             /\ req'[h].pc = "writing" => req'[h] = req[h]
  PROVE  ServeInv'
  <1> USE TypedPart, StoreAssumption DEF ServeInv, StoreInv, Typed
  <1>1. 0 <= edits /\ \A h \in Handlers : req[h].pc = "writing" => req[h].content # 0
    BY DEF RequestsKept, Contents
  <1>2. Handed'
    <2>1. \A r \in Records : records'[r].body <= edits'
      BY DEF Handed
    <2>2. ASSUME NEW r \in Records, NEW g \in Generations, NEW s \in Seqs
          PROVE  chunks'[r][g][s].text <= edits'
      <3>1. chunks'[r][g][s].text \in {0, chunks[r][g][s].text} /\ edits' = edits
        OBVIOUS
      <3>2. chunks[r][g][s].text <= edits
        BY DEF Handed
      <3>3. QED
        BY ONLY <1>1, <3>1, <3>2
    <2>3. \A w \in Workers : ingest'[w].body <= edits'
      BY <1>1 DEF Handed
    <2>4. \A h \in Handlers : req'[h].content <= edits'
      BY <1>1 DEF Handed
    <2> QED
      BY <2>1, <2>2, <2>3, <2>4 DEF Handed
  <1>3. WritesFresh'
    <2> SUFFICES ASSUME NEW h \in Handlers, req'[h].pc = "writing"
                 PROVE  /\ \A r \in Records : records'[r].body # req'[h].content
                        /\ \A r \in Records, g \in Generations, s \in Seqs :
                               chunks'[r][g][s].text # req'[h].content
                        /\ \A w \in Workers : ingest'[w].body # req'[h].content
                        /\ \A k \in Handlers : k # h /\ req'[k].pc = "writing" =>
                               req'[k].content # req'[h].content
      BY DEF WritesFresh
    <2>1. req'[h] = req[h] /\ req[h].pc = "writing"
      OBVIOUS
    <2>2. \A r \in Records : records[r].body # req[h].content
      BY <2>1 DEF WritesFresh
    <2>3. \A r \in Records, g \in Generations, s \in Seqs : chunks'[r][g][s].text # req[h].content
      <3>1. \A r \in Records, g \in Generations, s \in Seqs : chunks[r][g][s].text # req[h].content
        BY <2>1 DEF WritesFresh
      <3>2. req[h].content # 0
        BY <1>1, <2>1
      <3>3. ASSUME NEW r \in Records, NEW g \in Generations, NEW s \in Seqs
            PROVE  chunks'[r][g][s].text # req[h].content
        <4>1. chunks'[r][g][s].text \in {0, chunks[r][g][s].text}
          OBVIOUS
        <4> QED
          BY <3>1, <3>2, <4>1
      <3> QED
        BY <3>3
    <2>4. \A w \in Workers : ingest'[w].body # req[h].content
      BY <1>1, <2>1, <2>2 DEF WritesFresh
    <2> QED
      BY <2>1, <2>2, <2>3, <2>4 DEF WritesFresh
  <1>4. StaleBlind'
    <2> SUFFICES ASSUME NEW w \in Workers, ingest'[w].step # "load",
                        ingest'[w].body # records'[RecordOf(w)'].body, NEW s \in Seqs
                 PROVE  chunks'[RecordOf(w)'][Generation[w]][s].text # records'[RecordOf(w)'].body
      BY DEF StaleBlind
    <2>1. /\ RecordOf(w)' \in Records /\ records'[RecordOf(w)'].body \in Contents
      BY LoadedRecord DEF Loaded
    <2>2. ingest[w].step # "load" /\ ingest'[w].body = ingest[w].body /\ RecordOf(w)' = RecordOf(w)
      BY <2>1
    <2>3. Generation[w] \in Generations
      BY DEF Generations
    <2>4. chunks[RecordOf(w)][Generation[w]][s].text # records[RecordOf(w)].body
      BY <2>1, <2>2 DEF StaleBlind
    <2> QED
      BY <2>1, <2>2, <2>3, <2>4 DEF Contents
  <1> QED
    BY <1>2, <1>3, <1>4

\* Inserting a job moves the record of no worker that has loaded one.
LEMMA EnqueueMovesNobody ==
  ASSUME StoreInv, NEW j \in JobIds, Enqueue(j), NEW x, target' = [target EXCEPT ![j] = x]
  PROVE  \A w \in Workers : Holding(w) => RecordOf(w)' = RecordOf(w)
  <1> SUFFICES ASSUME NEW w \in Workers, Holding(w) PROVE RecordOf(w)' = RecordOf(w)
    OBVIOUS
  <1>1. workers[w].job \in JobIds /\ workers[w].job # j
    BY TypedPart DEF StoreInv, TypeOK, JobsKept, Enqueue
  <1> QED
    BY <1>1, TypedPart DEF StoreInv, Typed, RecordOf, Enqueue

\* The API.
LEMMA ServeApi ==
  ASSUME ServeInv, Api PROVE ServeInv'
  <1> USE TypedPart, StoreAssumption DEF ServeInv, StoreInv, Typed
  <1>0. StoreInv'
    BY ApiKeeps
  <1>1. NoRequest.content = 0 /\ NoRequest.pc = "idle"
    BY DEF NoRequest
  <1>2. edits \in Nat
    OBVIOUS
  <1>21. /\ \A x \in Records : records[x].body < edits + 1
         /\ \A x \in Records, g \in Generations, s \in Seqs : chunks[x][g][s].text < edits + 1
         /\ \A w \in Workers : ingest[w].body < edits + 1
         /\ \A k \in Handlers : req[k].content < edits + 1
    <2>1. \A x \in Records : records[x].body < edits + 1
      BY <1>2 DEF Handed, RecordType
    <2>2. \A x \in Records, g \in Generations, s \in Seqs : chunks[x][g][s].text < edits + 1
      BY <1>2 DEF Handed, ChunkType
    <2>3. \A w \in Workers : ingest[w].body < edits + 1
      BY <1>2 DEF Handed, IngestType
    <2>4. \A k \in Handlers : req[k].content < edits + 1
      BY <1>2 DEF Handed, RequestType
    <2> QED
      BY <2>1, <2>2, <2>3, <2>4
  <1>3. \A w \in Workers : ingest[w].step # "load" => RecordOf(w) \in Records /\ Known(RecordOf(w))
    BY LoadedRecord DEF Loaded
  <1>4. ASSUME NEW h \in Handlers, NEW r \in Records, NEW s \in {"draft", "published"},
               CreateRecord(h, r, s)
        PROVE  ServeInv'
    <2>1. /\ edits' = edits + 1 /\ ~Known(r) /\ UNCHANGED <<chunks, ingest, workers, target>>
          /\ records'[r].body = edits + 1 /\ \A x \in Records : x # r => records'[x] = records[x]
          /\ req'[h].pc # "writing" /\ req'[h].content = 0
          /\ \A k \in Handlers : k # h => req'[k] = req[k]
      BY <1>1, <1>4 DEF CreateRecord, FreshContent, vars, Known
    <2>2. Handed'
      <3>1. ASSUME NEW x \in Records PROVE records'[x].body <= edits + 1
        <4>1. CASE x = r
          BY <1>2, <2>1, <4>1
        <4>2. CASE x # r
          BY <1>2, <1>21, <2>1, <4>2 DEF RecordType
        <4> QED
          BY <4>1, <4>2
      <3>2. \A x \in Records, g \in Generations, n \in Seqs : chunks'[x][g][n].text <= edits + 1
        BY <1>2, <1>21, <2>1 DEF ChunkType
      <3>3. \A w \in Workers : ingest'[w].body <= edits + 1
        BY <1>2, <1>21, <2>1 DEF IngestType
      <3>4. ASSUME NEW k \in Handlers PROVE req'[k].content <= edits + 1
        <4>1. CASE k = h
          BY <1>2, <2>1, <4>1
        <4>2. CASE k # h
          BY <1>2, <1>21, <2>1, <4>2 DEF RequestType
        <4> QED
          BY <4>1, <4>2
      <3> QED
        BY <2>1, <3>1, <3>2, <3>3, <3>4 DEF Handed
    <2>3. WritesFresh'
      <3> SUFFICES ASSUME NEW k \in Handlers, req'[k].pc = "writing"
                   PROVE  /\ \A x \in Records : records'[x].body # req'[k].content
                          /\ \A i \in Handlers : i # k /\ req'[i].pc = "writing" =>
                                 req'[i].content # req'[k].content
        BY <2>1 DEF WritesFresh
      <3>1. \A i \in Handlers : req'[i].pc = "writing" => i # h /\ req'[i] = req[i]
        BY <2>1
      <3>2. req'[k] = req[k] /\ req[k].content # edits + 1
        BY <1>2, <1>21, <3>1 DEF RequestType
      <3> QED
        BY ZenonT(40), <2>1, <3>1, <3>2 DEF WritesFresh
    <2>4. \A w \in Workers : ingest'[w].step # "load" =>
              RecordOf(w)' = RecordOf(w) /\ records'[RecordOf(w)] = records[RecordOf(w)]
      BY <1>3, <2>1 DEF RecordOf
    <2>5. StaleBlind'
      BY ZenonT(40), <2>1, <2>4 DEF StaleBlind
    <2> QED
      BY <1>0, <2>2, <2>3, <2>5
  <1>5. ASSUME NEW h \in Handlers, NEW r \in Records, NEW p \in Patches, ReadExisting(h, r, p)
        PROVE  ServeInv'
    <2>1. /\ edits' = edits + 1 /\ UNCHANGED <<records, chunks, ingest, workers, target>>
          /\ req'[h].content = edits + 1 /\ \A k \in Handlers : k # h => req'[k] = req[k]
      BY <1>5 DEF ReadExisting, FreshContent, vars
    <2>2. Handed'
      <3>1. ASSUME NEW k \in Handlers PROVE req'[k].content <= edits + 1
        <4>1. CASE k = h
          BY <1>2, <2>1, <4>1
        <4>2. CASE k # h
          BY <1>2, <1>21, <2>1, <4>2 DEF RequestType
        <4> QED
          BY <4>1, <4>2
      <3>2. \A x \in Records : records'[x].body <= edits + 1
        BY <1>2, <1>21, <2>1 DEF RecordType
      <3>3. \A x \in Records, g \in Generations, s \in Seqs : chunks'[x][g][s].text <= edits + 1
        BY <1>2, <1>21, <2>1 DEF ChunkType
      <3>4. \A w \in Workers : ingest'[w].body <= edits + 1
        BY <1>2, <1>21, <2>1 DEF IngestType
      <3> QED
        BY <2>1, <3>1, <3>2, <3>3, <3>4 DEF Handed
    <2>3. WritesFresh'
      <3>1. /\ \A x \in Records : records[x].body # edits + 1
            /\ \A x \in Records, g \in Generations, s \in Seqs : chunks[x][g][s].text # edits + 1
            /\ \A w \in Workers : ingest[w].body # edits + 1
            /\ \A k \in Handlers : req[k].content # edits + 1
        <4>1. \A x \in Records : records[x].body # edits + 1
          BY <1>2, <1>21 DEF RecordType
        <4>2. \A x \in Records, g \in Generations, s \in Seqs : chunks[x][g][s].text # edits + 1
          BY <1>2, <1>21 DEF ChunkType
        <4>3. \A w \in Workers : ingest[w].body # edits + 1
          BY <1>2, <1>21 DEF IngestType
        <4>4. \A k \in Handlers : req[k].content # edits + 1
          BY <1>2, <1>21 DEF RequestType
        <4> QED
          BY <4>1, <4>2, <4>3, <4>4
      <3>2. ASSUME NEW k \in Handlers, req'[k].pc = "writing"
            PROVE  \/ k = h /\ req'[k].content = edits + 1
                   \/ k # h /\ req'[k] = req[k]
        BY <2>1
      <3> QED
        BY <2>1, <3>1, <3>2 DEF WritesFresh
    <2>4. StaleBlind'
      BY <2>1 DEF StaleBlind, RecordOf
    <2> QED
      BY <1>0, <2>2, <2>3, <2>4
  <1>6. ASSUME NEW h \in Handlers, WritePatch(h) PROVE ServeInv'
    <2> DEFINE r == req[h].rec
               b == IF req[h].patch.body THEN req[h].content ELSE records[r].body
    <2>1. /\ r \in Records /\ req[h].pc = "writing" /\ req[h].content \in 0 .. MaxEdits
          /\ records' = [records EXCEPT ![r] = Patched(h)] /\ Patched(h).body = b
          /\ UNCHANGED <<chunks, ingest, workers, target, edits>>
      BY <1>6 DEF WritePatch, RequestType, Patched, vars
    <2>2. /\ req'[h].pc # "writing" /\ req'[h].content \in {0, req[h].content}
          /\ \A k \in Handlers : k # h => req'[k] = req[k]
      BY <1>1, <1>6 DEF WritePatch, RequestType
    <2>3. /\ \A x \in Records : x # r => records'[x] = records[x]
          /\ records'[r].body = b
      BY <2>1
    <2>4. Handed'
      <3>1. b <= edits
        BY <2>1 DEF Handed
      <3>2. \A k \in Handlers : req'[k].content <= edits
        BY <1>2, <2>2 DEF Handed
      <3> QED
        BY <2>1, <2>3, <3>1, <3>2 DEF Handed
    <2>5. WritesFresh'
      <3> SUFFICES ASSUME NEW k \in Handlers, req'[k].pc = "writing"
                   PROVE  \A x \in Records : records'[x].body # req[k].content
        <4>1. \A i \in Handlers : req'[i].pc = "writing" => req'[i] = req[i]
          BY <2>2
        <4> QED
          BY <2>1, <4>1 DEF WritesFresh
      <3>1. k # h /\ req'[k] = req[k]
        BY <2>2
      <3>2. b # req[k].content
        BY <2>1, <3>1 DEF WritesFresh
      <3> QED
        BY <2>3, <3>1, <3>2 DEF WritesFresh
    <2>6. StaleBlind'
      <3> SUFFICES ASSUME NEW w \in Workers, ingest[w].step # "load", NEW s \in Seqs,
                          ingest[w].body # records'[RecordOf(w)].body
                   PROVE  chunks[RecordOf(w)][Generation[w]][s].text # records'[RecordOf(w)].body
        BY <2>1 DEF StaleBlind, RecordOf
      <3>1. RecordOf(w) \in Records /\ Generation[w] \in Generations
        BY <1>3 DEF Generations
      <3>2. CASE RecordOf(w) = r /\ req[h].patch.body
        BY <2>1, <2>3, <3>1, <3>2 DEF WritesFresh
      <3>3. CASE ~(RecordOf(w) = r /\ req[h].patch.body)
        BY <2>3, <3>1, <3>3 DEF StaleBlind
      <3> QED
        BY <3>2, <3>3
    <2> QED
      BY <1>0, <2>4, <2>5, <2>6
  <1>7. ASSUME NEW h \in Handlers, NEW f, Following(h, f)
        PROVE  \A k \in Handlers : /\ req'[k].content \in {0, req[k].content}
                                   /\ req'[k].pc = "writing" => req'[k] = req[k]
    BY <1>1, <1>7 DEF Following, RequestType
  <1>8. ASSUME NEW h \in Handlers, EnqueueEmbedJob(h) PROVE ServeInv'
    <2>1. PICK j \in JobIds : Enqueue(j) /\ target' = [target EXCEPT ![j] = req[h].rec]
      BY <1>8 DEF EnqueueEmbedJob
    <2>2. \A w \in Workers : ingest[w].step # "load" => RecordOf(w)' = RecordOf(w)
      BY <2>1, EnqueueMovesNobody, LoadedRecord DEF Loaded
    <2> QED
      BY <1>0, <1>7, <1>8, <2>2, NoTextKeeps DEF EnqueueEmbedJob
  <1>9. ASSUME NEW h \in Handlers, SyncChunkMeta(h) \/ PurgeChunks(h) PROVE ServeInv'
    <2>1. \A x \in Records, g \in Generations, s \in Seqs :
              chunks'[x][g][s].text \in {0, chunks[x][g][s].text}
      <3>1. req[h].rec \in Records /\ NoChunk.text = 0
        BY DEF RequestType, NoChunk
      <3>2. CASE PurgeChunks(h)
        BY <3>1, <3>2 DEF PurgeChunks
      <3>3. CASE SyncChunkMeta(h)
        <4> DEFINE c(g, s) == chunks[req[h].rec][g][s]
                   d(g, s) == IF c(g, s) = NoChunk THEN NoChunk
                              ELSE [c(g, s) EXCEPT !.tags = req[h].tags, !.flags = req[h].flags]
        <4>1. chunks' = [chunks EXCEPT ![req[h].rec] =
                             [g \in Generations |-> [s \in Seqs |-> d(g, s)]]]
          BY <3>3 DEF SyncChunkMeta
        <4>2. \A g \in Generations, s \in Seqs : d(g, s).text \in {0, c(g, s).text}
          BY <3>1 DEF ChunkType
        <4> QED
          BY <3>1, <4>1, <4>2
      <3> QED
        BY <1>9, <3>2, <3>3
    <2>2. UNCHANGED <<workers, target, ingest, records, edits>>
      BY <1>9 DEF SyncChunkMeta, PurgeChunks, vars
    <2>3. \A w \in Workers : RecordOf(w)' = RecordOf(w)
      BY <2>2 DEF RecordOf
    <2> QED
      BY <1>0, <1>7, <1>9, <2>1, <2>2, <2>3, NoTextKeeps DEF SyncChunkMeta, PurgeChunks
  <1>10. ASSUME NEW h \in Handlers, RequestDies(h) PROVE ServeInv'
    <2>1. \A k \in Handlers : /\ req'[k].content \in {0, req[k].content}
                              /\ req'[k].pc = "writing" => req'[k] = req[k]
      BY <1>1, <1>10 DEF RequestDies
    <2>2. UNCHANGED <<workers, target, ingest, records, chunks, edits>>
      BY <1>10 DEF RequestDies, vars
    <2>3. \A w \in Workers : RecordOf(w)' = RecordOf(w)
      BY <2>2 DEF RecordOf
    <2> QED
      BY <1>0, <2>1, <2>2, <2>3, NoTextKeeps
  <1> QED
    BY <1>4, <1>5, <1>6, <1>8, <1>9, <1>10 DEF Api, Serve, Request

\* The pipeline of a worker.
LEMMA ServeIngest ==
  ASSUME OneWorkerEach, ServeInv, NEW w \in Workers, Ingest(w) PROVE ServeInv'
  <1> USE TypedPart, StoreAssumption DEF ServeInv, StoreInv, Typed
  <1> DEFINE r == RecordOf(w)
             quiet(v) == \/ ingest'[v].step = "load" /\ ingest'[v].body \in {0, ingest[v].body}
                         \/ /\ ingest'[v].step # "load" /\ RecordOf(v)' \in Records
                            /\ ingest'[v].body = records[RecordOf(v)'].body
                         \/ /\ ingest[v].step # "load" /\ ingest'[v].body = ingest[v].body
                            /\ RecordOf(v)' = RecordOf(v)
  <1>0. StoreInv'
    BY IngestKeeps
  <1>1. Holding(w) /\ workers[w].pc = "ingesting"
    BY DEF Ingest, LoadRecord, Embed, UpsertChunk, DeleteOrphans, RaiseWatermark, IngestThrows,
           AtStep, IngestSucceeds, IngestFails, Holding
  <1>2. r \in Records /\ Generation[w] \in Generations
    BY <1>1, RecordInHand
  <1>3. \A v \in Workers : RecordOf(v)' = RecordOf(v)
    <2>1. UNCHANGED target /\ (UNCHANGED vars \/ IngestSucceeds(w) \/ \E p \in BOOLEAN : IngestFails(w, p))
      BY DEF Ingest, LoadRecord, Embed, UpsertChunk, DeleteOrphans, RaiseWatermark, IngestThrows
    <2>2. \A v \in Workers : workers'[v].job = workers[v].job
      <3>1. CASE UNCHANGED vars
        BY <3>1 DEF vars
      <3>2. CASE IngestSucceeds(w)
        BY <3>2 DEF IngestSucceeds, TypeOK
      <3>3. ASSUME NEW p \in BOOLEAN, IngestFails(w, p)
            PROVE  \A v \in Workers : workers'[v].job = workers[v].job
        BY <3>3 DEF IngestFails, TypeOK
      <3> QED
        BY <2>1, <3>1, <3>2, <3>3
    <2> QED
      BY <2>1, <2>2 DEF RecordOf
  <1>4. \A v \in Workers : v # w => ingest'[v] = ingest[v]
    BY DEF Ingest, LoadRecord, Embed, UpsertChunk, DeleteOrphans, RaiseWatermark, IngestThrows
  <1>5. \A v \in Workers : v # w => quiet(v)
    <2>1. \A v \in Workers : ingest[v].step # "load" \/ ingest[v].step = "load"
      OBVIOUS
    <2> QED
      BY <1>3, <1>4, <2>1
  <1>6. NotLoaded.step = "load" /\ NotLoaded.body = 0
    BY DEF NotLoaded
  <1>7. CASE LoadRecord(w)
    <2>1. ingest'[w].body = records[r].body /\ ingest'[w].step # "load"
      BY <1>7 DEF LoadRecord
    <2>2. \A v \in Workers : quiet(v)
      BY <1>2, <1>3, <1>5, <2>1
    <2> QED
      BY <1>0, <1>7, <2>2, NoTextKeeps DEF LoadRecord
  <1>8. CASE Embed(w)
    <2>1. ingest'[w].body = ingest[w].body /\ ingest[w].step # "load"
      BY <1>8 DEF Embed, AtStep, IngestType
    <2>2. \A v \in Workers : quiet(v)
      BY <1>3, <1>5, <2>1
    <2> QED
      BY <1>0, <1>8, <2>2, NoTextKeeps DEF Embed
  <1>9. CASE DeleteOrphans(w)
    <2>1. ingest'[w].body = ingest[w].body /\ ingest[w].step # "load"
      BY <1>9 DEF DeleteOrphans, AtStep, IngestType
    <2>2. \A v \in Workers : quiet(v)
      BY <1>3, <1>5, <2>1
    <2>3. \A x \in Records, g \in Generations, n \in Seqs :
              chunks'[x][g][n].text \in {0, chunks[x][g][n].text}
      BY <1>2, <1>9 DEF DeleteOrphans, NoChunk
    <2> QED
      BY <1>0, <1>9, <2>2, <2>3, NoTextKeeps DEF DeleteOrphans
  <1>10. CASE RaiseWatermark(w)
    <2>1. ingest'[w] = NotLoaded
      BY <1>10 DEF RaiseWatermark
    <2>2. \A v \in Workers : quiet(v)
      BY <1>5, <1>6, <2>1
    <2>3. \A x \in Records : records'[x].body = records[x].body
      BY <1>2, <1>10 DEF RaiseWatermark, RecordType
    <2> QED
      BY <1>0, <1>10, <2>2, <2>3, NoTextKeeps DEF RaiseWatermark
  <1>11. ASSUME NEW p \in BOOLEAN, IngestThrows(w, p) PROVE ServeInv'
    <2>1. ingest'[w] = NotLoaded
      BY <1>11 DEF IngestThrows
    <2>2. \A v \in Workers : quiet(v)
      BY <1>5, <1>6, <2>1
    <2> QED
      BY <1>0, <1>11, <2>2, NoTextKeeps DEF IngestThrows
  <1>12. CASE UpsertChunk(w)
    <2> DEFINE n == ingest[w].seq
               b == ingest[w].body
    <2>1. /\ UNCHANGED <<records, req, edits>>
          /\ ingest[w].step # "load" /\ ingest'[w].body = b /\ n \in Seqs
      <3>1. UNCHANGED <<records, req, edits>> /\ ingest[w].step = "upsert"
        BY <1>12 DEF UpsertChunk, AtStep
      <3>2. ingest'[w].body = b
        BY <1>12 DEF UpsertChunk, IngestType
      <3>3. b \in Contents /\ n <= ChunkCount[b] /\ n \in 1 .. MaxSeq + 1
        BY <3>1 DEF IngestsKept, IngestType
      <3>4. n \in Seqs
        BY <3>3 DEF Seqs
      <3> QED
        BY <3>1, <3>2, <3>4
    <2>2. /\ chunks'[r][Generation[w]][n].text = b
          /\ \A x \in Records, g \in Generations, m \in Seqs :
                 <<x, g, m>> # <<r, Generation[w], n>> => chunks'[x][g][m] = chunks[x][g][m]
      BY <1>2, <1>12, <2>1 DEF UpsertChunk, UpsertedChunk
    <2>3. ASSUME NEW x \in Records, NEW g \in Generations, NEW m \in Seqs
          PROVE  chunks'[x][g][m].text \in {b, chunks[x][g][m].text}
      BY <2>2
    <2>4. Handed'
      BY ZenonT(40), <1>4, <2>1, <2>3 DEF Handed
    <2>5. WritesFresh'
      <3> SUFFICES ASSUME NEW h \in Handlers, req[h].pc = "writing"
                   PROVE  /\ \A x \in Records, g \in Generations, m \in Seqs :
                                 chunks'[x][g][m].text # req[h].content
                          /\ \A v \in Workers : ingest'[v].body # req[h].content
        BY <2>1 DEF WritesFresh
      <3>1. \A v \in Workers : ingest[v].body # req[h].content
        BY DEF WritesFresh
      <3>2. \A x \in Records, g \in Generations, m \in Seqs :
                chunks[x][g][m].text # req[h].content
        BY DEF WritesFresh
      <3>3. \A v \in Workers : ingest'[v].body # req[h].content
        BY <1>4, <2>1, <3>1
      <3>4. ASSUME NEW x \in Records, NEW g \in Generations, NEW m \in Seqs
            PROVE  chunks'[x][g][m].text # req[h].content
        BY ZenonT(40), <2>3, <3>1, <3>2
      <3> QED
        BY <3>3, <3>4
    <2>6. StaleBlind'
      <3> SUFFICES ASSUME NEW v \in Workers, ingest'[v].step # "load", NEW m \in Seqs,
                          ingest'[v].body # records[RecordOf(v)].body
                   PROVE  chunks'[RecordOf(v)][Generation[v]][m].text # records[RecordOf(v)].body
        BY <1>3, <2>1 DEF StaleBlind
      <3>1. /\ ingest[v].step # "load" /\ ingest[v].body # records[RecordOf(v)].body
            /\ RecordOf(v) \in Records /\ Generation[v] \in Generations
        BY <1>4, <2>1, LoadedRecord DEF Loaded, Generations
      <3>2. CASE v = w
        BY <2>3, <3>1, <3>2 DEF StaleBlind
      <3>3. CASE v # w
        <4>1. Generation[v] # Generation[w]
          BY <3>3 DEF OneWorkerEach
        <4>2. chunks'[RecordOf(v)][Generation[v]][m] = chunks[RecordOf(v)][Generation[v]][m]
          BY <2>2, <3>1, <4>1
        <4> QED
          BY <3>1, <4>2 DEF StaleBlind
      <3> QED
        BY <3>2, <3>3
    <2> QED
      BY <1>0, <2>4, <2>5, <2>6
  <1> QED
    BY <1>7, <1>8, <1>9, <1>10, <1>11, <1>12 DEF Ingest

\* Claims, outcomes, crashes, restarts, operators and time.
LEMMA ServeQueue ==
  ASSUME ServeInv,
         \/ \E w \in Workers : QueueStep(w) \/ WorkerCrash(w)
         \/ \E j \in JobIds : OperatorRequeues(j)
         \/ TimePasses
         \/ UNCHANGED allVars
  PROVE  ServeInv'
  <1> USE TypedPart DEF ServeInv, StoreInv, Typed
  <1>0. StoreInv'
    BY QueueKeeps, StoreIdle
  <1>1. UNCHANGED <<records, chunks, req, edits, target>>
    BY DEF QueueStep, WorkerCrash, OperatorRequeues, TimePasses, storeVars, allVars
  <1>2. ASSUME NEW v \in Workers
        PROVE  \/ ingest'[v].step = "load" /\ ingest'[v].body \in {0, ingest[v].body}
               \/ /\ ingest[v].step # "load" /\ ingest'[v].body = ingest[v].body
                  /\ RecordOf(v)' = RecordOf(v)
    <2>1. ASSUME NEW w \in Workers, WorkerCrash(w), v = w
          PROVE  ingest'[v].step = "load" /\ ingest'[v].body = 0
      BY <2>1 DEF WorkerCrash, NotLoaded
    <2>2. ASSUME NEW w \in Workers, QueueStep(w) \/ (WorkerCrash(w) /\ v # w)
          PROVE  /\ ingest'[v] = ingest[v]
                 /\ workers[v].pc = "ingesting" => workers'[v] = workers[v]
      BY <2>2, IngestingStays
    <2>3. ASSUME (\E j \in JobIds : OperatorRequeues(j)) \/ TimePasses \/ UNCHANGED allVars
          PROVE  ingest'[v] = ingest[v] /\ workers'[v].job = workers[v].job
      BY <2>3 DEF OperatorRequeues, Requeue, TimePasses, Tick, TypeOK, storeVars, allVars, vars
    <2>4. ingest[v].step # "load" => workers[v].pc = "ingesting"
      BY DEF IngestsKept
    <2>5. ASSUME ingest'[v] = ingest[v],
                 workers[v].pc = "ingesting" => workers'[v].job = workers[v].job
          PROVE  \/ ingest'[v].step = "load" /\ ingest'[v].body \in {0, ingest[v].body}
                 \/ /\ ingest[v].step # "load" /\ ingest'[v].body = ingest[v].body
                    /\ RecordOf(v)' = RecordOf(v)
      BY <1>1, <2>4, <2>5 DEF RecordOf
    <2> QED
      BY <2>1, <2>2, <2>3, <2>5
  <1> QED
    BY <1>0, <1>1, <1>2, NoTextKeeps

LEMMA ServeStarts == StoreInit => ServeInv
  <1> SUFFICES ASSUME StoreInit PROVE ServeInv
    OBVIOUS
  <1>1. Handed /\ WritesFresh /\ StaleBlind
    BY DEF StoreInit, Handed, WritesFresh, StaleBlind, NoRecord, NoChunk, NotLoaded, NoRequest,
           Generations
  <1> QED
    BY <1>1, StoreStarts DEF ServeInv

LEMMA ServeStep == OneWorkerEach /\ ServeInv /\ [StoreNext]_allVars => ServeInv'
  BY ServeApi, ServeIngest, ServeQueue DEF StoreNext, WorkerStep

\* A pipeline that works for the present text rewrites what is there; one that
\* works for an earlier text finds nothing of the present one to harm.
LEMMA ServedStep ==
  ASSUME ServeInv, NEW r \in Records, NEW g \in Generations, Indexed(r, g),
         \A b \in Contents : ChunkCount[b] > 0,
         NEW w \in Workers, Ingest(w)
  PROVE  Indexed(r, g)'
  <1> USE TypedPart, StoreAssumption DEF ServeInv, StoreInv, Typed
  <1> DEFINE b == records[r].body
  <1>1. Known(r) /\ b \in Contents /\ ChunkCount[b] \in 0 .. MaxSeq
    BY DEF Indexed, Known, RecordsKept
  <1>2. records'[r].status = records[r].status /\ records'[r].body = b
    <2>1. CASE RaiseWatermark(w)
      BY <2>1 DEF RaiseWatermark, RecordType
    <2>2. CASE UNCHANGED records
      BY <2>2
    <2> QED
      BY <2>1, <2>2
      DEF Ingest, LoadRecord, Embed, UpsertChunk, DeleteOrphans, IngestThrows
  <1>3. ASSUME \A s \in Seqs : chunks'[r][g][s].text = chunks[r][g][s].text
        PROVE  Indexed(r, g)'
    BY <1>2, <1>3 DEF Indexed
  <1>4. ASSUME ingest[w].step # "load", RecordOf(w) = r, Generation[w] = g
        PROVE  ingest[w].body = b
    <2>1. 1 \in Seqs /\ 1 <= ChunkCount[b]
      BY <1>1 DEF Seqs
    <2>2. chunks[r][g][1].text = b
      BY <2>1 DEF Indexed
    <2> QED
      BY <1>4, <2>1, <2>2 DEF StaleBlind
  <1>5. CASE UNCHANGED chunks
    BY <1>3, <1>5
  <1>6. CASE UpsertChunk(w) \/ DeleteOrphans(w)
    <2>1. /\ ingest[w].step # "load" /\ RecordOf(w) \in Records
          /\ Generation[w] \in Generations
      BY <1>6, LoadedRecord DEF UpsertChunk, DeleteOrphans, AtStep, Loaded, Generations
    <2>2. CASE RecordOf(w) = r /\ Generation[w] = g
      <3>1. ingest[w].body = b
        BY <1>4, <2>1, <2>2
      <3>2. CASE UpsertChunk(w)
        <4>1. ingest[w].seq <= ChunkCount[b]
          BY <3>1, <3>2 DEF UpsertChunk, AtStep, IngestsKept
        <4>2. \A s \in Seqs : chunks'[r][g][s].text =
                                 IF s = ingest[w].seq THEN b ELSE chunks[r][g][s].text
          BY <2>2, <3>1, <3>2 DEF UpsertChunk, UpsertedChunk
        <4> QED
          BY <1>2, <4>1, <4>2 DEF Indexed
      <3>3. CASE DeleteOrphans(w)
        <4>1. \A s \in Seqs : <<g, s>> \in Orphans(w) <=> s > ChunkCount[b]
          BY <2>2, <3>1 DEF Orphans
        <4>2. \A s \in Seqs : chunks'[r][g][s] =
                                 IF <<g, s>> \in Orphans(w) THEN NoChunk ELSE chunks[r][g][s]
          BY <2>2, <3>3 DEF DeleteOrphans
        <4>3. \A s \in Seqs : chunks'[r][g][s].text =
                                 IF s > ChunkCount[b] THEN 0 ELSE chunks[r][g][s].text
          <5>1. NoChunk.text = 0
            BY DEF NoChunk
          <5> QED
            BY <4>1, <4>2, <5>1
        <4> QED
          BY <1>1, <1>2, <4>3 DEF Indexed, Seqs
      <3> QED
        BY <1>6, <3>2, <3>3
    <2>3. CASE RecordOf(w) # r \/ Generation[w] # g
      <3>1. CASE UpsertChunk(w)
        BY <1>3, <2>1, <2>3, <3>1 DEF UpsertChunk
      <3>2. CASE DeleteOrphans(w)
        <4>1. RecordOf(w) = r => \A s \in Seqs : <<g, s>> \notin Orphans(w)
          BY <2>3 DEF Orphans
        <4> QED
          BY <1>3, <2>1, <3>2, <4>1 DEF DeleteOrphans
      <3> QED
        BY <1>6, <3>1, <3>2
    <2> QED
      BY <2>2, <2>3
  <1> QED
    BY <1>5, <1>6
    DEF Ingest, LoadRecord, Embed, RaiseWatermark, IngestThrows

\* With one worker per generation, and texts that have at least one chunk, an
\* indexed record stays found throughout every later embedding of it, whoever
\* embeds it and however many requests are in flight.
THEOREM IndexedStaysServed ==
  ASSUME OneWorkerEach, \A b \in Contents : ChunkCount[b] > 0
  PROVE  StoreSpec => GenerationsStayServed
  <1>1. ServeInv /\ [StoreNext]_allVars => ServeInv'
    BY ServeStep
  <1>2. ServeInv /\ [StoreNext]_allVars =>
            [\A r \in Records : \A g \in Generations :
                Indexed(r, g) /\ (\E w \in Workers : Ingest(w)) => Indexed(r, g)']_allVars
    BY ServedStep
  <1> QED
    BY <1>1, <1>2, ServeStarts, PTL DEF StoreSpec, GenerationsStayServed

-----------------------------------------------------------------------------
(* A published record that was not given up is pledged to the index, or is *)
(* in it and no worker is touching it.                                     *)

\* Worker w has loaded the present text of its record and every chunk that
\* it should have written by now is there.
Faithful(w) ==
    LET r == RecordOf(w)
        b == ingest[w].body
        text(s) == chunks[r][Generation[w]][s].text
    IN  /\ b = records[r].body
        /\ ingest[w].step = "upsert" => \A s \in Seqs : s < ingest[w].seq => text(s) = b
        /\ ingest[w].step \in {"orphans", "raise"} =>
               \A s \in Seqs : s <= ChunkCount[b] => text(s) = b
        /\ ingest[w].step = "raise" =>
               \A s \in Seqs : s > ChunkCount[b] => text(s) = 0

\* Whoever holds job j will embed the present text or give the job back.
Unspoiled(j) ==
    \A w \in Workers : Holding(w) /\ workers[w].job = j =>
        \/ workers[w].pc = "failing"
        \/ workers[w].pc = "ingesting" /\ (ingest[w].step = "load" \/ Faithful(w))

PledgedBy(j, r) ==
    target[j] = r /\ jobs[j].status \in {"pending", "running"} /\ Unspoiled(j)

\* A request is about to insert a job of r.
Ordered(r) ==
    \E h \in Handlers : /\ req[h].pc = "following" /\ req[h].rec = r
                        /\ "enqueue" \in req[h].todo

Pledged(r) == Ordered(r) \/ \E j \in JobIds : PledgedBy(j, r)

\* No worker is ingesting r.
Resting(r) == \A w \in Workers : workers[w].pc = "ingesting" => RecordOf(w) # r

Settled(r, g) == Indexed(r, g) /\ records[r].watermark = g

\* The records the index answers for.
Owed(r) == records[r].status = "published" /\ ~GivenUp(r)

\* A job in hand is running, or done when a lost reply said otherwise.
HeldRunning ==
    \A w \in Workers : Holding(w) =>
        \/ jobs[workers[w].job].status = "running"
        \/ jobs[workers[w].job].status = "done" /\ workers[w].pc = "failing"

\* The status a PATCH has read is still that of the record when it writes, and
\* the chunks it is about to delete belong to a record published no longer.
ReadsHold ==
    \A h \in Handlers :
        /\ req[h].pc = "writing" => req[h].was = records[req[h].rec].status
        /\ req[h].pc = "following" /\ "purge" \in req[h].todo =>
               records[req[h].rec].status # "published"

\* What a step may do to record r: once owed it is pledged, a pledge is kept
\* or redeemed, and what nobody works on stays as it is.
Carries(r, g) ==
    /\ Owed(r)' => Owed(r) \/ Pledged(r)'
    /\ Pledged(r) /\ Owed(r)' => Pledged(r)' \/ (Resting(r) /\ Settled(r, g))'
    /\ Resting(r) /\ Owed(r) /\ Owed(r)' =>
           \/ Pledged(r)'
           \/ /\ Resting(r)' /\ records'[r].watermark = records[r].watermark
              /\ Indexed(r, g) => Indexed(r, g)'

\* Steps that leave r, its jobs and its workers alone.
LEMMA Untouched ==
  ASSUME StoreInv, NEW r \in Records, NEW g \in Generations, UNCHANGED target,
         /\ records'[r].status = records[r].status
         /\ records'[r].body = records[r].body
         /\ records'[r].watermark = records[r].watermark,
         \A x \in Generations, s \in Seqs : chunks'[r][x][s].text = chunks[r][x][s].text,
         \A j \in JobIds : jobs'[j].status = jobs[j].status,
         \A w \in Workers : Holding(w)' => Holding(w) /\ workers'[w].job = workers[w].job,
         \A w \in Workers : Holding(w)' /\ RecordOf(w) = r =>
             workers'[w].pc = workers[w].pc /\ ingest'[w] = ingest[w],
         Ordered(r) => Ordered(r)',
         r \in unqueued => r \in unqueued'
  PROVE  Carries(r, g)
  <1> USE TypedPart, StoreAssumption DEF StoreInv, Typed
  <1>1. Owed(r)' => Owed(r)
    BY DEF Owed, GivenUp
  <1>2. Indexed(r, g)' <=> Indexed(r, g)
    BY DEF Indexed
  <1>3. Resting(r) => Resting(r)'
    BY DEF Resting, RecordOf, Holding
  <1>4. ASSUME NEW w \in Workers, Holding(w)', RecordOf(w) = r, Faithful(w) PROVE Faithful(w)'
    <2>1. Generation[w] \in Generations /\ RecordOf(w)' = r /\ ingest'[w] = ingest[w]
      BY <1>4 DEF Generations, RecordOf
    <2> QED
      BY <1>4, <2>1 DEF Faithful
  <1>5. ASSUME NEW j \in JobIds, PledgedBy(j, r) PROVE PledgedBy(j, r)'
    <2> SUFFICES ASSUME NEW w \in Workers, Holding(w)', workers'[w].job = j
                 PROVE  \/ workers'[w].pc = "failing"
                        \/ workers'[w].pc = "ingesting" /\ (ingest'[w].step = "load" \/ Faithful(w)')
      BY <1>5 DEF PledgedBy, Unspoiled
    <2>1. Holding(w) /\ workers[w].job = j /\ RecordOf(w) = r
      BY <1>5 DEF PledgedBy, RecordOf
    <2> QED
      BY <1>4, <1>5, <2>1 DEF PledgedBy, Unspoiled
  <1>6. Pledged(r) => Pledged(r)'
    BY <1>5 DEF Pledged, Ordered
  <1> QED
    BY <1>1, <1>2, <1>3, <1>6 DEF Carries

\* Steps that rewrite one job document.
LEMMA OneDocument ==
  ASSUME StoreInv, NEW r \in Records, NEW g \in Generations,
         UNCHANGED <<records, chunks, target, req, unqueued>>,
         NEW j \in JobIds, NEW d, jobs' = [jobs EXCEPT ![j] = d], d.status \in Statuses,
         \A w \in Workers : Holding(w)' /\ workers'[w].job # j =>
             workers'[w] = workers[w] /\ ingest'[w] = ingest[w],
         \A w \in Workers : workers'[w].pc = "ingesting" /\ workers'[w].job = j =>
             d.status = "running",
         d.status \in {"pending", "running"} => Unspoiled(j)',
         d.status \in {"none", "done"} =>
             /\ jobs[j].status \notin {"failed", "dead"}
             /\ jobs[j].status \in {"pending", "running"} => ~Unspoiled(j)
  PROVE  Carries(r, g)
  <1> USE TypedPart, StoreAssumption DEF StoreInv, Typed, TypeOK
  <1>1. jobs'[j] = d /\ \A i \in JobIds : i # j => jobs'[i] = jobs[i]
    OBVIOUS
  <1>2. ASSUME target[j] = r, d.status \in {"pending", "running"} PROVE Pledged(r)'
    BY <1>1, <1>2 DEF Pledged, PledgedBy
  <1>3. Owed(r)' => Owed(r) \/ Pledged(r)'
    <2> SUFFICES ASSUME Owed(r)', ~Owed(r) PROVE Pledged(r)'
      OBVIOUS
    <2>1. PICK i \in JobIds : target[i] = r /\ jobs[i].status \in {"failed", "dead"}
      BY DEF Owed, GivenUp
    <2>2. jobs'[i].status \notin {"failed", "dead"}
      BY <2>1 DEF Owed, GivenUp
    <2>3. i = j
      BY <1>1, <2>1, <2>2
    <2> QED
      BY <1>1, <1>2, <2>1, <2>2, <2>3 DEF Statuses
  <1>4. ASSUME NEW i \in JobIds, i # j, PledgedBy(i, r) PROVE PledgedBy(i, r)'
    <2> SUFFICES ASSUME NEW w \in Workers, Holding(w)', workers'[w].job = i
                 PROVE  \/ workers'[w].pc = "failing"
                        \/ workers'[w].pc = "ingesting" /\ (ingest'[w].step = "load" \/ Faithful(w)')
      BY <1>1, <1>4 DEF PledgedBy, Unspoiled
    <2>1. workers'[w] = workers[w] /\ ingest'[w] = ingest[w]
      BY <1>4
    <2>2. Faithful(w) => Faithful(w)'
      BY <2>1 DEF Faithful, RecordOf
    <2> QED
      BY <1>4, <2>1, <2>2 DEF PledgedBy, Unspoiled, Holding
  <1>5. Pledged(r) /\ Owed(r)' => Pledged(r)'
    <2>1. ASSUME PledgedBy(j, r), Owed(r)' PROVE Pledged(r)'
      <3>1. d.status \notin {"failed", "dead"}
        BY <1>1, <2>1 DEF PledgedBy, Owed, GivenUp
      <3>2. d.status \notin {"none", "done"}
        BY <2>1 DEF PledgedBy
      <3> QED
        BY <1>2, <2>1, <3>1, <3>2 DEF Statuses, PledgedBy
    <2> QED
      BY <1>4, <2>1 DEF Pledged, Ordered
  <1>6. Indexed(r, g) => Indexed(r, g)'
    BY DEF Indexed
  <1>7. Resting(r) => Resting(r)' \/ Pledged(r)'
    <2> SUFFICES ASSUME Resting(r), NEW w \in Workers, workers'[w].pc = "ingesting", RecordOf(w)' = r
                 PROVE  Pledged(r)'
      BY DEF Resting
    <2>1. workers'[w].job = j
      BY DEF Resting, RecordOf, Holding
    <2> QED
      BY <1>2, <2>1 DEF RecordOf
  <1> QED
    BY <1>3, <1>5, <1>6, <1>7 DEF Carries

\* An inserted job is a pledge, and no other record hears of it.
LEMMA InsertionCarries ==
  ASSUME StoreInv, NEW r \in Records, NEW g \in Generations,
         NEW j \in JobIds, Enqueue(j), NEW x \in Records,
         target' = [target EXCEPT ![j] = x], UNCHANGED <<records, chunks, ingest>>,
         r # x => (Ordered(r) => Ordered(r)') /\ (r \in unqueued => r \in unqueued')
  PROVE  Carries(r, g)
  <1> USE TypedPart, StoreAssumption DEF StoreInv, Typed, TypeOK
  <1>1. /\ jobs[j].status = "none" /\ jobs'[j].status = "pending" /\ target'[j] = x
        /\ UNCHANGED workers
        /\ \A i \in JobIds : i # j => jobs'[i] = jobs[i] /\ target'[i] = target[i]
    BY DEF Enqueue
  <1>2. \A w \in Workers : Holding(w) => workers[w].job \in JobIds \ {j} /\ RecordOf(w)' = RecordOf(w)
    BY <1>1, EnqueueMovesNobody DEF JobsKept
  <1>3. CASE r = x
    <2>1. Unspoiled(j)'
      BY <1>1, <1>2 DEF Unspoiled, Holding
    <2>2. Pledged(r)'
      BY <1>1, <1>3, <2>1 DEF Pledged, PledgedBy
    <2> QED
      BY <2>2 DEF Carries
  <1>4. CASE r # x
    <2>1. Owed(r)' => Owed(r)
      <3> SUFFICES ASSUME GivenUp(r) PROVE GivenUp(r)'
        BY DEF Owed
      <3> QED
        BY <1>1, <1>4 DEF GivenUp
    <2>2. ASSUME NEW i \in JobIds, PledgedBy(i, r) PROVE PledgedBy(i, r)'
      <3>1. i # j
        BY <1>1, <2>2 DEF PledgedBy
      <3>2. \A w \in Workers : Holding(w) /\ Faithful(w) => Faithful(w)'
        BY <1>2 DEF Faithful
      <3> QED
        BY <1>1, <2>2, <3>1, <3>2 DEF PledgedBy, Unspoiled, Holding
    <2>3. Pledged(r) => Pledged(r)'
      BY <1>4, <2>2 DEF Pledged, Ordered
    <2>4. Resting(r) => Resting(r)'
      BY <1>1, <1>2 DEF Resting, Holding
    <2>5. Indexed(r, g) => Indexed(r, g)'
      BY DEF Indexed
    <2> QED
      BY <2>1, <2>3, <2>4, <2>5 DEF Carries
  <1> QED
    BY <1>3, <1>4

\* Requests, one at a time.
LEMMA ApiCarries ==
  ASSUME StoreInv, ReadsHold, Api, NEW r \in Records, NEW g \in Generations
  PROVE  Carries(r, g)
  <1> USE TypedPart, StoreAssumption DEF StoreInv, Typed
  <1>0. NoRequest.pc = "idle" /\ NoRequest.todo = {}
    BY DEF NoRequest
  <1>1. ASSUME UNCHANGED <<vars, chunks, target, ingest, unqueued>>, Ordered(r) => Ordered(r)',
               /\ records'[r].status = records[r].status
               /\ records'[r].body = records[r].body
               /\ records'[r].watermark = records[r].watermark
        PROVE  Carries(r, g)
    BY <1>1, Untouched DEF vars, Holding
  <1>2. ASSUME NEW h \in Handlers, NEW x \in Records, NEW s \in {"draft", "published"},
               CreateRecord(h, x, s)
        PROVE  Carries(r, g)
    <2>1. CASE r = x /\ s = "published"
      <3>1. Ordered(r)'
        BY <1>2, <2>1 DEF CreateRecord, Ordered, NoRequest
      <3> QED
        BY <3>1 DEF Carries, Pledged
    <2>2. CASE r = x /\ s = "draft"
      <3>1. ~Owed(r) /\ ~Owed(r)'
        BY <1>2, <2>2 DEF CreateRecord, Owed
      <3> QED
        BY <3>1 DEF Carries
    <2>3. CASE r # x
      <3>1. Ordered(r) => Ordered(r)'
        BY <1>2 DEF CreateRecord, Ordered
      <3> QED
        BY <1>1, <1>2, <2>3, <3>1 DEF CreateRecord
    <2> QED
      BY <2>1, <2>2, <2>3
  <1>3. ASSUME NEW h \in Handlers, NEW x \in Records, NEW p \in Patches, ReadExisting(h, x, p)
        PROVE  Carries(r, g)
    <2>1. Ordered(r) => Ordered(r)'
      BY <1>3 DEF ReadExisting, Ordered
    <2> QED
      BY <1>1, <1>3, <2>1 DEF ReadExisting
  <1>4. ASSUME NEW h \in Handlers, WritePatch(h) PROVE Carries(r, g)
    <2> DEFINE x == req[h].rec
               new == Patched(h)
    <2>1. /\ x \in Records /\ records' = [records EXCEPT ![x] = new]
          /\ UNCHANGED <<vars, chunks, target, ingest, unqueued>> /\ req[h].pc = "writing"
      BY <1>4 DEF WritePatch, RequestType
    <2>2. Ordered(r) => Ordered(r)'
      BY <1>4 DEF WritePatch, Ordered
    <2>3. CASE r # x
      BY <1>1, <2>1, <2>2, <2>3
    <2>4. CASE r = x /\ new.status # "published"
      <3>1. ~Owed(r)'
        BY <2>1, <2>4 DEF Owed
      <3> QED
        BY <3>1 DEF Carries
    <2>5. CASE r = x /\ "enqueue" \in FollowUps(h, new)
      <3>1. Ordered(r)'
        BY <1>4, <2>5 DEF WritePatch, Ordered, RequestType
      <3> QED
        BY <3>1 DEF Carries, Pledged
    <2>6. CASE r = x /\ new.status = "published" /\ "enqueue" \notin FollowUps(h, new)
      <3>1. ~req[h].patch.body /\ req[h].was = "published"
        BY <2>6 DEF FollowUps
      <3>2. records[r].status = "published"
        BY <2>1, <2>6, <3>1 DEF ReadsHold
      <3>3. new.body = records[r].body /\ new.watermark = records[r].watermark
        BY <2>6, <3>1 DEF Patched
      <3> QED
        BY <1>1, <2>1, <2>2, <2>6, <3>2, <3>3
    <2> QED
      BY <2>3, <2>4, <2>5, <2>6
  <1>5. ASSUME NEW h \in Handlers, NEW f, Following(h, f),
               f = "enqueue" => r # req[h].rec, Ordered(r)
        PROVE  Ordered(r)'
    <2>1. PICK k \in Handlers : /\ req[k].pc = "following" /\ req[k].rec = r
                               /\ "enqueue" \in req[k].todo
      BY <1>5 DEF Ordered
    <2>2. CASE k # h
      BY <1>5, <2>1, <2>2 DEF Following, Ordered
    <2>3. CASE k = h
      <3>1. f # "enqueue" /\ req[h].todo # {f} /\ "enqueue" \in req[h].todo \ {f}
        BY <1>5, <2>1, <2>3
      <3> QED
        BY <1>5, <2>1, <2>3, <3>1 DEF Following, Ordered, RequestType
    <2> QED
      BY <2>2, <2>3
  <1>6. ASSUME NEW h \in Handlers, EnqueueEmbedJob(h) PROVE Carries(r, g)
    <2>1. PICK j \in JobIds : Enqueue(j) /\ target' = [target EXCEPT ![j] = req[h].rec]
      BY <1>6 DEF EnqueueEmbedJob
    <2>2. r # req[h].rec => (Ordered(r) => Ordered(r)') /\ (r \in unqueued => r \in unqueued')
      BY <1>5, <1>6 DEF EnqueueEmbedJob
    <2>3. req[h].rec \in Records
      BY DEF RequestType
    <2> QED
      BY <1>6, <2>1, <2>2, <2>3, InsertionCarries DEF EnqueueEmbedJob
  <1>7. ASSUME NEW h \in Handlers, SyncChunkMeta(h) PROVE Carries(r, g)
    <2> DEFINE c(x, s) == chunks[req[h].rec][x][s]
               d(x, s) == IF c(x, s) = NoChunk THEN NoChunk
                          ELSE [c(x, s) EXCEPT !.tags = req[h].tags, !.flags = req[h].flags]
    <2>1. req[h].rec \in Records
      BY DEF RequestType
    <2>2. chunks' = [chunks EXCEPT ![req[h].rec] =
                         [x \in Generations |-> [s \in Seqs |-> d(x, s)]]]
      BY <1>7 DEF SyncChunkMeta
    <2>3. \A x \in Generations, s \in Seqs : d(x, s).text = c(x, s).text
      BY <2>1 DEF ChunkType
    <2>4. \A x \in Generations, s \in Seqs : chunks'[r][x][s].text = chunks[r][x][s].text
      BY ZenonT(40), <2>1, <2>2, <2>3
    <2>5. Ordered(r) => Ordered(r)'
      BY <1>5, <1>7 DEF SyncChunkMeta
    <2> QED
      BY <1>7, <2>4, <2>5, Untouched DEF SyncChunkMeta, vars, Holding
  <1>8. ASSUME NEW h \in Handlers, PurgeChunks(h) PROVE Carries(r, g)
    <2>1. CASE r = req[h].rec
      <3>1. records[r].status # "published" /\ UNCHANGED records
        BY <1>8, <2>1 DEF PurgeChunks, Following, ReadsHold
      <3>2. ~Owed(r) /\ ~Owed(r)'
        BY <3>1 DEF Owed
      <3> QED
        BY <3>2 DEF Carries
    <2>2. CASE r # req[h].rec
      <3>1. chunks'[r] = chunks[r]
        BY <1>8, <2>2 DEF PurgeChunks
      <3>2. Ordered(r) => Ordered(r)'
        BY <1>5, <1>8 DEF PurgeChunks
      <3> QED
        BY <1>8, <3>1, <3>2, Untouched DEF PurgeChunks, vars, Holding
    <2> QED
      BY <2>1, <2>2
  <1>9. ASSUME NEW h \in Handlers, RequestDies(h) PROVE Carries(r, g)
    <2>1. CASE r \in unqueued'
      <3>1. ~Owed(r)'
        BY <2>1 DEF Owed, GivenUp
      <3> QED
        BY <3>1 DEF Carries
    <2>2. CASE r \notin unqueued'
      <3>1. r \notin unqueued /\ ~("enqueue" \in req[h].todo /\ req[h].rec = r)
        BY <1>9, <2>2 DEF RequestDies
      <3>2. Ordered(r) => Ordered(r)'
        BY <1>9, <3>1 DEF RequestDies, Ordered
      <3> QED
        BY <1>9, <3>1, <3>2, Untouched DEF RequestDies, vars, Holding
    <2> QED
      BY <2>1, <2>2
  <1> QED
    BY <1>2, <1>3, <1>4, <1>6, <1>7, <1>8, <1>9 DEF Api, Serve, Request

\* $max with a generation that is not behind writes that generation.
LEMMA RaisedToTop ==
  ASSUME NEW w, Generation[w] \in Nat, NEW m \in Nat, m <= Generation[w]
  PROVE  Raised(w, m) = Generation[w]
  BY DEF Raised

\* The worker that is ingesting, when no other holds a job.
LEMMA IngestCarries ==
  ASSUME StoreInv, HeldRunning, NEW w \in Workers, Ingest(w),
         \A v \in Workers : Holding(v) => v = w,
         NEW r \in Records, records[r].watermark <= Generation[w]
  PROVE  Carries(r, Generation[w])
  <1> USE TypedPart, StoreAssumption DEF StoreInv, Typed
  <1> DEFINE g == Generation[w]
             j == workers[w].job
             b == ingest[w].body
  <1>1. Holding(w) /\ workers[w].pc = "ingesting"
    BY DEF Ingest, LoadRecord, Embed, UpsertChunk, DeleteOrphans, RaiseWatermark, IngestThrows,
           AtStep, IngestSucceeds, IngestFails, Holding
  <1>2. RecordOf(w) \in Records /\ j \in JobIds /\ g \in Generations /\ g \in Nat
    BY <1>1, RecordInHand
  <1>3. /\ UNCHANGED <<jobs, target, req, unqueued>>
        /\ \A v \in Workers : v # w => workers'[v] = workers[v] /\ ingest'[v] = ingest[v]
        /\ workers'[w].job = j
    <2>1. /\ UNCHANGED <<jobs, target, req, unqueued>>
          /\ \A v \in Workers : v # w => ingest'[v] = ingest[v]
          /\ UNCHANGED vars \/ IngestSucceeds(w) \/ \E p \in BOOLEAN : IngestFails(w, p)
      BY DEF Ingest, LoadRecord, Embed, UpsertChunk, DeleteOrphans, RaiseWatermark, IngestThrows,
             IngestSucceeds, IngestFails, vars
    <2>2. CASE UNCHANGED vars
      BY <2>1, <2>2 DEF vars
    <2>3. CASE IngestSucceeds(w)
      BY <2>1, <2>3 DEF IngestSucceeds, TypeOK
    <2>4. ASSUME NEW p \in BOOLEAN, IngestFails(w, p)
          PROVE  /\ \A v \in Workers : v # w => workers'[v] = workers[v]
                 /\ workers'[w].job = j
      BY <2>4 DEF IngestFails, TypeOK
    <2> QED
      BY <2>1, <2>2, <2>3, <2>4
  <1>4. \A v \in Workers : Holding(v)' => v = w
    BY <1>3 DEF Holding
  <1>5. RecordOf(w)' = RecordOf(w)
    BY <1>3 DEF RecordOf
  <1>6. \A x \in Records : records'[x].status = records[x].status /\ records'[x].body = records[x].body
    <2>1. CASE RaiseWatermark(w)
      BY <1>2, <2>1 DEF RaiseWatermark, RecordType
    <2>2. CASE UNCHANGED records
      BY <2>2
    <2> QED
      BY <2>1, <2>2
      DEF Ingest, LoadRecord, Embed, UpsertChunk, DeleteOrphans, IngestThrows
  <1>7. CASE r # RecordOf(w)
    <2>1. records'[r] = records[r] /\ chunks'[r] = chunks[r]
      BY <1>2, <1>7
      DEF Ingest, LoadRecord, Embed, UpsertChunk, DeleteOrphans, RaiseWatermark, IngestThrows
    <2>2. Ordered(r) => Ordered(r)'
      BY <1>3 DEF Ordered
    <2>3. \A v \in Workers : Holding(v)' => v = w /\ Holding(v) /\ workers'[v].job = workers[v].job
      BY <1>1, <1>3, <1>4
    <2> QED
      BY <1>2, <1>3, <1>7, <2>1, <2>2, <2>3, Untouched
  <1>8. CASE r = RecordOf(w)
    <2>1. Owed(r)' <=> Owed(r)
      BY <1>3, <1>6 DEF Owed, GivenUp
    <2>2. ~Resting(r)
      BY <1>1, <1>8 DEF Resting
    <2>3. ASSUME NEW i \in JobIds, i # j, PledgedBy(i, r) PROVE PledgedBy(i, r)'
      BY <1>3, <1>4, <2>3 DEF PledgedBy, Unspoiled
    <2>4. Ordered(r) => Ordered(r)'
      BY <1>3 DEF Ordered
    <2>5. ASSUME NEW i \in JobIds, i = j, PledgedBy(i, r)
          PROVE  PledgedBy(i, r)' \/ (Resting(r) /\ Settled(r, g))'
      <3>1. ingest[w].step = "load" \/ Faithful(w)
        BY <1>1, <2>5 DEF PledgedBy, Unspoiled
      <3>2. ASSUME \/ workers'[w].pc = "failing"
                   \/ workers'[w].pc = "ingesting" /\ Faithful(w)'
            PROVE  PledgedBy(i, r)'
        BY <1>3, <1>4, <2>5, <3>2 DEF PledgedBy, Unspoiled
      <3>3. ingest[w] \in IngestType
        OBVIOUS
      <3>4. CASE LoadRecord(w)
        <4>1. ingest'[w].body = records[r].body /\ ingest'[w].step = "embed" /\ UNCHANGED <<workers, records>>
          BY <1>8, <3>4 DEF LoadRecord, vars
        <4> QED
          BY <1>1, <1>5, <1>8, <3>2, <4>1 DEF Faithful
      <3>5. CASE Embed(w)
        <4>1. /\ Faithful(w) /\ ingest[w].step = "embed" /\ ingest[w].seq = 1
              /\ b \in Contents /\ ChunkCount[b] \in 0 .. MaxSeq
          BY <3>1, <3>5 DEF Embed, AtStep, IngestsKept
        <4>2. /\ ingest'[w].body = b /\ ingest'[w].seq = 1
              /\ ingest'[w].step = IF ChunkCount[b] = 0 THEN "orphans" ELSE "upsert"
              /\ UNCHANGED <<workers, records, chunks>>
          BY <3>3, <3>5, <4>1 DEF Embed, IngestType, vars
        <4>3. Faithful(w)'
          BY <1>5, <4>1, <4>2 DEF Faithful, Seqs
        <4> QED
          BY <1>1, <3>2, <4>2, <4>3
      <3>6. CASE UpsertChunk(w)
        <4> DEFINE n == ingest[w].seq
        <4>1. /\ Faithful(w) /\ ingest[w].step = "upsert" /\ b \in Contents
              /\ ChunkCount[b] \in 0 .. MaxSeq /\ n \in 1 .. MaxSeq + 1 /\ n <= ChunkCount[b]
          BY <3>1, <3>3, <3>6 DEF UpsertChunk, AtStep, IngestsKept, IngestType
        <4>2. /\ ingest'[w].body = b /\ ingest'[w].seq = n + 1
              /\ ingest'[w].step = IF n = ChunkCount[b] THEN "orphans" ELSE "upsert"
              /\ UNCHANGED <<workers, records>>
          BY <3>3, <3>6 DEF UpsertChunk, IngestType, vars
        <4>3. \A s \in Seqs : chunks'[r][g][s].text = IF s = n THEN b ELSE chunks[r][g][s].text
          BY <1>2, <1>8, <3>6 DEF UpsertChunk, UpsertedChunk
        <4>4. \A s \in Seqs : s < n => chunks[r][g][s].text = b
          BY <1>8, <4>1 DEF Faithful
        <4>5. \A s \in Seqs : s < n + 1 => chunks'[r][g][s].text = b
          BY <4>1, <4>3, <4>4 DEF Seqs
        <4>6. records[r].body = b
          BY <1>8, <4>1 DEF Faithful
        <4>7. Faithful(w)'
          BY <1>5, <1>8, <4>1, <4>2, <4>5, <4>6 DEF Faithful, Seqs
        <4> QED
          BY <1>1, <3>2, <4>2, <4>7
      <3>7. CASE DeleteOrphans(w)
        <4>1. /\ Faithful(w) /\ ingest[w].step = "orphans" /\ b \in Contents
              /\ ChunkCount[b] \in 0 .. MaxSeq
          BY <3>1, <3>7 DEF DeleteOrphans, AtStep, IngestsKept
        <4>2. ingest'[w].body = b /\ ingest'[w].step = "raise" /\ UNCHANGED <<workers, records>>
          BY <3>3, <3>7 DEF DeleteOrphans, IngestType, vars
        <4>3. \A s \in Seqs : <<g, s>> \in Orphans(w) <=> s > ChunkCount[b]
          BY <1>2 DEF Orphans
        <4>4. \A s \in Seqs : chunks'[r][g][s] =
                                 IF <<g, s>> \in Orphans(w) THEN NoChunk ELSE chunks[r][g][s]
          BY <1>2, <1>8, <3>7 DEF DeleteOrphans
        <4>5. NoChunk.text = 0
          BY DEF NoChunk
        <4>6. \A s \in Seqs : chunks'[r][g][s].text =
                                 IF s > ChunkCount[b] THEN 0 ELSE chunks[r][g][s].text
          BY <4>3, <4>4, <4>5
        <4>7. /\ records[r].body = b
              /\ \A s \in Seqs : s <= ChunkCount[b] => chunks[r][g][s].text = b
          BY <1>8, <4>1 DEF Faithful
        <4>8. Faithful(w)'
          BY <1>5, <1>8, <4>1, <4>2, <4>6, <4>7 DEF Faithful, Seqs
        <4> QED
          BY <1>1, <3>2, <4>2, <4>8
      <3>8. CASE RaiseWatermark(w)
        <4>1. /\ Faithful(w) /\ ingest[w].step = "raise" /\ b \in Contents
          BY <3>1, <3>8 DEF RaiseWatermark, AtStep, IngestsKept
        <4>2. /\ Known(r) /\ b = records[r].body
              /\ \A s \in Seqs : chunks[r][g][s].text = IF s <= ChunkCount[b] THEN b ELSE 0
          <5>1. Known(r) /\ b = records[r].body
            BY <1>1, <1>8, <4>1, RecordInHand DEF Faithful
          <5>2. /\ \A s \in Seqs : s <= ChunkCount[b] => chunks[r][g][s].text = b
                /\ \A s \in Seqs : s > ChunkCount[b] => chunks[r][g][s].text = 0
            BY <1>8, <4>1 DEF Faithful
          <5>3. ChunkCount[b] \in Nat
            BY <4>1
          <5> QED
            BY <5>1, <5>2, <5>3 DEF Seqs
        <4>3. Indexed(r, g)'
          BY <1>6, <3>8, <4>2 DEF RaiseWatermark, Indexed, Known
        <4>4. records'[r].watermark = g
          <5>1. records[r].watermark \in Nat
            BY DEF RecordType, Generations
          <5>2. records'[r].watermark = Raised(w, records[r].watermark)
            BY <1>8, <3>8 DEF RaiseWatermark, RecordType
          <5> QED
            BY <1>2, <5>1, <5>2, RaisedToTop
        <4>5. workers'[w].pc = "completing"
          BY <3>8 DEF RaiseWatermark, IngestSucceeds, TypeOK
        <4>6. Resting(r)'
          BY <1>4, <4>5 DEF Resting, Holding
        <4> QED
          BY <4>3, <4>4, <4>6 DEF Settled
      <3>9. ASSUME NEW p \in BOOLEAN, IngestThrows(w, p) PROVE PledgedBy(i, r)'
        <4>1. workers'[w].pc = "failing"
          BY <3>9 DEF IngestThrows, IngestFails, TypeOK
        <4> QED
          BY <3>2, <4>1
      <3> QED
        BY <3>4, <3>5, <3>6, <3>7, <3>8, <3>9 DEF Ingest
    <2>6. Pledged(r) => Pledged(r)' \/ (Resting(r) /\ Settled(r, g))'
      BY <2>3, <2>4, <2>5 DEF Pledged
    <2> QED
      BY <2>1, <2>2, <2>6 DEF Carries
  <1> QED
    BY <1>7, <1>8

\* A worker that holds no job and takes none, or only looks.
LEMMA EmptyHanded ==
  ASSUME StoreInv, NEW r \in Records, NEW g \in Generations, UNCHANGED <<storeVars, jobs>>,
         \A v \in Workers : Holding(v)' => Holding(v) /\ workers'[v] = workers[v]
  PROVE  Carries(r, g)
  BY Untouched DEF storeVars, Ordered, Holding

\* Claims, outcomes and restarts of a worker when no other holds a job.
LEMMA QueueCarries ==
  ASSUME StoreInv, HeldRunning, NEW w \in Workers, QueueStep(w) \/ WorkerCrash(w),
         \A v \in Workers : Holding(v) => v = w,
         NEW r \in Records, NEW g \in Generations
  PROVE  Carries(r, g)
  <1> USE TypedPart, StoreAssumption DEF StoreInv, Typed
  <1> DEFINE i == workers[w].job
  <1>1. UNCHANGED <<records, chunks, target, req, unqueued>>
    BY DEF QueueStep, WorkerCrash, storeVars
  <1>2. CASE NoneExpired(w) \/ NothingDue(w) \/ Restart(w)
    <2>1. \A v \in Workers : ~Holding(v) /\ ~Holding(v)'
      BY <1>2 DEF NoneExpired, NothingDue, Restart, Release, Idle, Holding, TypeOK
    <2>2. UNCHANGED storeVars
      BY <1>2 DEF QueueStep, WorkerCrash, Crash, NoneExpired, NothingDue, Restart, Release, Idle, TypeOK
    <2> QED
      BY <1>2, <2>1, <2>2, EmptyHanded DEF NoneExpired, NothingDue, Restart
  <1>3. ASSUME NEW j \in JobIds, ReclaimExpired(w, j) \/ ClaimPending(w, j), UNCHANGED storeVars
        PROVE  Carries(r, g)
    <2>1. \A v \in Workers : ~Holding(v)
      BY <1>3 DEF ReclaimExpired, ClaimPending, Holding
    <2>2. ingest'[w].step = "load"
      BY <1>3 DEF ReclaimExpired, ClaimPending, IngestsKept, storeVars
    <2>3. CASE (\E n : Take(w, j, n)) /\ jobs'[j].status = "running"
      <3>1. PICK d : jobs' = [jobs EXCEPT ![j] = d]
        BY <1>3 DEF ReclaimExpired, ClaimPending
      <3>2. d.status = "running" /\ d.status \in Statuses
        BY <2>3, <3>1 DEF TypeOK, Statuses
      <3>3. /\ workers'[w].job = j /\ workers'[w].pc = "ingesting"
            /\ \A v \in Workers : v # w => workers'[v] = workers[v]
        BY <2>3 DEF Take, TypeOK
      <3>4. \A v \in Workers : Holding(v)' => v = w
        BY <2>1, <3>3 DEF Holding
      <3>5. Unspoiled(j)'
        BY <2>2, <3>3, <3>4 DEF Unspoiled
      <3> QED
        BY ZenonT(40), <1>1, <3>1, <3>2, <3>3, <3>4, <3>5, OneDocument
    <2>4. CASE UNCHANGED workers /\ jobs' = [jobs EXCEPT ![j] = ReclaimedDoc(j)] /\ jobs'[j].status = "dead"
      <3>1. ReclaimedDoc(j).status = "dead"
        BY <2>4 DEF TypeOK
      <3> QED
        BY <1>1, <2>1, <2>4, <3>1, OneDocument DEF Holding, Statuses
    <2>5. CASE ReclaimExpired(w, j)
      BY <2>3, <2>4, <2>5 DEF ReclaimExpired
    <2>6. CASE ClaimPending(w, j)
      <3>1. jobs'[j].status = "running"
        BY <2>6 DEF ClaimPending, TypeOK
      <3> QED
        BY <2>3, <2>6, <3>1 DEF ClaimPending
    <2> QED
      BY <1>3, <2>5, <2>6
  <1>4. ASSUME Holding(w)
        PROVE  /\ i \in JobIds
               /\ jobs[i].status = "running" \/ (jobs[i].status = "done" /\ workers[w].pc = "failing")
    BY <1>4 DEF TypeOK, HeldRunning
  <1>5. ASSUME Holding(w), ~Holding(w)', \A v \in Workers : v # w => workers'[v] = workers[v],
               NEW d, jobs' = [jobs EXCEPT ![i] = d], d.status \in Statuses \ {"none"},
               d.status = "done" => workers[w].pc = "completing" \/ jobs[i].status = "done"
        PROVE  Carries(r, g)
    <2>1. \A v \in Workers : ~Holding(v)'
      BY <1>5 DEF Holding
    <2>2. workers[w].pc = "completing" => ~Unspoiled(i)
      BY <1>5 DEF Unspoiled
    <2>3. Unspoiled(i)'
      BY <2>1 DEF Unspoiled
    <2>4. i \in JobIds /\ jobs[i].status \in {"running", "done"}
      BY <1>4, <1>5
    <2>5. \A v \in Workers : workers'[v].pc # "ingesting"
      BY <2>1 DEF Holding
    <2>6. \A x \in JobIds : x = i => (d.status \in {"pending", "running"} => Unspoiled(x)')
      BY <2>1 DEF Unspoiled
    <2> HIDE DEF i
    <2> QED
      BY <1>1, <1>5, <2>1, <2>2, <2>4, <2>5, <2>6, OneDocument
  <1>6. CASE CompleteJob(w) \/ FailJob(w) \/ FailThrows(w)
    <2>1. Holding(w) /\ ~Holding(w)' /\ \A v \in Workers : v # w => workers'[v] = workers[v]
      BY <1>6 DEF CompleteJob, FailJob, FailThrows, Release, Idle, Holding, TypeOK
    <2>2. CASE CompleteJob(w)
      BY <1>4, <1>5, <2>1, <2>2, MarkDoneDoc DEF CompleteJob, DoneDoc, Statuses
    <2>3. CASE FailJob(w)
      <3>1. jobs' = [jobs EXCEPT ![i] = FailedDoc(w)]
        BY <2>3 DEF FailJob
      <3>2. FailedDoc(w).status \in Statuses \ {"none"} /\ FailedDoc(w).status # "done"
        BY DEF FailedDoc, Statuses
      <3> QED
        BY <1>5, <2>1, <3>1, <3>2
    <2>4. CASE FailThrows(w)
      <3>1. jobs' = [jobs EXCEPT ![i] = jobs[i]] /\ jobs[i].status \in Statuses \ {"none"}
        BY <1>4, <2>1, <2>4 DEF FailThrows, TypeOK, Statuses
      <3> QED
        BY <1>5, <2>1, <3>1
    <2> QED
      BY <1>6, <2>2, <2>3, <2>4
  <1>7. CASE CompleteThrows(w)
    <2>1. /\ Holding(w) /\ workers[w].pc = "completing" /\ workers'[w].pc = "failing"
          /\ workers'[w].job = i /\ \A v \in Workers : v # w => workers'[v] = workers[v]
      BY <1>7 DEF CompleteThrows, Holding, TypeOK
    <2>2. i \in JobIds /\ jobs[i].status = "running"
      BY <1>4, <2>1
    <2>3. PICK d : jobs' = [jobs EXCEPT ![i] = d] /\ d.status \in {"running", "done"}
      <3>1. CASE MarkDone(w)
        <4>1. jobs' = [jobs EXCEPT ![i] = DoneDoc(i)] /\ DoneDoc(i).status = "done"
          BY <2>1, <3>1, MarkDoneDoc DEF DoneDoc
        <4> QED
          BY <4>1
      <3>2. CASE UNCHANGED jobs
        <4>1. jobs' = [jobs EXCEPT ![i] = jobs[i]]
          BY <3>2 DEF TypeOK
        <4> QED
          BY <2>2, <4>1
      <3> QED
        BY <1>7, <3>1, <3>2 DEF CompleteThrows
    <2>4. \A v \in Workers : Holding(v)' => v = w
      BY <2>1 DEF Holding
    <2>5. \A x \in JobIds : x = i => Unspoiled(x)' /\ ~Unspoiled(x)
      BY <2>1, <2>4 DEF Unspoiled
    <2>6. \A v \in Workers : workers'[v].pc # "ingesting"
      BY <2>1, <2>4 DEF Holding
    <2> HIDE DEF i
    <2> QED
      BY <1>1, <2>1, <2>2, <2>3, <2>4, <2>5, <2>6, OneDocument DEF Statuses
  <1>8. CASE WorkerCrash(w)
    <2>1. ~Holding(w)' /\ UNCHANGED jobs /\ \A v \in Workers : v # w => workers'[v] = workers[v]
      BY <1>8 DEF WorkerCrash, Crash, Idle, Holding, TypeOK
    <2>2. CASE Holding(w)
      <3>1. jobs' = [jobs EXCEPT ![i] = jobs[i]] /\ jobs[i].status \in Statuses \ {"none"}
        BY <1>4, <2>1, <2>2 DEF TypeOK, Statuses
      <3> QED
        BY <1>5, <2>1, <2>2, <3>1
    <2>3. CASE ~Holding(w)
      <3>1. \A v \in Workers : ~Holding(v)'
        BY <2>1, <2>3 DEF Holding
      <3>2. Ordered(r) => Ordered(r)'
        BY <1>1 DEF Ordered
      <3> QED
        BY <1>1, <2>1, <3>1, <3>2, Untouched
    <2> QED
      BY <2>2, <2>3
  <1> QED
    BY <1>2, <1>3, <1>6, <1>7, <1>8 DEF QueueStep, Claim

\* Operators and time.
LEMMA OutsideCarries ==
  ASSUME StoreInv, HeldRunning, NEW r \in Records, NEW g \in Generations,
         (\E j \in JobIds : OperatorRequeues(j)) \/ TimePasses \/ UNCHANGED allVars
  PROVE  Carries(r, g)
  <1> USE TypedPart, StoreAssumption DEF StoreInv, Typed
  <1>1. ASSUME NEW j \in JobIds, OperatorRequeues(j) PROVE Carries(r, g)
    <2> DEFINE d == [status |-> "pending", attempts |-> 0, age |-> 0]
    <2>1. /\ jobs[j].status \in {"failed", "dead"} /\ jobs' = [jobs EXCEPT ![j] = d]
          /\ UNCHANGED <<workers, storeVars>>
      BY <1>1 DEF OperatorRequeues, Requeue
    <2>2. \A v \in Workers : Holding(v) => workers[v].job # j
      BY <2>1 DEF HeldRunning
    <2>3. Unspoiled(j)' /\ \A v \in Workers : workers'[v].pc = "ingesting" => workers'[v].job # j
      BY <2>1, <2>2 DEF Unspoiled, Holding
    <2>4. UNCHANGED <<records, chunks, target, req, unqueued, ingest, workers>>
      BY <2>1 DEF storeVars
    <2> QED
      BY <2>1, <2>3, <2>4, OneDocument DEF Statuses
  <1>2. CASE TimePasses
    <2>1. /\ \A j \in JobIds : jobs'[j].status = jobs[j].status
          /\ \A v \in Workers : workers'[v].pc = workers[v].pc /\ workers'[v].job = workers[v].job
          /\ UNCHANGED <<records, chunks, target, req, unqueued, ingest>>
      BY <1>2 DEF TimePasses, Tick, TypeOK, storeVars
    <2>2. \A v \in Workers : Holding(v)' => Holding(v)
      BY <2>1 DEF Holding
    <2>3. Ordered(r) => Ordered(r)'
      BY <2>1 DEF Ordered
    <2> QED
      BY <2>1, <2>2, <2>3, Untouched
  <1>3. CASE UNCHANGED allVars
    BY <1>3, EmptyHanded DEF allVars, vars, Holding
  <1> QED
    BY <1>1, <1>2, <1>3

\* No other worker, no operator and no request rewrites a document in hand.
LEMMA HeldRunningKeeps ==
  ASSUME StoreInv, HeldRunning,
         \/ Api \/ (\E j \in JobIds : OperatorRequeues(j)) \/ TimePasses \/ UNCHANGED allVars
         \/ \E w \in Workers : WorkerStep(w) /\ \A v \in Workers : Holding(v) => v = w
  PROVE  HeldRunning'
  <1> USE TypedPart DEF StoreInv, TypeOK
  <1>1. CASE UNCHANGED vars
    BY <1>1 DEF vars, HeldRunning, Holding
  <1>2. ASSUME NEW j \in JobIds, Enqueue(j) \/ Requeue(j) PROVE HeldRunning'
    <2>1. UNCHANGED workers /\ jobs[j].status \in {"none", "failed", "dead"}
          /\ \A i \in JobIds : i # j => jobs'[i] = jobs[i]
      BY <1>2 DEF Enqueue, Requeue
    <2>2. ASSUME NEW v \in Workers, Holding(v) PROVE workers[v].job \in JobIds \ {j}
      BY <2>1, <2>2 DEF HeldRunning
    <2> QED
      BY <2>1, <2>2 DEF HeldRunning, Holding
  <1>3. CASE TimePasses
    <2>1. \A v \in Workers : /\ workers'[v].pc = workers[v].pc
                             /\ workers'[v].job = workers[v].job
      BY <1>3 DEF TimePasses, Tick
    <2>2. \A i \in JobIds : jobs'[i].status = jobs[i].status
      BY <1>3 DEF TimePasses, Tick
    <2> QED
      BY <2>1, <2>2 DEF HeldRunning, Holding
  <1>4. ASSUME NEW w \in Workers, \A v \in Workers : Holding(v) => v = w, WorkerStep(w)
        PROVE  HeldRunning'
    <2>1. ASSUME \A v \in Workers : Holding(v)' => v = w,
                 Holding(w)' => \/ jobs'[workers'[w].job].status = "running"
                                \/ /\ jobs'[workers'[w].job].status = "done"
                                   /\ workers'[w].pc = "failing"
          PROVE  HeldRunning'
      BY <2>1 DEF HeldRunning
    <2>2. CASE IngestSucceeds(w) \/ \E p \in BOOLEAN : IngestFails(w, p)
      <3>1. /\ UNCHANGED jobs /\ Holding(w) /\ workers[w].pc # "failing"
            /\ workers'[w].job = workers[w].job
            /\ \A v \in Workers : v # w => workers'[v] = workers[v]
        <4>1. CASE IngestSucceeds(w)
          BY <4>1 DEF IngestSucceeds, Holding
        <4>2. ASSUME NEW p \in BOOLEAN, IngestFails(w, p)
              PROVE  /\ UNCHANGED jobs /\ Holding(w) /\ workers[w].pc # "failing"
                     /\ workers'[w].job = workers[w].job
                     /\ \A v \in Workers : v # w => workers'[v] = workers[v]
          BY <4>2 DEF IngestFails, Holding
        <4> QED
          BY <2>2, <4>1, <4>2
      <3> QED
        BY <2>1, <3>1 DEF HeldRunning, Holding
    <2>3. ASSUME NEW j \in JobIds, ReclaimExpired(w, j) \/ ClaimPending(w, j) PROVE HeldRunning'
      <3>1. \A v \in Workers : ~Holding(v)
        BY <1>4, <2>3 DEF ReclaimExpired, ClaimPending, Holding
      <3>2. CASE UNCHANGED workers
        BY <3>1, <3>2 DEF HeldRunning, Holding
      <3>3. CASE (\E n : Take(w, j, n)) /\ jobs'[j].status = "running"
        BY <2>1, <3>1, <3>3 DEF Take, Holding
      <3>4. CASE ClaimPending(w, j)
        <4>1. jobs'[j].status = "running"
          BY <3>4 DEF ClaimPending
        <4> QED
          BY <3>3, <3>4, <4>1 DEF ClaimPending
      <3> QED
        BY <2>3, <3>2, <3>3, <3>4 DEF ReclaimExpired
    <2>4. CASE \/ NoneExpired(w) \/ NothingDue(w) \/ CompleteJob(w) \/ FailJob(w)
               \/ FailThrows(w) \/ Restart(w) \/ Crash(w)
      <3>1. \A v \in Workers : ~Holding(v)'
        BY <1>4, <2>4
        DEF NoneExpired, NothingDue, CompleteJob, FailJob, FailThrows, Restart, Crash, Release,
            Idle, Holding
      <3> QED
        BY <3>1 DEF HeldRunning
    <2>5. CASE CompleteThrows(w)
      <3>1. /\ Holding(w) /\ workers[w].pc = "completing" /\ workers'[w].pc = "failing"
            /\ workers'[w].job = workers[w].job
            /\ \A v \in Workers : v # w => workers'[v] = workers[v]
        BY <2>5 DEF CompleteThrows, Holding
      <3>2. workers[w].job \in JobIds /\ jobs[workers[w].job].status = "running"
        BY <3>1 DEF HeldRunning
      <3>3. jobs'[workers[w].job].status \in {"running", "done"}
        BY <2>5, <3>2 DEF CompleteThrows, MarkDone
      <3> QED
        BY <1>4, <2>1, <3>1, <3>3 DEF Holding
    <2> QED
      BY <1>1, <1>4, <2>2, <2>3, <2>4, <2>5
      DEF WorkerStep, Ingest, LoadRecord, Embed, UpsertChunk, DeleteOrphans, RaiseWatermark,
          IngestThrows, QueueStep, Claim, WorkerCrash
  <1> QED
    BY <1>1, <1>2, <1>3, <1>4
    DEF Api, Serve, CreateRecord, ReadExisting, Request, WritePatch, EnqueueEmbedJob,
        SyncChunkMeta, PurgeChunks, RequestDies, OperatorRequeues, allVars

\* A step by which no request changes the status of a record while another
\* request of that record is in flight.  Bodies, tags and flags may race.
StatusLeftAlone ==
    \A h \in Handlers : req[h].pc # "idle" /\ req'[h] = req[h] =>
        records'[req[h].rec].status = records[req[h].rec].status

LEMMA ReadsHoldInApi ==
  ASSUME StatusLeftAlone, StoreInv, ReadsHold, Api PROVE ReadsHold'
  <1> USE TypedPart DEF StoreInv, Typed
  <1>0. NoRequest.pc = "idle"
    BY DEF NoRequest
  <1>1. PICK h \in Handlers : Serve(h) \/ RequestDies(h)
    BY DEF Api
  <1>2. \A k \in Handlers : k # h => req'[k] = req[k]
    BY <1>1 DEF Serve, CreateRecord, ReadExisting, Request, WritePatch, EnqueueEmbedJob,
       SyncChunkMeta, PurgeChunks, Following, RequestDies
  <1>3. ASSUME req'[h].pc = "writing" => req'[h].was = records'[req'[h].rec].status,
               req'[h].pc = "following" /\ "purge" \in req'[h].todo =>
                   records'[req'[h].rec].status # "published"
        PROVE  ReadsHold'
    BY <1>2, <1>3 DEF ReadsHold, StatusLeftAlone
  <1>4. CASE \E r \in Records, s \in {"draft", "published"} : CreateRecord(h, r, s)
    BY <1>0, <1>3, <1>4 DEF CreateRecord, NoRequest
  <1>5. CASE \E r \in Records, p \in Patches : ReadExisting(h, r, p)
    BY <1>3, <1>5 DEF ReadExisting, NoRequest
  <1>6. CASE WritePatch(h)
    <2> DEFINE r == req[h].rec
               new == Patched(h)
    <2>1. r \in Records /\ records'[r] = new /\ "purge" \in FollowUps(h, new) => new.status # "published"
      BY <1>6 DEF WritePatch, RequestType, FollowUps
    <2>2. \/ req'[h].pc = "idle"
          \/ req'[h].pc = "following" /\ req'[h].rec = r /\ req'[h].todo = FollowUps(h, new)
      BY <1>0, <1>6 DEF WritePatch, RequestType
    <2>3. r \in Records /\ records'[r] = new
      BY <1>6 DEF WritePatch, RequestType
    <2>4. "purge" \in FollowUps(h, new) => new.status # "published"
      BY DEF FollowUps
    <2> QED
      BY <1>3, <2>2, <2>3, <2>4
  <1>7. ASSUME NEW f, Following(h, f), UNCHANGED records PROVE ReadsHold'
    <2>1. \/ req'[h].pc = "idle"
          \/ /\ req'[h].pc = "following" /\ req'[h].rec = req[h].rec
             /\ req'[h].todo \subseteq req[h].todo
      BY <1>0, <1>7 DEF Following, RequestType
    <2>2. req[h].pc = "following"
      BY <1>7 DEF Following
    <2> QED
      BY <1>3, <1>7, <2>1, <2>2 DEF ReadsHold
  <1>8. CASE RequestDies(h)
    BY <1>0, <1>3, <1>8 DEF RequestDies
  <1> QED
    BY <1>1, <1>4, <1>5, <1>6, <1>7, <1>8
    DEF Serve, Request, EnqueueEmbedJob, SyncChunkMeta, PurgeChunks

LEMMA ReadsHoldElsewhere ==
  ASSUME StoreInv, ReadsHold,
         \/ (\E w \in Workers : WorkerStep(w)) \/ (\E j \in JobIds : OperatorRequeues(j))
         \/ TimePasses \/ UNCHANGED allVars
  PROVE  ReadsHold'
  <1> USE TypedPart DEF StoreInv, Typed
  <1>1. UNCHANGED req
    BY DEF WorkerStep, Ingest, LoadRecord, Embed, UpsertChunk, DeleteOrphans, RaiseWatermark,
           IngestThrows, QueueStep, WorkerCrash, OperatorRequeues, TimePasses, storeVars, allVars
  <1>2. \A r \in Records : records'[r].status = records[r].status
    <2>1. ASSUME NEW w \in Workers, RaiseWatermark(w)
          PROVE  \A r \in Records : records'[r].status = records[r].status
      BY <2>1 DEF RaiseWatermark, RecordType
    <2>2. CASE UNCHANGED records
      BY <2>2
    <2> QED
      BY <2>1, <2>2
      DEF WorkerStep, Ingest, LoadRecord, Embed, UpsertChunk, DeleteOrphans,
          IngestThrows, QueueStep, WorkerCrash, OperatorRequeues, TimePasses, storeVars, allVars
  <1> QED
    BY <1>1, <1>2 DEF ReadsHold, RequestType

\* What is promised of every published record, for generation g.
CoverInv(g) ==
    /\ StoreInv /\ HeldRunning /\ ReadsHold
    /\ \A r \in Records : Owed(r) => Pledged(r) \/ (Resting(r) /\ Settled(r, g))

OneWorker == \A v, w \in Workers : v = w

LEMMA CoverStep ==
  ASSUME OneWorker, NEW g \in Generations, CoverInv(g),
         [StoreNext]_allVars, [StatusLeftAlone]_allVars
  PROVE  CoverInv(g)'
  <1> USE StoreAssumption DEF CoverInv
  <1>1. StoreInv'
    BY StoreKept
  <1>2. ReadsHold'
    <2>1. CASE UNCHANGED allVars
      BY <2>1, ReadsHoldElsewhere
    <2>2. CASE StoreNext /\ StatusLeftAlone
      BY <2>2, ReadsHoldInApi, ReadsHoldElsewhere DEF StoreNext
    <2> QED
      BY <2>1, <2>2
  <1>3. HeldRunning'
    BY HeldRunningKeeps DEF StoreNext, OneWorker
  <1>4. Generations = {g} /\ g \in Nat /\ \A w \in Workers : Generation[w] = g
    BY DEF Generations, OneWorker
  <1>5. ASSUME NEW r \in Records PROVE Carries(r, g)
    <2>1. records[r].watermark \in {0, g}
      BY <1>4, TypedPart DEF StoreInv, Typed, RecordType
    <2>2. CASE Api
      BY <2>2, ApiCarries
    <2>3. ASSUME NEW w \in Workers, Ingest(w) PROVE Carries(r, g)
      <3>1. Carries(r, Generation[w])
        BY <1>4, <2>1, <2>3, IngestCarries DEF OneWorker
      <3> QED
        BY <1>4, <3>1
    <2>4. ASSUME NEW w \in Workers, QueueStep(w) \/ WorkerCrash(w) PROVE Carries(r, g)
      BY <2>4, QueueCarries DEF OneWorker
    <2> QED
      BY <2>2, <2>3, <2>4, OutsideCarries DEF StoreNext, WorkerStep
  <1>6. ASSUME NEW r \in Records, Owed(r)' PROVE (Pledged(r) \/ (Resting(r) /\ Settled(r, g)))'
    <2>1. Carries(r, g)
      BY <1>5
    <2> QED
      BY <1>6, <2>1 DEF Carries, Settled
  <1> QED
    BY <1>1, <1>2, <1>3, <1>6

\* Once everything has come to rest no pledge is left, so the record is there.
LEMMA RestIsCovered ==
  ASSUME NEW g, NEW r \in Records, Quiescent, Pledged(r) \/ (Resting(r) /\ Settled(r, g))
  PROVE  Settled(r, g)
  BY DEF Quiescent, Pledged, Ordered, PledgedBy

\* With one worker and any number of requests in flight, a published record
\* that was not given up is found by its present text and no other once the
\* queue is empty, however often requests, ingestions and processes fail,
\* whatever leases are lost, and whether or not a write that failed was applied.
\* PATCHes of one record may race, except for its status: a behaviour in which a
\* request changes it under another request of that record is left out, and
\* there the code can lose chunks (records.ts reads `existing` once and decides
\* by it after the write).
THEOREM PublishedGetsIndexed ==
  ASSUME OneWorker
  PROVE  StoreSpec /\ [][StatusLeftAlone]_allVars => []PublishedIsIndexed
  <1>1. CASE Generations = {}
    <2>1. PublishedIsIndexed
      BY <1>1 DEF PublishedIsIndexed
    <2> QED
      BY <2>1, PTL
  <1>2. ASSUME NEW g \in Generations
        PROVE  StoreSpec /\ [][StatusLeftAlone]_allVars => []PublishedIsIndexed
    <2>1. StoreInit => CoverInv(g)
      <3> SUFFICES ASSUME StoreInit PROVE CoverInv(g)
        OBVIOUS
      <3>1. HeldRunning /\ ReadsHold
        BY DEF StoreInit, Init, HeldRunning, ReadsHold, Holding, Idle, NoRequest
      <3>2. \A r \in Records : ~Owed(r)
        BY DEF StoreInit, NoRecord, Owed
      <3> QED
        BY <3>1, <3>2, StoreStarts DEF CoverInv
    <2>2. CoverInv(g) /\ [StoreNext]_allVars /\ [StatusLeftAlone]_allVars => CoverInv(g)'
      BY CoverStep
    <2>3. CoverInv(g) => PublishedIsIndexed
      <3> SUFFICES ASSUME CoverInv(g), Quiescent, NEW d \in Generations, NEW r \in Records,
                          records[r].status = "published", ~GivenUp(r)
                   PROVE  Indexed(r, d) /\ records[r].watermark = d
        BY DEF PublishedIsIndexed
      <3>1. d = g
        BY DEF Generations, OneWorker
      <3> QED
        BY <3>1, RestIsCovered DEF CoverInv, Settled, Owed
    <2> QED
      BY <2>1, <2>2, <2>3, PTL DEF StoreSpec
  <1> QED
    BY <1>1, <1>2

-----------------------------------------------------------------------------
(* A step is one of the store, a redeployment, or an insertion of the tool. *)

ToolType == [pc : {"idle", "found", "inserting", "finished"},
             stale : SUBSET Records, todo : SUBSET Records]

\* The tool knows records that exist, and runs one version of two.
ToolKept ==
    /\ tool \in ToolType
    /\ \A r \in tool.stale \cup tool.todo : Known(r)
    /\ deployed \in {OldVersion, NewVersion}

ReembedInv == StoreInv /\ ToolKept

\* What the tool does to the store when it inserts a job of x.
ToolInserts(x) ==
    /\ Known(x)
    /\ \E j \in JobIds : Enqueue(j) /\ target' = [target EXCEPT ![j] = x]
    /\ UNCHANGED <<records, chunks, ingest, req, edits, unqueued>>

LEMMA StepKinds ==
  ASSUME ReembedInv, [ReembedNext]_reembedVars
  PROVE  \/ [StoreNext]_allVars
         \/ Redeploy
         \/ \E x \in Records : ToolInserts(x)
  <1>1. CASE StoreStep
    BY <1>1 DEF StoreStep, StoreNext, Api
  <1>2. ASSUME NEW x \in Records, InsertJob(x) PROVE ToolInserts(x)
    BY <1>2 DEF InsertJob, ToolInserts, ReembedInv, ToolKept
  <1>3. CASE FindStale \/ SkipQueued \/ ToolDies
    BY <1>3 DEF FindStale, SkipQueued, ToolDies
  <1>4. CASE UNCHANGED reembedVars
    BY <1>4 DEF reembedVars
  <1> QED
    BY <1>1, <1>2, <1>3, <1>4 DEF ReembedNext, Tool

\* Redeploying is crashing every old worker at once.
LEMMA RedeployCrashes ==
  ASSUME Redeploy, TypeOK
  PROVE  /\ UNCHANGED <<jobs, tries, requeues, records, chunks, target, req, edits, unqueued>>
         /\ workers' \in [Workers -> WorkerState]
         /\ \A w \in Workers :
                \/ ~Holding(w)' /\ ingest'[w] = NotLoaded /\ Generation[w] = OldVersion
                \/ /\ workers'[w] = workers[w] /\ ingest'[w] = ingest[w]
                   /\ Generation[w] # OldVersion
  <1> DEFINE s == [Idle EXCEPT !.pc = "down"]
  <1>1. s \in WorkerState /\ s.pc = "down"
    BY IdleType DEF WorkerState, Phases
  <1> QED
    BY <1>1 DEF Redeploy, TypeOK, WorkerState, Holding, Old

LEMMA RedeployKeeps ==
  ASSUME StoreInv, Redeploy PROVE StoreInv'
  <1> USE TypedPart, Placeholders DEF StoreInv, Typed
  <1>1. /\ UNCHANGED <<jobs, tries, requeues, records, chunks, target, req, edits, unqueued>>
        /\ workers' \in [Workers -> WorkerState]
        /\ \A w \in Workers :
               \/ ~Holding(w)' /\ ingest'[w] = NotLoaded
               \/ workers'[w] = workers[w] /\ ingest'[w] = ingest[w]
    BY RedeployCrashes
  <1>2. TypeOK'
    BY <1>1 DEF TypeOK, WorkerState, Holding
  <1>3. ingest' \in [Workers -> IngestType]
    BY DEF Redeploy
  <1>4. Typed'
    BY <1>1, <1>3
  <1>5. RecordsKept' /\ RequestsKept'
    BY <1>1 DEF RecordsKept, RequestsKept, Known
  <1>6. JobsKept'
    BY <1>1 DEF JobsKept, Known, Holding
  <1>7. IngestsKept'
    BY <1>1 DEF IngestsKept, NotLoaded
  <1> QED
    BY <1>2, <1>4, <1>5, <1>6, <1>7

LEMMA InsertionKeeps ==
  ASSUME StoreInv, NEW x \in Records, ToolInserts(x) PROVE StoreInv'
  <1>1. req' \in [Handlers -> RequestType] /\ unqueued' \subseteq Records /\ RequestsKept'
    BY TypedPart DEF ToolInserts, StoreInv, Typed, RequestsKept, Known
  <1> QED
    BY <1>1, EnqueueKeeps DEF ToolInserts

\* Records are never deleted.
LEMMA KnownStay ==
  ASSUME StoreInv, [StoreNext]_allVars, NEW r \in Records, Known(r) PROVE Known(r)'
  <1> USE TypedPart DEF StoreInv, Typed
  <1>1. CASE UNCHANGED records
    BY <1>1 DEF Known
  <1>2. ASSUME NEW h \in Handlers, NEW x \in Records, NEW s \in {"draft", "published"},
               CreateRecord(h, x, s)
        PROVE  Known(r)'
    BY <1>2 DEF CreateRecord, Known
  <1>3. ASSUME NEW h \in Handlers, WritePatch(h) PROVE Known(r)'
    <2>1. r = req[h].rec => Patched(h).status # "none"
      BY DEF Patched, Known, RequestType, AllPatches
    <2> QED
      BY <1>3, <2>1 DEF WritePatch, Known
  <1>4. ASSUME NEW w \in Workers, RaiseWatermark(w) PROVE Known(r)'
    BY <1>4 DEF RaiseWatermark, Known, RecordType
  <1> QED
    BY <1>1, <1>2, <1>3, <1>4
    DEF StoreNext, Api, Serve, Request, ReadExisting, EnqueueEmbedJob, SyncChunkMeta,
        PurgeChunks, RequestDies, WorkerStep, Ingest, LoadRecord, Embed, UpsertChunk,
        DeleteOrphans, IngestThrows, QueueStep, WorkerCrash, OperatorRequeues, TimePasses,
        storeVars, allVars

LEMMA ToolKeeps ==
  ASSUME ReembedInv, [ReembedNext]_reembedVars, StoreInv' PROVE ToolKept'
  <1> USE DEF ReembedInv, ToolKept
  <1>1. \A r \in Records : Known(r) => Known(r)'
    <2>1. [StoreNext]_allVars => \A r \in Records : Known(r) => Known(r)'
      BY KnownStay
    <2>2. CASE Redeploy \/ \E x \in Records : ToolInserts(x)
      BY <2>2 DEF Redeploy, ToolInserts, Known
    <2> QED
      BY <2>1, <2>2, StepKinds
  <1>2. CASE Redeploy
    BY <1>1, <1>2 DEF Redeploy, toolVars, ToolType
  <1>3. CASE FindStale
    <2>1. \A r \in Records : records[r].status = "published" => Known(r)
      BY DEF Known
    <2> QED
      BY <1>1, <1>3, <2>1 DEF FindStale, ToolType
  <1>4. CASE SkipQueued
    BY <1>1, <1>4 DEF SkipQueued, ToolType
  <1>5. ASSUME NEW x \in Records, InsertJob(x) PROVE ToolKept'
    BY <1>1, <1>5 DEF InsertJob, ToolType
  <1>6. CASE ToolDies
    BY <1>6 DEF ToolDies, NoRun, ToolType
  <1>7. CASE StoreStep \/ UNCHANGED reembedVars
    BY <1>1, <1>7 DEF StoreStep, reembedVars, ToolType
  <1> QED
    BY <1>2, <1>3, <1>4, <1>5, <1>6, <1>7 DEF ReembedNext, Tool

LEMMA ReembedStarts == ReembedInit => ReembedInv
  BY StoreStarts DEF ReembedInit, ReembedInv, ToolKept, ToolType, NoRun

LEMMA ReembedKept == ReembedInv /\ [ReembedNext]_reembedVars => ReembedInv'
  <1> SUFFICES ASSUME ReembedInv, [ReembedNext]_reembedVars PROVE StoreInv'
    BY ToolKeeps DEF ReembedInv
  <1> QED
    BY StepKinds, StoreKept, RedeployKeeps, InsertionKeeps DEF ReembedInv

LEMMA ReembedAlways == ReembedSpec => []ReembedInv
  BY ReembedStarts, ReembedKept, PTL DEF ReembedSpec

\* With a redeployment in the middle and the tool writing beside the API, all
\* collections keep their types.
THEOREM ReembedTypeCorrect == ReembedSpec => []StoreTypeOK
  <1>1. ReembedInv => StoreTypeOK
    BY DEF ReembedInv, StoreInv
  <1> QED
    BY <1>1, ReembedAlways, PTL

-----------------------------------------------------------------------------
(* The queue: stopping the old workers mid-job is several crashes at once. *)

ReembedLeases == ReembedInv /\ LeaseInv

LEMMA RedeployLeases ==
  ASSUME LeaseInv, Redeploy PROVE LeaseInv'
  <1> USE DEF LeaseInv, BudgetInv
  <1>1. /\ UNCHANGED <<jobs, tries, requeues>>
        /\ workers' \in [Workers -> WorkerState]
        /\ \A w \in Workers : ~Holding(w)' \/ workers'[w] = workers[w]
    BY RedeployCrashes
  <1>2. TypeOK'
    BY <1>1 DEF TypeOK, WorkerState, Holding
  <1>3. RetryBudget' /\ HeldBudget'
    BY <1>1 DEF RetryBudget, HeldBudget, Holding
  <1>4. LeaseKept' /\ NoSharedJob'
    BY <1>1, LeaseMove DEF HoldsOn, Holding
  <1>5. TriesKept'
    BY <1>1 DEF TriesKept, TriesMatch
  <1> QED
    BY <1>2, <1>3, <1>4, <1>5

LEMMA LeasesStep ==
  ASSUME ~StallsAllowed, ~RepliesLost, ReembedLeases, [ReembedNext]_reembedVars
  PROVE  ReembedLeases' /\ [Lifecycle!LNext]_Documents
  <1> USE DEF ReembedLeases
  <1>0. ReembedInv'
    BY ReembedKept
  <1>1. ASSUME [Next]_vars PROVE LeaseInv' /\ [Lifecycle!LNext]_Documents
    BY <1>1, LeaseStep, MapStep
  <1>2. CASE [StoreNext]_allVars
    BY <1>0, <1>1, <1>2, StoreStepIsQueueStep
  <1>3. ASSUME NEW x \in Records, ToolInserts(x) PROVE [Next]_vars
    BY <1>3 DEF ToolInserts, Next
  <1>4. CASE Redeploy
    <2>1. UNCHANGED Documents
      BY <1>4 DEF Redeploy, Documents
    <2> QED
      BY <1>0, <1>4, <2>1, RedeployLeases
  <1> QED
    BY <1>0, <1>1, <1>2, <1>3, <1>4, StepKinds

LEMMA LeasesAlways ==
  ASSUME ~StallsAllowed, ~RepliesLost
  PROVE  ReembedSpec => []ReembedLeases /\ [][Lifecycle!LNext]_Documents
  <1>1. ReembedInit => ReembedLeases
    BY ReembedStarts, LeaseInit DEF ReembedInit, StoreInit, ReembedLeases
  <1>2. ReembedLeases /\ [ReembedNext]_reembedVars =>
            ReembedLeases' /\ [Lifecycle!LNext]_Documents
    BY LeasesStep
  <1> QED
    BY <1>1, <1>2, PTL DEF ReembedSpec

\* Workers stopped in the middle of a job leave it to its lease: whoever takes
\* it over works on it alone.
THEOREM RedeployedNeverShared ==
  ASSUME ~StallsAllowed, ~RepliesLost PROVE ReembedSpec => []NoSharedJob
  <1>1. ReembedLeases => NoSharedJob
    BY DEF ReembedLeases, LeaseInv
  <1> QED
    BY <1>1, LeasesAlways, PTL

\* Nor does a redeployment, or the jobs the tool inserts, take a document off
\* the state diagram.
THEOREM ReembeddingImplementsLifecycle ==
  ASSUME ~StallsAllowed, ~RepliesLost PROVE ReembedSpec => FollowsLifecycle
  <1>1. ReembedInit => Lifecycle!LInit
    BY DEF ReembedInit, StoreInit, Init, Lifecycle!LInit, Documents
  <1> QED
    BY <1>1, LeasesAlways, PTL DEF ReembedSpec, FollowsLifecycle, Lifecycle!LSpec

-----------------------------------------------------------------------------
(* The index while two versions run.                                       *)

LEMMA GenerationsAreNumbers == \A g \in Generations : g \in Nat /\ g > 0
  BY StoreAssumption DEF Generations

LEMMA WatermarkTypes ==
  /\ StoreInv => \A r \in Records : records[r].watermark \in Nat
  /\ StoreInv' => (\A r \in Records : records[r].watermark \in Nat)'
  <1>1. StoreInv => \A r \in Records : records[r].watermark \in Nat
    <2> SUFFICES ASSUME StoreInv, NEW r \in Records PROVE records[r].watermark \in Nat
      OBVIOUS
    <2>1. records[r].watermark \in {0} \cup Generations
      BY TypedPart DEF StoreInv, Typed, RecordType
    <2> QED
      BY <2>1, GenerationsAreNumbers
  <1>2. StoreInv' => (\A r \in Records : records[r].watermark \in Nat)'
    BY <1>1, PTL
  <1> QED
    BY <1>1, <1>2

LEMMA WatermarksRise ==
  ASSUME ReembedInv, [ReembedNext]_reembedVars, NEW r \in Records
  PROVE  records'[r].watermark >= records[r].watermark
  <1>1. CASE [StoreNext]_allVars
    BY <1>1, WatermarkStep DEF ReembedInv
  <1>2. CASE UNCHANGED records
    BY <1>2, WatermarkTypes DEF ReembedInv
  <1> QED
    BY <1>1, <1>2, StepKinds DEF Redeploy, ToolInserts

\* No watermark goes back when the new version is deployed, nor while old
\* workers live on beside it.
THEOREM RedeployKeepsWatermarks == ReembedSpec => WatermarkNeverDrops
  <1>1. ReembedInv /\ [ReembedNext]_reembedVars =>
            [\A r \in Records : records'[r].watermark >= records[r].watermark]_allVars
    BY WatermarksRise
  <1> QED
    BY <1>1, ReembedAlways, PTL DEF ReembedSpec, WatermarkNeverDrops

LEMMA RedeployServes ==
  ASSUME ServeInv, StoreInv', Redeploy \/ \E x \in Records : ToolInserts(x)
  PROVE  ServeInv'
  <1> USE TypedPart DEF ServeInv, StoreInv, Typed
  <1>1. UNCHANGED <<records, chunks, req, edits>>
    BY DEF Redeploy, ToolInserts
  <1>2. ASSUME NEW w \in Workers
        PROVE  \/ ingest'[w].step = "load" /\ ingest'[w].body \in {0, ingest[w].body}
               \/ /\ ingest[w].step # "load" /\ ingest'[w].body = ingest[w].body
                  /\ RecordOf(w)' = RecordOf(w)
    <2>1. CASE Redeploy
      <3>1. UNCHANGED target
        BY <2>1, RedeployCrashes
      <3>2. \/ ingest'[w] = NotLoaded
            \/ workers'[w] = workers[w] /\ ingest'[w] = ingest[w]
        BY <2>1, RedeployCrashes
      <3> QED
        BY <3>1, <3>2 DEF NotLoaded, RecordOf
    <2>2. ASSUME NEW x \in Records, ToolInserts(x)
          PROVE  ingest'[w] = ingest[w] /\ (Holding(w) => RecordOf(w)' = RecordOf(w))
      BY <2>2, EnqueueMovesNobody DEF ToolInserts
    <2>3. ingest[w].step # "load" => Holding(w)
      BY DEF IngestsKept, Holding
    <2> QED
      BY <2>1, <2>2, <2>3
  <1> QED
    BY <1>1, <1>2, NoTextKeeps

\* While the new version is built up, the old one goes on answering: neither
\* generation loses a record it holds to an embedding, its own or the other's.
THEOREM RedeployedStaysServed ==
  ASSUME OneWorkerEach, \A b \in Contents : ChunkCount[b] > 0
  PROVE  ReembedSpec => GenerationsStayServed
  <1>1. ReembedInit => ServeInv /\ ReembedInv
    BY ServeStarts, ReembedStarts DEF ReembedInit
  <1>2. ServeInv /\ ReembedInv /\ [ReembedNext]_reembedVars => ServeInv' /\ ReembedInv'
    <2> SUFFICES ASSUME ServeInv, ReembedInv, [ReembedNext]_reembedVars PROVE ServeInv'
      BY ReembedKept
    <2>1. StoreInv'
      BY ReembedKept DEF ReembedInv
    <2> QED
      BY <2>1, StepKinds, ServeStep, RedeployServes
  <1>3. ServeInv => [\A r \in Records : \A g \in Generations :
            Indexed(r, g) /\ (\E w \in Workers : Ingest(w)) => Indexed(r, g)']_allVars
    BY ServedStep
  <1> QED
    BY <1>1, <1>2, <1>3, PTL DEF ReembedSpec, GenerationsStayServed

-----------------------------------------------------------------------------
(* The tool.                                                               *)

\* A worker about to report success has raised the watermark of its record.
CompletedRaised ==
    \A w \in Workers : workers[w].pc = "completing" =>
        records[RecordOf(w)].watermark >= Generation[w]

\* The tool has not passed over record r yet.
Exempt(r) ==
    /\ records[r].watermark < NewVersion
    /\ \/ tool.pc = "idle"
       \/ tool.pc = "found" /\ r \in tool.stale
       \/ tool.pc = "inserting" /\ r \in tool.todo

\* Before the deployment nobody has heard of the new version.
NewUnseen ==
    deployed = OldVersion =>
        /\ tool.pc = "idle"
        /\ \A r \in Records : records[r].watermark \in {0, OldVersion}

\* In an orderly deployment only workers of the deployed version hold jobs,
\* and in the new one every published record is pledged to the index, is in
\* it, or is still to be looked at by the tool.
OrderlyKept ==
    /\ \A w \in Workers : Holding(w) => Generation[w] = deployed
    /\ HeldRunning
    /\ NewUnseen
    /\ deployed = NewVersion =>
           \A r \in Records : Owed(r) =>
               \/ Pledged(r)
               \/ Resting(r) /\ (Settled(r, NewVersion) \/ Exempt(r))

ReembedCoverInv ==
    /\ ReembedInv /\ ReadsHold /\ CompletedRaised
    /\ orderly => OrderlyKept

\* A worker step moves one worker.
LEMMA WorkerStepMoves ==
  ASSUME StoreInv, NEW w \in Workers, WorkerStep(w), NEW v \in Workers, v # w
  PROVE  workers'[v] = workers[v]
  <1> USE TypedPart DEF StoreInv, TypeOK
  <1>1. ASSUME NEW j \in JobIds, ReclaimExpired(w, j) \/ ClaimPending(w, j)
        PROVE  workers'[v] = workers[v]
    BY <1>1 DEF ReclaimExpired, ClaimPending, Take
  <1> QED
    BY <1>1
    DEF WorkerStep, Ingest, LoadRecord, Embed, UpsertChunk, DeleteOrphans, RaiseWatermark,
        IngestThrows, IngestSucceeds, IngestFails, QueueStep, WorkerCrash, Claim, NoneExpired,
        NothingDue, CompleteJob, CompleteThrows, FailJob, FailThrows, Release, Crash, Restart,
        vars

\* Ingestion ends in one place.
LEMMA CompletingBegins ==
  ASSUME StoreInv, NEW w \in Workers, WorkerStep(w), workers'[w].pc = "completing"
  PROVE  /\ workers'[w].job = workers[w].job
         /\ workers[w].pc = "completing" \/ RaiseWatermark(w)
         /\ Holding(w) /\ UNCHANGED target
  <1> USE TypedPart DEF StoreInv, TypeOK
  <1>1. ASSUME NEW j \in JobIds, ReclaimExpired(w, j) \/ ClaimPending(w, j)
        PROVE  FALSE
    BY <1>1 DEF ReclaimExpired, ClaimPending, Take
  <1>2. ~(NoneExpired(w) \/ NothingDue(w) \/ CompleteJob(w) \/ CompleteThrows(w)
          \/ FailJob(w) \/ FailThrows(w) \/ Restart(w) \/ Crash(w)
          \/ \E p \in BOOLEAN : IngestFails(w, p))
    BY DEF NoneExpired, NothingDue, CompleteJob, CompleteThrows, FailJob, FailThrows, Release,
           Idle, Crash, Restart, IngestFails
  <1>3. CASE RaiseWatermark(w)
    BY <1>3 DEF RaiseWatermark, IngestSucceeds, Holding
  <1>4. CASE LoadRecord(w) \/ Embed(w) \/ UpsertChunk(w) \/ DeleteOrphans(w)
    BY <1>4 DEF LoadRecord, Embed, UpsertChunk, DeleteOrphans, AtStep, vars
  <1> QED
    BY <1>1, <1>2, <1>3, <1>4
    DEF WorkerStep, Ingest, IngestThrows, QueueStep, WorkerCrash, Claim

LEMMA CompletedKeeps ==
  ASSUME ReembedInv, CompletedRaised, [ReembedNext]_reembedVars
  PROVE  CompletedRaised'
  <1> USE DEF ReembedInv
  <1> SUFFICES ASSUME NEW w \in Workers, workers'[w].pc = "completing"
               PROVE  (records[RecordOf(w)].watermark >= Generation[w])'
    BY DEF CompletedRaised
  <1>0. Generation[w] \in Nat /\ StoreInv'
    BY ReembedKept, GenerationsAreNumbers DEF Generations
  <1>1. ASSUME workers[w].pc = "completing", RecordOf(w)' = RecordOf(w)
        PROVE  (records[RecordOf(w)].watermark >= Generation[w])'
    <2>1. RecordOf(w) \in Records
      BY <1>1, RecordInHand DEF Holding
    <2>2. records'[RecordOf(w)].watermark >= records[RecordOf(w)].watermark
      BY <2>1, WatermarksRise
    <2>3. records'[RecordOf(w)].watermark \in Nat /\ records[RecordOf(w)].watermark \in Nat
      BY <1>0, <2>1, WatermarkTypes
    <2> QED
      BY <1>0, <1>1, <2>2, <2>3 DEF CompletedRaised
  <1>2. ASSUME NEW v \in Workers, WorkerStep(v)
        PROVE  (records[RecordOf(w)].watermark >= Generation[w])'
    <2>1. CASE v # w
      <3>1. workers'[w] = workers[w] /\ UNCHANGED target
        BY <1>2, <2>1, WorkerStepMoves
        DEF WorkerStep, Ingest, LoadRecord, Embed, UpsertChunk, DeleteOrphans, RaiseWatermark,
            IngestThrows, QueueStep, WorkerCrash, storeVars
      <3> QED
        BY <1>1, <3>1 DEF RecordOf
    <2>2. CASE v = w
      <3>1. /\ workers[w].pc = "completing" \/ RaiseWatermark(w)
            /\ Holding(w) /\ RecordOf(w)' = RecordOf(w)
        BY <1>2, <2>2, CompletingBegins DEF RecordOf
      <3>2. ASSUME RaiseWatermark(w)
            PROVE  records'[RecordOf(w)].watermark = Raised(w, records[RecordOf(w)].watermark)
        BY <3>1, <3>2, RecordInHand, TypedPart DEF RaiseWatermark, StoreInv, Typed, RecordType
      <3>3. RecordOf(w) \in Records /\ records[RecordOf(w)].watermark \in Nat
        BY <3>1, RecordInHand, WatermarkTypes
      <3> QED
        BY <1>0, <1>1, <3>1, <3>2, <3>3 DEF Raised
    <2> QED
      BY <2>1, <2>2
  <1>3. CASE Redeploy
    <2>1. workers'[w] = workers[w] /\ UNCHANGED target
      BY <1>3, RedeployCrashes, TypedPart DEF StoreInv, Holding
    <2> QED
      BY <1>1, <2>1 DEF RecordOf
  <1>4. ASSUME NEW x \in Records, ToolInserts(x)
        PROVE  (records[RecordOf(w)].watermark >= Generation[w])'
    <2>1. UNCHANGED workers
      BY <1>4 DEF ToolInserts, Enqueue
    <2> QED
      BY <1>1, <1>4, <2>1, EnqueueMovesNobody DEF ToolInserts, Holding
  <1>5. CASE UNCHANGED <<workers, target>>
    BY <1>1, <1>5 DEF RecordOf
  <1>6. ASSUME NEW h \in Handlers, EnqueueEmbedJob(h)
        PROVE  (records[RecordOf(w)].watermark >= Generation[w])'
    <2>1. UNCHANGED workers
      BY <1>6 DEF EnqueueEmbedJob, Enqueue
    <2> QED
      BY <1>1, <1>6, <2>1, EnqueueMovesNobody DEF EnqueueEmbedJob, Holding
  <1>7. ASSUME TimePasses PROVE (records[RecordOf(w)].watermark >= Generation[w])'
    <2>1. workers'[w].pc = workers[w].pc /\ workers'[w].job = workers[w].job /\ UNCHANGED target
      BY <1>7, TypedPart DEF TimePasses, Tick, TypeOK, StoreInv, storeVars
    <2> QED
      BY <1>1, <2>1 DEF RecordOf
  <1> QED
    BY <1>2, <1>3, <1>4, <1>5, <1>6, <1>7, StepKinds
    DEF StoreNext, Api, Serve, Request, CreateRecord, ReadExisting, WritePatch, SyncChunkMeta,
        PurgeChunks, RequestDies, OperatorRequeues, Requeue, storeVars, allVars, vars

\* An orderly deployment has one worker that may hold anything.
LEMMA OnlyOneHolds ==
  ASSUME OneWorkerEach, orderly, OrderlyKept, NEW w \in Workers, Active(w)
  PROVE  Generation[w] = deployed /\ \A v \in Workers : Holding(v) => v = w
  BY DEF OrderlyKept, Active, OneWorkerEach

\* What the store does by itself to the records, in the new version.
LEMMA StoreCarries ==
  ASSUME OneWorkerEach, ReembedInv, ReadsHold, orderly, OrderlyKept, StoreStep,
         deployed = NewVersion, NEW r \in Records
  PROVE  Carries(r, NewVersion)
  <1> USE DEF ReembedInv, OrderlyKept
  <1>0. /\ NewVersion \in Generations /\ records[r].watermark \in {0} \cup Generations
        /\ records[r].watermark <= NewVersion
    <2>1. records[r].watermark \in {0} \cup Generations
      BY TypedPart DEF StoreInv, Typed, RecordType
    <2>2. OldVersion < NewVersion /\ Generations = {OldVersion, NewVersion}
      BY ReembedAssumption
    <2>3. OldVersion \in Nat /\ NewVersion \in Nat
      BY <2>2, GenerationsAreNumbers
    <2> QED
      BY <2>1, <2>2, <2>3
  <1>1. CASE Api
    BY <1>0, <1>1, ApiCarries
  <1>2. ASSUME NEW w \in Workers, Active(w), WorkerStep(w) PROVE Carries(r, NewVersion)
    <2>1. Generation[w] = NewVersion /\ \A v \in Workers : Holding(v) => v = w
      BY <1>2, OnlyOneHolds
    <2>2. CASE Ingest(w)
      <3>1. Carries(r, Generation[w])
        BY <1>0, <2>1, <2>2, IngestCarries
      <3> QED
        BY <2>1, <3>1
    <2> QED
      BY <1>0, <1>2, <2>1, <2>2, QueueCarries DEF WorkerStep
  <1>3. CASE (\E j \in JobIds : OperatorRequeues(j)) \/ TimePasses
    BY <1>0, <1>3, OutsideCarries
  <1> QED
    BY <1>1, <1>2, <1>3 DEF StoreStep, Api

LEMMA OrderlyStore ==
  ASSUME OneWorkerEach, ReembedInv, ReembedInv', ReadsHold, orderly, OrderlyKept, StoreStep
  PROVE  OrderlyKept'
  <1> USE DEF ReembedInv
  <1>0. UNCHANGED <<orderly, deployed, tool>>
    BY DEF StoreStep
  <1>1. \A v \in Workers : Holding(v)' => Generation[v] = deployed'
    <2>1. ASSUME NEW w \in Workers, Active(w), WorkerStep(w)
          PROVE  \A v \in Workers : Holding(v)' => Generation[v] = deployed
      BY <2>1, OnlyOneHolds, WorkerStepMoves DEF OrderlyKept, Holding
    <2>2. ASSUME \A v \in Workers : workers'[v].pc = workers[v].pc
          PROVE  \A v \in Workers : Holding(v)' => Generation[v] = deployed
      BY <2>2 DEF OrderlyKept, Holding
    <2>3. TimePasses => \A v \in Workers : workers'[v].pc = workers[v].pc
      BY TypedPart DEF TimePasses, Tick, TypeOK, StoreInv
    <2>4. UNCHANGED workers => \A v \in Workers : workers'[v].pc = workers[v].pc
      OBVIOUS
    <2> QED
      BY <1>0, <2>1, <2>2, <2>3, <2>4
      DEF StoreStep, Serve, Request, CreateRecord, ReadExisting, WritePatch, EnqueueEmbedJob,
          Enqueue, SyncChunkMeta, PurgeChunks, RequestDies, OperatorRequeues, Requeue, vars
  <1>2. HeldRunning'
    BY HeldRunningKeeps, OnlyOneHolds DEF OrderlyKept, StoreStep, Api
  <1>3. NewUnseen'
    <2> SUFFICES ASSUME deployed = OldVersion, NEW r \in Records
                 PROVE  records'[r].watermark \in {0, OldVersion}
      BY <1>0 DEF OrderlyKept, NewUnseen
    <2>1. records[r].watermark \in {0, OldVersion}
      BY DEF OrderlyKept, NewUnseen
    <2>2. CASE UNCHANGED records
      BY <2>1, <2>2
    <2>3. ASSUME NEW h \in Handlers, NEW x \in Records, NEW s \in {"draft", "published"},
                 CreateRecord(h, x, s)
          PROVE  records'[r].watermark \in {0, OldVersion}
      BY <2>1, <2>3, TypedPart DEF CreateRecord, StoreInv, Typed
    <2>4. ASSUME NEW h \in Handlers, WritePatch(h)
          PROVE  records'[r].watermark \in {0, OldVersion}
      <3>1. Patched(h).watermark = records[req[h].rec].watermark
        BY DEF Patched
      <3> QED
        BY <2>1, <2>4, <3>1, TypedPart DEF WritePatch, StoreInv, Typed
    <2>5. ASSUME NEW w \in Workers, Active(w), RaiseWatermark(w)
          PROVE  records'[r].watermark \in {0, OldVersion}
      <3>1. Generation[w] = OldVersion
        BY <2>5, OnlyOneHolds
      <3>2. Raised(w, records[r].watermark) \in {0, OldVersion}
        BY <2>1, <3>1 DEF Raised
      <3>3. records'[r].watermark \in {records[r].watermark, Raised(w, records[r].watermark)}
        BY <2>5, TypedPart DEF RaiseWatermark, StoreInv, Typed, RecordType
      <3> QED
        BY <2>1, <3>2, <3>3
    <2> QED
      BY <2>2, <2>3, <2>4, <2>5
      DEF StoreStep, Serve, Request, ReadExisting, EnqueueEmbedJob, SyncChunkMeta, PurgeChunks,
          RequestDies, WorkerStep, Ingest, LoadRecord, Embed, UpsertChunk, DeleteOrphans,
          IngestThrows, QueueStep, WorkerCrash, OperatorRequeues, TimePasses, storeVars
  <1>4. ASSUME deployed = NewVersion, NEW r \in Records, Owed(r)'
        PROVE  (Pledged(r) \/ (Resting(r) /\ (Settled(r, NewVersion) \/ Exempt(r))))'
    <2>1. Carries(r, NewVersion)
      BY <1>4, StoreCarries
    <2> QED
      BY <1>0, <1>4, <2>1 DEF Carries, Settled, Exempt, OrderlyKept
  <1> QED
    BY <1>0, <1>1, <1>2, <1>3, <1>4 DEF OrderlyKept

\* The new version starts with nobody at work: what it owes is what has a job
\* and what the tool will find.
LEMMA OrderlyRedeploy ==
  ASSUME ReembedInv, ReembedInv', OrderlyKept, Redeploy PROVE OrderlyKept'
  <1> USE DEF ReembedInv
  <1>0. OldVersion \in Nat /\ NewVersion \in Nat /\ OldVersion < NewVersion
    BY ReembedAssumption, GenerationsAreNumbers
  <1>1. \A v \in Workers : ~Holding(v)'
    <2> SUFFICES ASSUME NEW v \in Workers PROVE ~Holding(v)'
      OBVIOUS
    <2>1. deployed = OldVersion
      BY DEF Redeploy
    <2>2. \/ ~Holding(v)'
          \/ workers'[v] = workers[v] /\ Generation[v] # OldVersion
      BY RedeployCrashes, TypedPart DEF StoreInv
    <2> QED
      BY <2>1, <2>2 DEF OrderlyKept, Holding
  <1>2. UNCHANGED <<records, tool>> /\ deployed = OldVersion /\ deployed' = NewVersion
    BY DEF Redeploy, toolVars
  <1>3. ASSUME NEW r \in Records PROVE Resting(r)' /\ Exempt(r)'
    <2>1. Resting(r)'
      BY <1>1 DEF Resting, Holding
    <2>2. records[r].watermark \in {0, OldVersion} /\ tool.pc = "idle"
      BY <1>2 DEF OrderlyKept, NewUnseen
    <2>3. records'[r].watermark < NewVersion
      BY <1>0, <1>2, <2>2
    <2> QED
      BY <1>2, <2>1, <2>2, <2>3 DEF Exempt
  <1>4. HeldRunning' /\ NewUnseen'
    BY <1>0, <1>1, <1>2 DEF HeldRunning, NewUnseen
  <1> QED
    BY <1>1, <1>3, <1>4 DEF OrderlyKept

\* A queued job that nobody is done with will do for the new version.
LEMMA QueuedIsPledged ==
  ASSUME ReembedInv, CompletedRaised, OrderlyKept, deployed = NewVersion,
         NEW r \in Records, Resting(r), records[r].watermark < NewVersion, Queued(r)
  PROVE  Pledged(r)
  <1>1. PICK j \in JobIds : target[j] = r /\ jobs[j].status \in {"pending", "running"}
    BY DEF Queued
  <1>2. ASSUME NEW w \in Workers, Holding(w), workers[w].job = j PROVE workers[w].pc = "failing"
    <2>1. RecordOf(w) = r /\ Generation[w] = NewVersion
      BY <1>1, <1>2 DEF RecordOf, OrderlyKept
    <2>2. workers[w].pc # "ingesting"
      BY <2>1 DEF Resting
    <2>3. NewVersion \in Nat /\ records[r].watermark \in Nat
      BY ReembedAssumption, GenerationsAreNumbers, WatermarkTypes DEF ReembedInv
    <2>4. workers[w].pc # "completing"
      BY <2>1, <2>3 DEF CompletedRaised
    <2> QED
      BY <1>2, <2>2, <2>4 DEF Holding
  <1> QED
    BY <1>1, <1>2 DEF Pledged, PledgedBy, Unspoiled

LEMMA OrderlyTool ==
  ASSUME ReembedInv, ReembedInv', CompletedRaised, orderly, OrderlyKept, Tool
  PROVE  OrderlyKept'
  <1> USE DEF ReembedInv
  <1>0. UNCHANGED <<deployed, workers, records>> /\ deployed = NewVersion
    <2>1. deployed \in {OldVersion, NewVersion}
      BY DEF ToolKept
    <2>2. tool.pc # "idle" => deployed # OldVersion
      BY DEF OrderlyKept, NewUnseen
    <2> QED
      BY <2>1, <2>2
      DEF Tool, FindStale, SkipQueued, InsertJob, Enqueue, ToolDies, allVars, vars, storeVars
  <1>1. NewUnseen'
    <2>1. OldVersion # NewVersion
      BY ReembedAssumption, GenerationsAreNumbers
    <2> QED
      BY <1>0, <2>1 DEF NewUnseen
  <1>2. \A v \in Workers : Holding(v)' => Generation[v] = deployed'
    BY <1>0 DEF OrderlyKept, Holding
  <1>3. HeldRunning'
    <2>1. CASE UNCHANGED jobs
      BY <1>0, <2>1 DEF OrderlyKept, HeldRunning, Holding
    <2>2. ASSUME NEW j \in JobIds, Enqueue(j) PROVE HeldRunning'
      BY <1>0, <2>2, TypedPart DEF OrderlyKept, HeldRunning, Holding, Enqueue, TypeOK, StoreInv
    <2> QED
      BY <2>1, <2>2
      DEF Tool, FindStale, SkipQueued, InsertJob, ToolDies, allVars, vars
  <1>4. ASSUME NEW r \in Records, Owed(r)'
        PROVE  (Pledged(r) \/ (Resting(r) /\ (Settled(r, NewVersion) \/ Exempt(r))))'
    <2>1. CASE UNCHANGED allVars
      <3>1. /\ Owed(r) /\ (Pledged(r)' <=> Pledged(r)) /\ (Resting(r)' <=> Resting(r))
            /\ Settled(r, NewVersion)' <=> Settled(r, NewVersion)
        BY <1>4, <2>1
        DEF allVars, vars, storeVars, Owed, GivenUp, Pledged, Ordered, PledgedBy, Unspoiled,
            Faithful, RecordOf, Resting, Settled, Indexed, Holding
      <3>2. ASSUME Exempt(r), Resting(r) PROVE Exempt(r)' \/ Pledged(r)
        <4>1. CASE FindStale
          BY <1>0, <3>1, <3>2, <4>1 DEF FindStale, Exempt, Owed
        <4>2. CASE SkipQueued
          <5>1. CASE Queued(r)
            BY <1>0, <3>2, <5>1, QueuedIsPledged DEF Exempt
          <5>2. CASE ~Queued(r)
            BY <1>0, <3>2, <4>2, <5>2 DEF SkipQueued, Exempt
          <5> QED
            BY <5>1, <5>2
        <4>3. CASE ToolDies
          BY <1>0, <3>2, <4>3 DEF ToolDies, NoRun, Exempt
        <4>4. ASSUME NEW x \in Records, InsertJob(x) PROVE FALSE
          BY <2>1, <4>4, TypedPart DEF InsertJob, Enqueue, allVars, vars, StoreInv, TypeOK
        <4> QED
          BY <4>1, <4>2, <4>3, <4>4 DEF Tool
      <3> QED
        BY <1>0, <3>1, <3>2 DEF OrderlyKept
    <2>2. ASSUME NEW x \in Records, InsertJob(x)
          PROVE  (Pledged(r) \/ (Resting(r) /\ (Settled(r, NewVersion) \/ Exempt(r))))'
      <3>1. NewVersion \in Generations /\ ToolInserts(x)
        BY <2>2, ReembedAssumption DEF InsertJob, ToolInserts, ToolKept
      <3>2. Carries(r, NewVersion)
        <4>1. (Ordered(r) => Ordered(r)') /\ (r \in unqueued => r \in unqueued')
          BY <3>1 DEF ToolInserts, Ordered
        <4> QED
          BY <3>1, <4>1, InsertionCarries DEF ToolInserts
      <3>3. CASE r = x
        <4>1. PICK j \in JobIds : Enqueue(j) /\ target' = [target EXCEPT ![j] = x]
          BY <3>1 DEF ToolInserts
        <4>2. jobs'[j].status = "pending" /\ target'[j] = r /\ jobs[j].status = "none"
          BY <3>3, <4>1, TypedPart DEF Enqueue, StoreInv, TypeOK, Typed
        <4>3. \A w \in Workers : Holding(w)' => workers'[w].job # j
          BY <1>0, <4>2 DEF StoreInv, JobsKept, Holding
        <4> QED
          BY <4>2, <4>3 DEF Pledged, PledgedBy, Unspoiled
      <3>4. CASE r # x
        <4>1. Exempt(r) => Exempt(r)'
          BY <1>0, <2>2, <3>4 DEF InsertJob, Exempt, ToolKept, ToolType
        <4> QED
          BY <1>0, <1>4, <3>2, <4>1 DEF Carries, Settled, OrderlyKept
      <3> QED
        BY <3>3, <3>4
    <2> QED
      BY <1>4, <2>1, <2>2 DEF Tool, FindStale, SkipQueued, ToolDies
  <1> QED
    BY <1>0, <1>1, <1>2, <1>3, <1>4 DEF OrderlyKept

LEMMA ReembedReadsHold ==
  ASSUME ReembedInv, ReadsHold, [ReembedNext]_reembedVars, [StatusLeftAlone]_allVars
  PROVE  ReadsHold'
  <1>1. CASE [StoreNext]_allVars
    <2>1. CASE UNCHANGED allVars
      BY <2>1, ReadsHoldElsewhere DEF ReembedInv
    <2>2. CASE StoreNext /\ StatusLeftAlone
      BY <2>2, ReadsHoldInApi, ReadsHoldElsewhere DEF StoreNext, ReembedInv
    <2> QED
      BY <1>1, <2>1, <2>2
  <1>2. CASE Redeploy \/ \E x \in Records : ToolInserts(x)
    BY <1>2 DEF Redeploy, ToolInserts, ReadsHold
  <1> QED
    BY <1>1, <1>2, StepKinds

LEMMA ReembedCoverStep ==
  ASSUME OneWorkerEach, ReembedCoverInv, [ReembedNext]_reembedVars, [StatusLeftAlone]_allVars
  PROVE  ReembedCoverInv'
  <1> USE DEF ReembedCoverInv
  <1>1. ReembedInv' /\ CompletedRaised' /\ ReadsHold'
    BY ReembedKept, CompletedKeeps, ReembedReadsHold
  <1>2. orderly' = orderly
    BY DEF ReembedNext, Redeploy, Tool, FindStale, SkipQueued, InsertJob, ToolDies, StoreStep,
           reembedVars
  <1>3. ASSUME orderly, UNCHANGED reembedVars PROVE OrderlyKept'
    BY SMTT(20), <1>3
    DEF reembedVars, allVars, vars, storeVars, OrderlyKept, HeldRunning, NewUnseen, Exempt,
        Owed, GivenUp, Pledged, Ordered, PledgedBy, Unspoiled, Faithful, RecordOf, Resting,
        Settled, Indexed, Holding
  <1> QED
    BY <1>1, <1>2, <1>3, OrderlyStore, OrderlyRedeploy, OrderlyTool DEF ReembedNext

LEMMA ReembedCoverStarts == ReembedInit => ReembedCoverInv
  <1> SUFFICES ASSUME ReembedInit PROVE ReembedCoverInv
    OBVIOUS
  <1>1. ReadsHold /\ CompletedRaised /\ HeldRunning /\ \A w \in Workers : ~Holding(w)
    BY DEF ReembedInit, StoreInit, Init, Idle, NoRequest, ReadsHold, CompletedRaised,
           HeldRunning, Holding
  <1>2. NewUnseen /\ \A r \in Records : ~Owed(r)
    BY DEF ReembedInit, StoreInit, NoRecord, NoRun, NewUnseen, Owed
  <1> QED
    BY <1>1, <1>2, ReembedStarts DEF ReembedCoverInv, OrderlyKept

\* An orderly upgrade with one worker per version: when a run of the tool has
\* finished and the queue is empty, every published record whose job was not
\* given up is in the new generation.  Any number of requests is in flight
\* meanwhile, as long as none changes the status of a record under another
\* request of that record, which can lose chunks here as well.  The tool may
\* pass over the records that have a job, insert its jobs beside those of the
\* API, and die and be run again; the old worker may be stopped anywhere, and
\* leases and replies may be lost.
THEOREM ReembeddingCoversAll ==
  ASSUME OneWorkerEach
  PROVE  ReembedSpec /\ [][StatusLeftAlone]_allVars => []ReembedCoversAll
  <1>1. ReembedCoverInv /\ [ReembedNext]_reembedVars /\ [StatusLeftAlone]_allVars =>
            ReembedCoverInv'
    BY ReembedCoverStep
  <1>2. ReembedCoverInv => ReembedCoversAll
    <2> SUFFICES ASSUME ReembedCoverInv, orderly, Quiescent, tool.pc = "finished",
                        NEW r \in Records, records[r].status = "published", ~GivenUp(r)
                 PROVE  Settled(r, NewVersion)
      BY DEF ReembedCoversAll, Settled
    <2>1. Owed(r) /\ ~Exempt(r)
      BY DEF Owed, Exempt
    <2>2. deployed = NewVersion
      BY DEF ReembedCoverInv, ReembedInv, ToolKept, OrderlyKept, NewUnseen
    <2> QED
      BY <2>1, <2>2, RestIsCovered DEF ReembedCoverInv, OrderlyKept
  <1> QED
    BY <1>1, <1>2, ReembedCoverStarts, PTL DEF ReembedSpec

=============================================================================
