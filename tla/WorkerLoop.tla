----------------------------- MODULE WorkerLoop -----------------------------
(***************************************************************************)
(* A worker process from its boot to its end (packages/worker/src/         *)
(* worker.cli.ts and worker.ts): the embedder and its key are tried, the   *)
(* database is reached, the generation claimed; then the loop polls the    *)
(* queue until a signal stops it.  The loop, its timer and the one who     *)
(* stops it take turns on one thread.                                      *)
(*                                                                         *)
(* What the queue holds is the business of EmbedQueue; here it is whether  *)
(* a job is running in this process's name.                                *)
(***************************************************************************)
EXTENDS Integers

CONSTANT MaxWorkerBoots     \* bound: processes started, one after the other

ASSUME WorkerLoopAssumption == MaxWorkerBoots \in Nat

VARIABLES
    process,    \* [pc, exit, signalled, boots]
    pollLoop,   \* [pc, stopping, wake]: runLoop, and the handle that wakes its idle
    running     \* jobs this process has claimed and not settled: "none", "held" by
                \* the loop, or "adrift": the queue could not be told, or did not tell

workerVars == <<process, pollLoop, running>>

NoLoop == [pc |-> "none", stopping |-> FALSE, wake |-> FALSE]
Stages == {"embedder", "credentials", "database", "generation"}
Alive == process.pc \in Stages \cup {"waiting", "stopping"}

WorkerLoopInit ==
    /\ process = [pc |-> "embedder", exit |-> -1, signalled |-> FALSE, boots |-> 1]
    /\ pollLoop = NoLoop
    /\ running = "none"

-----------------------------------------------------------------------------
(* main                                                                    *)

NextStage(stage) ==
    CASE stage = "embedder" -> "credentials"
      [] stage = "credentials" -> "database"
      [] stage = "database" -> "generation"

\* The ways a stage ends the process: a setting that is wrong (78), a database
\* that is not there (69), anything else (1).  A provider that is merely down
\* stops nobody: checkEmbedderCredentials goes on.
ExitCodes(stage) ==
    CASE stage = "embedder" -> {78}
      [] stage = "credentials" -> {78}
      [] stage = "database" -> {69, 78}
      [] stage = "generation" -> {78, 1}

BootStage ==
    /\ process.pc \in Stages
    /\ \/ /\ process.pc # "generation"
          /\ process' = [process EXCEPT !.pc = NextStage(process.pc)]
          /\ UNCHANGED pollLoop
       \/ /\ process.pc = "generation"
          /\ process' = [process EXCEPT !.pc = "waiting"]
          /\ pollLoop' = [NoLoop EXCEPT !.pc = "top"]
       \/ /\ \E code \in ExitCodes(process.pc) :
                process' = [process EXCEPT !.pc = "exited", !.exit = code]
          /\ UNCHANGED pollLoop
    /\ UNCHANGED running

\* SIGTERM or SIGINT.  Until the handlers are there it ends the process, and so
\* does the same signal once more.
Signal ==
    /\ Alive
    /\ process' = IF process.pc = "waiting" /\ ~process.signalled
                  THEN [process EXCEPT !.signalled = TRUE]
                  ELSE [process EXCEPT !.pc = "killed"]
    /\ pollLoop' = IF process'.pc = "killed" THEN NoLoop ELSE pollLoop
    /\ running' = IF process'.pc = "killed" /\ running = "held" THEN "adrift" ELSE running

\* Mutant: stop does not wait for the loop.
Stop_AtOnce ==
    /\ process.pc = "waiting" /\ process.signalled
    /\ process' = [process EXCEPT !.pc = "exited", !.exit = 0]
    /\ pollLoop' = [pollLoop EXCEPT !.stopping = TRUE]
    /\ UNCHANGED running

\* stop: the flag, and the handle if there is one.  Then main awaits the loop.
Stop ==
    /\ process.pc = "waiting" /\ process.signalled
    /\ process' = [process EXCEPT !.pc = "stopping"]
    /\ pollLoop' = [pollLoop EXCEPT !.stopping = TRUE, !.wake = FALSE,
                                    !.pc = IF pollLoop.wake THEN "top" ELSE @]
    /\ UNCHANGED running

\* The loop has ended: the connection is closed and the process ends.
Exit ==
    /\ process.pc = "stopping"
    /\ pollLoop.pc = "ended"
    /\ process' = [process EXCEPT !.pc = "exited", !.exit = 0]
    /\ UNCHANGED <<pollLoop, running>>

\* docker: restart unless-stopped.  What the last process left running is not
\* this one's.
StartAgain ==
    /\ process.pc \in {"exited", "killed"}
    /\ process.boots < MaxWorkerBoots
    /\ process' = [pc |-> "embedder", exit |-> -1, signalled |-> FALSE,
                   boots |-> process.boots + 1]
    /\ pollLoop' = NoLoop
    /\ running' = "none"

-----------------------------------------------------------------------------
(* runLoop                                                                 *)

Turn(pc) == pollLoop' = [pollLoop EXCEPT !.pc = pc]

\* while (!stopping)
LoopTop ==
    /\ Alive /\ pollLoop.pc = "top"
    /\ Turn(IF pollLoop.stopping THEN "ended" ELSE "claiming")
    /\ UNCHANGED <<process, running>>

\* claimNextJob: a job, none, or an error, whose claim may have been made.
ClaimNextJob ==
    /\ Alive /\ pollLoop.pc = "claiming"
    /\ \/ Turn("processing") /\ running' = "held"
       \/ Turn("resting") /\ running' \in {running, "adrift"}
    /\ UNCHANGED process

\* processClaimedJob: settled one way or the other, or the failure could not be
\* written either.
Settle ==
    /\ Alive /\ pollLoop.pc = "processing"
    /\ \/ Turn("top") /\ running' = "none"
       \/ Turn("resting") /\ running' = "adrift"
    /\ UNCHANGED process

\* idle, which leaves the handle; its timer takes it away again.
Rest ==
    /\ Alive /\ pollLoop.pc = "resting"
    /\ pollLoop' = [pollLoop EXCEPT !.pc = "idle", !.wake = TRUE]
    /\ UNCHANGED <<process, running>>

PollInterval ==
    /\ Alive /\ pollLoop.pc = "idle"
    /\ pollLoop' = [pollLoop EXCEPT !.pc = "top", !.wake = FALSE]
    /\ UNCHANGED <<process, running>>

LoopStep == LoopTop \/ ClaimNextJob \/ Settle \/ Rest \/ PollInterval

WorkerLoopNext == BootStage \/ Signal \/ Stop \/ Exit \/ StartAgain \/ LoopStep

WorkerLoopSpec == WorkerLoopInit /\ [][WorkerLoopNext]_workerVars

-----------------------------------------------------------------------------
(* Properties.                                                             *)

\* worker.ts, stop: the process ends in order only after the job in hand; what
\* it leaves running then is what it could not tell the queue of.  And no loop
\* goes on beside an end of the process.
ExitsEmptyHanded ==
    process.pc = "exited" => running # "held" /\ pollLoop.pc \in {"none", "ended"}
=============================================================================
