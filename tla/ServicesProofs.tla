--------------------------- MODULE ServicesProofs ---------------------------
(***************************************************************************)
(* Proofs about the processes and what they call:                          *)
(*   WorkersLeaveNothingInHand  the worker's loop,                         *)
(*   BootstrapVerifies          the runs of db-init,                       *)
(*   ToolsWriteOnce             the calls of the MCP server,               *)
(*   VectorsAnswerTheirTexts, WaitsFitTheLease  the embedder's client;     *)
(* and about how they come up on their host, for any number of containers, *)
(* versions, embedders, tags and deployments:                              *)
(*   SpacesKeptApart        vectors of two embedders never share a version *)
(*   DeploymentIsBooting    what deployments do to containers is a         *)
(*                          behaviour of EmbeddingGenerations, so that     *)
(*   DeploymentKeepsSpaces  the same holds on the host                     *)
(*   RollbackTargetIsGood   last-good has come up                          *)
(*   SuccessIsKept          a success serves and records its tag           *)
(*   DeploymentTypeCorrect  the types                                      *)
(***************************************************************************)
EXTENDS WorkerLoop, Bootstrap, ToolCalls, EmbedderCalls, Deployment, ListFacts

-----------------------------------------------------------------------------
(* The worker's loop.                                                      *)

Turns == {"top", "claiming", "processing", "resting", "idle"}

WorkerLoopType ==
    /\ process \in [pc : Stages \cup {"waiting", "stopping", "exited", "killed"},
                    exit : Int, signalled : BOOLEAN, boots : Nat]
    /\ pollLoop \in [pc : Turns \cup {"none", "ended"}, stopping : BOOLEAN, wake : BOOLEAN]
    /\ running \in {"none", "held", "adrift"}

\* There is no loop before the boot is through and none after a kill, one that
\* nobody stopped while main waits for a signal, and a stopped one after it;
\* a job is in its hand just while it processes one, and only an idle loop can
\* be woken.
LoopIsMinded ==
    /\ process.pc \in Stages \cup {"killed"} => pollLoop.pc = "none"
    /\ process.pc = "waiting" => pollLoop.pc \in Turns /\ ~pollLoop.stopping
    /\ process.pc = "stopping" => pollLoop.pc \in Turns \cup {"ended"} /\ pollLoop.stopping
    /\ process.pc = "exited" => pollLoop.pc \in {"none", "ended"}
    /\ running = "held" <=> pollLoop.pc = "processing"
    /\ pollLoop.wake => pollLoop.pc = "idle"

WorkerLoopInv == WorkerLoopType /\ LoopIsMinded

LEMMA BootKeepsLoop ==
  ASSUME WorkerLoopInv, BootStage
  PROVE  WorkerLoopInv'
  <1> USE DEF WorkerLoopInv, WorkerLoopType, LoopIsMinded, Stages, Turns
  <1>1. process.pc \in Stages /\ pollLoop.pc = "none" /\ running # "held" /\ running' = running
    BY DEF BootStage
  <1>2. CASE /\ process.pc # "generation"
             /\ process' = [process EXCEPT !.pc = NextStage(process.pc)]
             /\ UNCHANGED pollLoop
    <2>1. NextStage(process.pc) \in Stages
      BY <1>1, <1>2 DEF NextStage
    <2>2. QED
      BY <1>1, <1>2, <2>1
  <1>3. CASE /\ process' = [process EXCEPT !.pc = "waiting"]
             /\ pollLoop' = [NoLoop EXCEPT !.pc = "top"]
    BY <1>1, <1>3 DEF NoLoop
  <1>4. ASSUME NEW code \in ExitCodes(process.pc),
               process' = [process EXCEPT !.pc = "exited", !.exit = code],
               UNCHANGED pollLoop
        PROVE  WorkerLoopInv'
    <2>1. code \in Int
      BY <1>1 DEF ExitCodes
    <2>2. QED
      BY <1>1, <1>4, <2>1
  <1>5. QED
    BY <1>2, <1>3, <1>4 DEF BootStage

LEMMA SignalKeepsLoop ==
  ASSUME WorkerLoopInv, Signal
  PROVE  WorkerLoopInv'
  BY DEF WorkerLoopInv, WorkerLoopType, LoopIsMinded, Signal, Alive, Stages, Turns, NoLoop

LEMMA StopKeepsLoop ==
  ASSUME WorkerLoopInv, Stop \/ Exit \/ StartAgain
  PROVE  WorkerLoopInv'
  <1> USE WorkerLoopAssumption DEF WorkerLoopInv, WorkerLoopType, LoopIsMinded, Stages, Turns, NoLoop
  <1>1. CASE Stop
    <2>1. /\ process.pc = "waiting" /\ pollLoop.pc \in Turns
          /\ process' = [process EXCEPT !.pc = "stopping"] /\ running' = running
          /\ pollLoop' = [pollLoop EXCEPT !.stopping = TRUE, !.wake = FALSE,
                                          !.pc = IF pollLoop.wake THEN "top" ELSE @]
      BY <1>1 DEF Stop
    <2>2. WorkerLoopType'
      BY <2>1
    <2>3. /\ process'.pc = "stopping" /\ pollLoop'.pc \in Turns /\ pollLoop'.stopping
          /\ pollLoop'.pc = IF pollLoop.wake THEN "top" ELSE pollLoop.pc
      BY <2>1
    <2>4. pollLoop.wake => pollLoop.pc = "idle"
      OBVIOUS
    <2>5. QED
      BY <2>1, <2>2, <2>3, <2>4
  <1>2. CASE Exit
    <2>1. /\ pollLoop.pc = "ended" /\ pollLoop' = pollLoop /\ running' = running
          /\ process' = [process EXCEPT !.pc = "exited", !.exit = 0]
      BY <1>2 DEF Exit
    <2>2. WorkerLoopType'
      <3>1. process' \in [pc : Stages \cup {"waiting", "stopping", "exited", "killed"},
                           exit : Int, signalled : BOOLEAN, boots : Nat]
        <4>1. process \in [pc : Stages \cup {"waiting", "stopping", "exited", "killed"},
                            exit : Int, signalled : BOOLEAN, boots : Nat]
          OBVIOUS
        <4>2. QED
          BY <2>1, <4>1, 0 \in Int
      <3>2. QED
        BY <2>1, <3>1
    <2>3. process'.pc = "exited"
      BY <2>1
    <2>4. QED
      BY <2>1, <2>2, <2>3
  <1>3. CASE StartAgain
    BY <1>3 DEF StartAgain
  <1>4. QED
    BY <1>1, <1>2, <1>3

LEMMA LoopStepKeepsLoop ==
  ASSUME WorkerLoopInv, LoopStep
  PROVE  WorkerLoopInv'
  <1> USE DEF WorkerLoopInv, WorkerLoopType, LoopIsMinded, Stages, Turns, Alive, Turn
  <1>1. CASE LoopTop
    BY <1>1 DEF LoopTop
  <1>2. CASE ClaimNextJob
    BY <1>2 DEF ClaimNextJob
  <1>3. CASE Settle
    BY <1>3 DEF Settle
  <1>4. CASE Rest
    BY <1>4 DEF Rest
  <1>5. CASE PollInterval
    BY <1>5 DEF PollInterval
  <1>6. QED
    BY <1>1, <1>2, <1>3, <1>4, <1>5 DEF LoopStep

\* worker.ts, stop: a worker process that ends in order has no job in hand and
\* no loop going on beside its end, whatever signals and errors came when.
THEOREM WorkersLeaveNothingInHand == WorkerLoopSpec => []ExitsEmptyHanded
  <1>1. WorkerLoopInit => WorkerLoopInv
    BY DEF WorkerLoopInit, WorkerLoopInv, WorkerLoopType, LoopIsMinded, Stages, Turns, NoLoop
  <1>2. WorkerLoopInv /\ [WorkerLoopNext]_workerVars => WorkerLoopInv'
    <2>1. CASE UNCHANGED workerVars
      BY <2>1 DEF workerVars, WorkerLoopInv, WorkerLoopType, LoopIsMinded
    <2>2. QED
      BY <2>1, BootKeepsLoop, SignalKeepsLoop, StopKeepsLoop, LoopStepKeepsLoop
         DEF WorkerLoopNext
  <1>3. WorkerLoopInv => ExitsEmptyHanded
    BY DEF WorkerLoopInv, LoopIsMinded, ExitsEmptyHanded
  <1>4. QED
    BY <1>1, <1>2, <1>3, PTL DEF WorkerLoopSpec

-----------------------------------------------------------------------------
(* Tool calls.                                                             *)

Statuses == {"sent", "lost", "ok", "refused", "busy", "failed"}
Writes == {"record_knowledge", "suggest_resolution", "give_feedback"}
Reads == {"search_knowledge", "get_record"}

\* The requests that act are those that are sent once.
LEMMA WritesAct ==
  /\ Tools = Writes \cup Reads
  /\ \A tool \in Tools : Acts(tool) <=> tool \in Writes
  /\ \A tool \in Writes : Limit(tool) = 1
  <1> USE DEF Writes, Reads, RequestOf, registerSearchKnowledge, registerGetRecord,
              registerRecordKnowledge, registerSuggestResolution, registerGiveFeedback
  <1>1. Tools = Writes \cup Reads
    BY DEF Tools
  <1>2. \A tool \in Tools : Acts(tool) <=> tool \in Writes
    BY <1>1 DEF Acts
  <1>3. \A tool \in Writes : Limit(tool) = 1
    BY DEF Limit
  <1>4. QED
    BY <1>1, <1>2, <1>3

AllKeys == ApiKeys \cup {NoKey} \cup {s.key : s \in McpSettings}
AllProjects == {"none"} \cup {ParseApiKeys(s.mcp)[k] : s \in McpSettings, k \in AllKeys}

ToolCallType ==
    [pc : {"none", "sending", "waiting", "backoff", "answered"}, tool : Tools \cup {"none"},
     key : AllKeys, project : AllProjects, attempt : Nat,
     answer : {"none", "ok", "refused", "error", "unreachable", "internal", "arguments",
               "unauthorized", "unsafe"},
     warned : BOOLEAN]

ToolCallsType ==
    /\ setting \in McpSettings \cup {NotStarted}
    /\ toolCall \in [Calls -> ToolCallType]
    /\ wire \in [Calls -> Seq(Statuses)]
    /\ effects = [c \in Calls |-> effects[c]]

\* A call has sent a request for every attempt but the one it is about to make.
OneRequestEach(t, w) ==
    /\ Len(w) = IF t.pc = "sending" THEN t.attempt - 1 ELSE t.attempt
    /\ t.pc = "none" => t.attempt = 0
    /\ t.pc \in {"sending", "waiting", "backoff"} => t.attempt > 0 /\ t.tool \in Tools
    /\ t.answer # "none" => t.pc = "answered"
    /\ t.attempt > 0 => t.tool \in Tools
    /\ t.tool \in Writes => t.attempt <= 1 /\ t.pc # "backoff"

\* What a call left is told by the one request of a write: nothing before
\* core-api takes it, nothing by a refusal, one thing by a success; and what it
\* was told it cannot take back.
EffectTold(t, w, e) ==
    /\ t.tool \notin Writes \/ w = << >> => e = << >>
    /\ e = << >> \/ \E p : e = <<p>>
    /\ t.tool \in Writes /\ w # << >> =>
          /\ w[1] \in {"sent", "refused", "busy"} => e = << >>
          /\ w[1] = "ok" => e # << >>
    /\ t.answer = "ok" =>
          /\ t.tool \in Tools
          /\ t.tool \in Writes => w[1] # "sent" /\ e # << >>
          /\ t.tool = "record_knowledge" /\ ~t.warned => e = <<t.project>>
    /\ t.answer = "refused" => e = << >> /\ (t.tool \in Writes => w[1] # "sent")
    /\ t.answer \in {"arguments", "unauthorized"} => w = << >>

CallInv(c) == /\ OneRequestEach(toolCall[c], wire[c])
              /\ EffectTold(toolCall[c], wire[c], effects[c])

ToolCallsInv == ToolCallsType /\ \A c \in Calls : CallInv(c)

\* A step of one call is none of another.
LEMMA CallsApart ==
  ASSUME ToolCallsInv, NEW c \in Calls,
         toolCall' \in [Calls -> ToolCallType], wire' \in [Calls -> Seq(Statuses)],
         effects' = [d \in Calls |-> effects'[d]], setting' = setting,
         \A d \in Calls \ {c} : /\ toolCall'[d] = toolCall[d]
                                /\ wire'[d] = wire[d]
                                /\ effects'[d] = effects[d],
         CallInv(c)'
  PROVE  ToolCallsInv'
  BY DEF ToolCallsInv, ToolCallsType, CallInv

LEMMA UnauthorizedKeepsCalls ==
  ASSUME ToolCallsInv, NEW c \in Calls, Unauthorized(c)
  PROVE  ToolCallsInv'
  <1>1. PICK key \in ApiKeys \cup {NoKey} :
           toolCall' = [toolCall EXCEPT ![c] =
               [NoToolCall EXCEPT !.pc = "answered", !.key = key, !.answer = "unauthorized"]]
    BY DEF Unauthorized
  <1>2. /\ toolCall[c].pc = "none" /\ CallInv(c)
        /\ wire' = wire /\ effects' = effects /\ setting' = setting
    BY DEF Unauthorized, ToolCallsInv
  <1>3. [NoToolCall EXCEPT !.pc = "answered", !.key = key, !.answer = "unauthorized"]
           \in ToolCallType
    <2>1. key \in AllKeys /\ "none" \in AllProjects
      BY DEF AllKeys, AllProjects
    <2>2. QED
      BY <2>1 DEF ToolCallType, NoToolCall
  <1>4. toolCall' \in [Calls -> ToolCallType]
    BY <1>1, <1>3 DEF ToolCallsInv, ToolCallsType
  <1>5. wire[c] = << >> /\ effects[c] = << >>
    BY <1>2 DEF CallInv, OneRequestEach, EffectTold, ToolCallsInv, ToolCallsType
  <1>6. CallInv(c)'
    <2>1. toolCall'[c] = [NoToolCall EXCEPT !.pc = "answered", !.key = key,
                                            !.answer = "unauthorized"]
      BY <1>1 DEF ToolCallsInv, ToolCallsType
    <2>2. QED
      BY <1>2, <1>5, <2>1 DEF CallInv, OneRequestEach, EffectTold, NoToolCall, Writes
  <1>7. QED
    BY <1>1, <1>2, <1>4, <1>6, CallsApart DEF ToolCallsInv, ToolCallsType

LEMMA SessionsTyped ==
  ASSUME ToolCallsInv, setting # NotStarted, NEW key \in ApiKeys \cup {setting.key}
  PROVE  /\ Session(key) \in ToolCallType
         /\ Session(key).pc = "none" /\ Session(key).attempt = 0
         /\ Session(key).answer = "none" /\ ~Session(key).warned
  <1>1. setting \in McpSettings
    BY DEF ToolCallsInv, ToolCallsType
  <1> DEFINE k == IF setting.mode = "stdio" THEN setting.key ELSE key
  <1>2. k \in AllKeys
    BY <1>1 DEF AllKeys
  <1>3. ParseApiKeys(setting.mcp)[k] \in AllProjects
    BY <1>1, <1>2 DEF AllProjects
  <1> HIDE DEF k
  <1>4. [NoToolCall EXCEPT !.key = k, !.project = ParseApiKeys(setting.mcp)[k]] \in ToolCallType
    BY <1>2, <1>3 DEF ToolCallType, NoToolCall
  <1>5. Session(key) = [NoToolCall EXCEPT !.key = k, !.project = ParseApiKeys(setting.mcp)[k]]
    BY DEF Session, k
  <1>6. QED
    BY <1>4, <1>5 DEF NoToolCall

LEMMA CallingKeepsCalls ==
  ASSUME ToolCallsInv, NEW c \in Calls, CallTool(c)
  PROVE  ToolCallsInv'
  <1>1. PICK key \in (IF setting.mode = "stdio" THEN {setting.key} ELSE ApiKeys), tool \in Tools :
           \/ \E answer \in {"arguments", "unsafe"} : toolCall' = [toolCall EXCEPT ![c] =
                 [Session(key) EXCEPT !.tool = tool, !.pc = "answered", !.answer = answer]]
           \/ toolCall' = [toolCall EXCEPT ![c] =
                 [Session(key) EXCEPT !.tool = tool, !.pc = "sending", !.attempt = 1]]
    BY DEF CallTool
  <1>2. /\ setting # NotStarted /\ toolCall[c].pc = "none" /\ CallInv(c)
        /\ wire' = wire /\ effects' = effects /\ setting' = setting
    BY DEF CallTool, ToolCallsInv
  <1>3. key \in ApiKeys \cup {setting.key}
    OBVIOUS
  <1> DEFINE S == Session(key)
  <1>4. /\ S \in ToolCallType
        /\ S.pc = "none" /\ S.attempt = 0 /\ S.answer = "none" /\ ~S.warned
    BY <1>2, <1>3, SessionsTyped
  <1> HIDE DEF S
  <1>5. wire[c] = << >> /\ effects[c] = << >>
    BY <1>2 DEF CallInv, OneRequestEach, EffectTold, ToolCallsInv, ToolCallsType
  <1>6. ASSUME NEW t \in ToolCallType, toolCall' = [toolCall EXCEPT ![c] = t],
               OneRequestEach(t, << >>), EffectTold(t, << >>, << >>)
        PROVE  ToolCallsInv'
    <2>1. toolCall' \in [Calls -> ToolCallType]
      BY <1>6 DEF ToolCallsInv, ToolCallsType
    <2>2. toolCall'[c] = t
      BY <1>6 DEF ToolCallsInv, ToolCallsType
    <2>3. CallInv(c)'
      BY <1>2, <1>5, <1>6, <2>2 DEF CallInv
    <2>4. QED
      BY <1>2, <1>6, <2>1, <2>3, CallsApart DEF ToolCallsInv, ToolCallsType
  <1>7. ASSUME NEW answer \in {"arguments", "unsafe"}, toolCall' = [toolCall EXCEPT ![c] =
                  [S EXCEPT !.tool = tool, !.pc = "answered", !.answer = answer]]
        PROVE  ToolCallsInv'
    <2> DEFINE t == [S EXCEPT !.tool = tool, !.pc = "answered", !.answer = answer]
    <2>1. t \in ToolCallType /\ t.pc = "answered" /\ t.attempt = 0 /\ t.tool = tool
             /\ t.answer = answer
      BY <1>4 DEF ToolCallType
    <2> HIDE DEF t
    <2>2. OneRequestEach(t, << >>) /\ EffectTold(t, << >>, << >>)
      BY <1>7, <2>1 DEF OneRequestEach, EffectTold
    <2>3. QED
      BY <1>6, <1>7, <2>1, <2>2 DEF t
  <1>8. ASSUME toolCall' = [toolCall EXCEPT ![c] =
                  [S EXCEPT !.tool = tool, !.pc = "sending", !.attempt = 1]]
        PROVE  ToolCallsInv'
    <2> DEFINE t == [S EXCEPT !.tool = tool, !.pc = "sending", !.attempt = 1]
    <2>1. t \in ToolCallType /\ t.pc = "sending" /\ t.attempt = 1 /\ t.tool = tool
             /\ t.answer = "none"
      BY <1>4 DEF ToolCallType
    <2> HIDE DEF t
    <2>2. OneRequestEach(t, << >>) /\ EffectTold(t, << >>, << >>)
      BY <2>1 DEF OneRequestEach, EffectTold
    <2>3. QED
      BY <1>6, <1>8, <2>1, <2>2 DEF t
  <1>9. QED
    BY <1>1, <1>7, <1>8 DEF S

LEMMA SendingKeepsCalls ==
  ASSUME ToolCallsInv, NEW c \in Calls, SendRequest(c)
  PROVE  ToolCallsInv'
  <1>1. /\ toolCall[c].pc = "sending" /\ CallInv(c) /\ toolCall[c] \in ToolCallType
        /\ wire[c] \in Seq(Statuses)
        /\ effects' = effects /\ setting' = setting
    BY DEF SendRequest, ToolCallsInv, ToolCallsType
  <1> DEFINE t == [toolCall[c] EXCEPT !.pc = "waiting"]
             w == Append(wire[c], "sent")
  <1>2. t \in ToolCallType /\ w \in Seq(Statuses) /\ Len(w) = Len(wire[c]) + 1
    BY <1>1 DEF ToolCallType, Statuses
  <1>3. toolCall' = [toolCall EXCEPT ![c] = t] /\ wire' = [wire EXCEPT ![c] = w]
    BY DEF SendRequest, ToolCallsInv, ToolCallsType
  <1>4. /\ toolCall' \in [Calls -> ToolCallType] /\ wire' \in [Calls -> Seq(Statuses)]
        /\ toolCall'[c] = t /\ wire'[c] = w
    BY <1>2, <1>3 DEF ToolCallsInv, ToolCallsType
  <1>5. OneRequestEach(t, w)
    BY <1>1, <1>2 DEF CallInv, OneRequestEach, ToolCallType
  <1>6. EffectTold(t, w, effects[c])
    <2>1. /\ t.tool = toolCall[c].tool /\ t.answer = "none"
          /\ t.tool \in Writes => wire[c] = << >> /\ w[1] = "sent"
      BY <1>1 DEF CallInv, OneRequestEach, ToolCallType
    <2>2. w # << >>
      BY <1>2
    <2>3. QED
      BY <1>1, <2>1, <2>2 DEF CallInv, EffectTold
  <1>7. CallInv(c)'
    BY <1>1, <1>4, <1>5, <1>6 DEF CallInv
  <1>8. QED
    BY <1>1, <1>3, <1>4, <1>7, CallsApart DEF ToolCallsInv, ToolCallsType

\* What core-api does of a request, or the network to it, while no client looks.
LEMMA WireKeepsCalls ==
  ASSUME ToolCallsInv, NEW c \in Calls, NEW i \in 1 .. Len(wire[c]),
         NEW status \in Statuses \ {"sent"}, NEW e,
         wire' = [wire EXCEPT ![c][i] = status], effects' = [effects EXCEPT ![c] = e],
         UNCHANGED <<setting, toolCall>>,
         \/ e = effects[c] /\ (status = "lost" \/ wire[c][i] = "sent")
         \/ wire[c][i] = "sent" /\ (\E p : e = Append(effects[c], p)) /\ toolCall[c].tool \in Writes
               /\ status \in {"ok", "failed"},
         wire[c][i] = "sent" /\ status = "ok" /\ toolCall[c].tool \in Writes => e # effects[c]
  PROVE  ToolCallsInv'
  <1>1. /\ CallInv(c) /\ toolCall[c] \in ToolCallType /\ wire[c] \in Seq(Statuses)
        /\ toolCall' = toolCall /\ setting' = setting
    BY DEF ToolCallsInv, ToolCallsType
  <1> DEFINE t == toolCall[c]
             w == [wire[c] EXCEPT ![i] = status]
  <1>2. w \in Seq(Statuses) /\ Len(w) = Len(wire[c]) /\ w[i] = status
           /\ \A j \in 1 .. Len(wire[c]) \ {i} : w[j] = wire[c][j]
    BY <1>1
  <1>3. wire' = [wire EXCEPT ![c] = w]
    BY DEF ToolCallsInv, ToolCallsType
  <1>4. /\ wire' \in [Calls -> Seq(Statuses)] /\ wire'[c] = w
        /\ effects'[c] = e /\ effects' = [d \in Calls |-> effects'[d]]
    BY <1>2, <1>3 DEF ToolCallsInv, ToolCallsType
  <1> HIDE DEF w
  <1>5. OneRequestEach(t, w)
    BY <1>1, <1>2 DEF CallInv, OneRequestEach
  <1>6. Len(wire[c]) \in Nat /\ i \in Nat /\ wire[c] # << >> /\ w # << >>
    BY <1>1, <1>2
  <1>7. t.tool \in Writes => i = 1 /\ Len(wire[c]) = 1
    BY <1>1, <1>6 DEF CallInv, OneRequestEach, ToolCallType
  <1>8. EffectTold(t, w, e)
    <2>1. CASE t.tool \notin Writes
      BY <1>1, <1>6, <2>1 DEF CallInv, EffectTold
    <2>2. CASE t.tool \in Writes /\ e = effects[c]
      BY <1>1, <1>2, <1>6, <1>7, <2>2 DEF CallInv, EffectTold, Statuses
    <2>3. CASE t.tool \in Writes /\ e # effects[c]
      <3>1. PICK p : e = Append(effects[c], p)
        BY <2>3
      <3>2. wire[c][1] = "sent" /\ w[1] \in {"ok", "failed"}
        BY <1>2, <1>7, <2>3
      <3>3. effects[c] = << >> /\ t.answer \notin {"ok", "refused", "arguments", "unauthorized"}
        BY <1>1, <1>6, <2>3, <3>2 DEF CallInv, EffectTold
      <3>4. e = <<p>> /\ e # << >>
        BY <3>1, <3>3
      <3>5. QED
        BY <1>6, <2>3, <3>2, <3>3, <3>4 DEF EffectTold
    <2>4. QED
      BY <2>1, <2>2, <2>3
  <1>9. CallInv(c)'
    BY <1>1, <1>4, <1>5, <1>8 DEF CallInv
  <1>10. QED
    BY <1>1, <1>3, <1>4, <1>9, CallsApart DEF ToolCallsInv, ToolCallsType

LEMMA HandlingKeepsCalls ==
  ASSUME ToolCallsInv, NEW c \in Calls, NEW i \in 1 .. Len(wire[c]), Handle(c, i)
  PROVE  ToolCallsInv'
  <1>1. /\ wire[c][i] = "sent" /\ UNCHANGED <<setting, toolCall>>
        /\ effects = [effects EXCEPT ![c] = effects[c]]
    BY DEF Handle, ToolCallsInv, ToolCallsType
  <1>2. toolCall[c].tool \in Tools
    BY DEF ToolCallsInv, ToolCallsType, ToolCallType, CallInv, OneRequestEach
  <1>3. CASE wire' = [wire EXCEPT ![c][i] = "refused"] /\ UNCHANGED effects
    BY <1>1, <1>3, WireKeepsCalls DEF Statuses
  <1>4. ASSUME NEW status \in {"ok", "refused", "busy", "failed"}, NEW acted \in BOOLEAN,
               acted => Acts(toolCall[c].tool) /\ status \in {"ok", "failed"},
               status = "ok" => acted = Acts(toolCall[c].tool),
               wire' = [wire EXCEPT ![c][i] = status],
               effects' = IF acted
                 THEN [effects EXCEPT ![c] =
                          Append(@, ParseApiKeys(setting.core)[toolCall[c].key])]
                 ELSE effects
        PROVE  ToolCallsInv'
    <2>1. status \in Statuses \ {"sent"}
      BY DEF Statuses
    <2>2. CASE ~acted
      <3>1. ~(status = "ok" /\ toolCall[c].tool \in Writes)
        BY <1>2, <1>4, <2>2, WritesAct
      <3>2. QED
        BY <1>1, <1>4, <2>1, <2>2, <3>1, WireKeepsCalls
    <2>3. CASE acted
      <3> DEFINE e == Append(effects[c], ParseApiKeys(setting.core)[toolCall[c].key])
      <3>1. toolCall[c].tool \in Writes
        BY <1>2, <1>4, <2>3, WritesAct
      <3>2. effects[c] = << >>
        <4>1. wire[c] # << >> /\ CallInv(c) /\ i = 1
          BY <3>1 DEF ToolCallsInv, ToolCallsType, CallInv, OneRequestEach, ToolCallType
        <4>2. QED
          BY <1>1, <3>1, <4>1 DEF CallInv, EffectTold
      <3>3. e # effects[c]
        BY <3>2
      <3>4. effects' = [effects EXCEPT ![c] = e]
        BY <1>4, <2>3
      <3>5. \E p : e = Append(effects[c], p)
        OBVIOUS
      <3> HIDE DEF e
      <3>6. QED
        BY <1>1, <1>4, <2>1, <2>3, <3>1, <3>3, <3>4, <3>5, WireKeepsCalls
    <2>4. QED
      BY <2>2, <2>3
  <1>5. QED
    BY <1>3, <1>4 DEF Handle

LEMMA LosingKeepsCalls ==
  ASSUME ToolCallsInv, NEW c \in Calls, NEW i \in 1 .. Len(wire[c]), Lose(c, i)
  PROVE  ToolCallsInv'
  <1>1. /\ wire' = [wire EXCEPT ![c][i] = "lost"] /\ UNCHANGED <<setting, toolCall>>
        /\ effects' = [effects EXCEPT ![c] = effects[c]]
    BY DEF Lose, ToolCallsInv, ToolCallsType
  <1>2. QED
    BY <1>1, WireKeepsCalls DEF Statuses

\* What the client makes of a call, while its requests are where they were.
LEMMA ClientKeepsCalls ==
  ASSUME ToolCallsInv, NEW c \in Calls, NEW t \in ToolCallType,
         toolCall' = [toolCall EXCEPT ![c] = t], UNCHANGED <<setting, wire, effects>>,
         OneRequestEach(t, wire[c]), EffectTold(t, wire[c], effects[c])
  PROVE  ToolCallsInv'
  <1>1. toolCall' \in [Calls -> ToolCallType] /\ toolCall'[c] = t
    BY DEF ToolCallsInv, ToolCallsType
  <1>2. CallInv(c)'
    BY <1>1 DEF CallInv
  <1>3. QED
    BY <1>1, <1>2, CallsApart DEF ToolCallsInv, ToolCallsType

\* A call that ends without having been told that it succeeded or was refused.
LEMMA AnsweringKeepsCalls ==
  ASSUME ToolCallsInv, NEW c \in Calls, toolCall[c].pc = "waiting",
         NEW outcome \in {"error", "unreachable", "internal"},
         Answer(c, outcome), UNCHANGED <<setting, wire, effects>>
  PROVE  ToolCallsInv'
  <1> DEFINE t == [toolCall[c] EXCEPT !.pc = "answered", !.answer = outcome]
  <1>1. toolCall[c] \in ToolCallType /\ CallInv(c)
    BY DEF ToolCallsInv, ToolCallsType
  <1>2. /\ t \in ToolCallType /\ t.pc = "answered" /\ t.answer = outcome
        /\ t.tool = toolCall[c].tool /\ t.attempt = toolCall[c].attempt
    BY <1>1 DEF ToolCallType
  <1>3. toolCall' = [toolCall EXCEPT ![c] = t]
    BY DEF Answer, ToolCallsInv, ToolCallsType
  <1> HIDE DEF t
  <1>4. OneRequestEach(t, wire[c]) /\ EffectTold(t, wire[c], effects[c])
    BY <1>1, <1>2 DEF CallInv, OneRequestEach, EffectTold
  <1>5. QED
    BY <1>2, <1>3, <1>4, ClientKeepsCalls

\* Only what reads is tried again.
LEMMA FailingKeepsCalls ==
  ASSUME ToolCallsInv, NEW c \in Calls, toolCall[c].pc = "waiting",
         NEW outcome \in {"error", "unreachable"},
         FailedAttempt(c, outcome), UNCHANGED <<setting, wire, effects>>
  PROVE  ToolCallsInv'
  <1>1. CASE ~(toolCall[c].attempt < Limit(toolCall[c].tool))
    BY <1>1, AnsweringKeepsCalls DEF FailedAttempt
  <1>2. CASE toolCall[c].attempt < Limit(toolCall[c].tool)
    <2> DEFINE t == [toolCall[c] EXCEPT !.pc = "backoff"]
    <2>1. toolCall[c] \in ToolCallType /\ CallInv(c)
      BY DEF ToolCallsInv, ToolCallsType
    <2>2. toolCall[c].tool \notin Writes
      BY <1>2, <2>1, WritesAct DEF CallInv, OneRequestEach, ToolCallType
    <2>3. /\ t \in ToolCallType /\ t.pc = "backoff" /\ t.answer = toolCall[c].answer
          /\ t.tool = toolCall[c].tool /\ t.attempt = toolCall[c].attempt
      BY <2>1 DEF ToolCallType
    <2>4. toolCall' = [toolCall EXCEPT ![c] = t]
      BY <1>2 DEF FailedAttempt, ToolCallsInv, ToolCallsType
    <2> HIDE DEF t
    <2>5. OneRequestEach(t, wire[c]) /\ EffectTold(t, wire[c], effects[c])
      BY <2>1, <2>2, <2>3 DEF CallInv, OneRequestEach, EffectTold
    <2>6. QED
      BY <2>3, <2>4, <2>5, ClientKeepsCalls
  <1>3. QED
    BY <1>1, <1>2

LEMMA RetryKeepsCalls ==
  ASSUME ToolCallsInv, NEW c \in Calls, Retry(c)
  PROVE  ToolCallsInv'
  <1> DEFINE t == [toolCall[c] EXCEPT !.pc = "sending", !.attempt = toolCall[c].attempt + 1]
  <1>1. /\ toolCall[c] \in ToolCallType /\ CallInv(c) /\ toolCall[c].pc = "backoff"
        /\ UNCHANGED <<setting, wire, effects>>
    BY DEF Retry, ToolCallsInv, ToolCallsType
  <1>2. /\ t \in ToolCallType /\ t.pc = "sending" /\ t.answer = toolCall[c].answer
        /\ t.tool = toolCall[c].tool /\ t.attempt = toolCall[c].attempt + 1
    <2>1. toolCall[c].attempt + 1 \in Nat
      BY <1>1 DEF ToolCallType
    <2>2. QED
      BY <1>1, <2>1 DEF ToolCallType
  <1>3. toolCall' = [toolCall EXCEPT ![c] = t]
    BY DEF Retry, ToolCallsInv, ToolCallsType
  <1> HIDE DEF t
  <1>4. OneRequestEach(t, wire[c]) /\ EffectTold(t, wire[c], effects[c])
    BY <1>1, <1>2 DEF CallInv, OneRequestEach, EffectTold, ToolCallType
  <1>5. QED
    BY <1>1, <1>2, <1>3, <1>4, ClientKeepsCalls

LEMMA ReceivingKeepsCalls ==
  ASSUME ToolCallsInv, NEW c \in Calls, Receive(c)
  PROVE  ToolCallsInv'
  <1> DEFINE response == wire[c][toolCall[c].attempt]
  <1>1. /\ toolCall[c] \in ToolCallType /\ CallInv(c) /\ toolCall[c].pc = "waiting"
        /\ wire[c] \in Seq(Statuses) /\ UNCHANGED <<setting, wire, effects>>
    BY DEF Receive, ToolCallsInv, ToolCallsType
  <1>2. toolCall[c].tool \in Tools /\ wire[c] # << >>
           /\ (toolCall[c].tool \in Writes => toolCall[c].attempt = 1)
    BY <1>1 DEF CallInv, OneRequestEach, ToolCallType
  <1>3. CASE Answer(c, "internal")
    BY <1>1, <1>3, AnsweringKeepsCalls
  <1>4. CASE /\ response = "ok"
             /\ toolCall' = [toolCall EXCEPT
                    ![c].pc = "answered", ![c].answer = "ok",
                    ![c].warned = /\ toolCall[c].tool = "record_knowledge"
                                  /\ effects[c] # <<toolCall[c].project>>]
    <2> DEFINE warned == /\ toolCall[c].tool = "record_knowledge"
                         /\ effects[c] # <<toolCall[c].project>>
               t == [toolCall[c] EXCEPT !.pc = "answered", !.answer = "ok", !.warned = warned]
    <2>1. warned \in BOOLEAN
      OBVIOUS
    <2>2. /\ t \in ToolCallType /\ t.pc = "answered" /\ t.answer = "ok" /\ t.warned = warned
          /\ t.tool = toolCall[c].tool /\ t.attempt = toolCall[c].attempt
          /\ t.project = toolCall[c].project
      BY <1>1, <2>1 DEF ToolCallType
    <2>3. toolCall' = [toolCall EXCEPT ![c] = t]
      BY <1>4 DEF ToolCallsInv, ToolCallsType
    <2> HIDE DEF t
    <2>4. OneRequestEach(t, wire[c])
      BY <1>1, <1>2, <2>2 DEF CallInv, OneRequestEach
    <2>5. t.tool \in Writes => wire[c][1] = "ok" /\ effects[c] # << >>
      BY <1>1, <1>2, <1>4, <2>2 DEF CallInv, EffectTold
    <2>6. EffectTold(t, wire[c], effects[c])
      BY <1>1, <1>2, <2>2, <2>5 DEF CallInv, EffectTold
    <2>7. QED
      BY <1>1, <2>2, <2>3, <2>4, <2>6, ClientKeepsCalls
  <1>5. CASE response = "refused" /\ Answer(c, "refused")
    <2> DEFINE t == [toolCall[c] EXCEPT !.pc = "answered", !.answer = "refused"]
    <2>1. /\ t \in ToolCallType /\ t.pc = "answered" /\ t.answer = "refused"
          /\ t.tool = toolCall[c].tool /\ t.attempt = toolCall[c].attempt
      BY <1>1 DEF ToolCallType
    <2>2. toolCall' = [toolCall EXCEPT ![c] = t]
      BY <1>5 DEF Answer, ToolCallsInv, ToolCallsType
    <2> HIDE DEF t
    <2>3. OneRequestEach(t, wire[c])
      BY <1>1, <1>2, <2>1 DEF CallInv, OneRequestEach
    <2>4. EffectTold(t, wire[c], effects[c])
      <3>1. (t.tool \in Writes => wire[c][1] = "refused") /\ effects[c] = << >>
        BY <1>1, <1>2, <1>5, <2>1 DEF CallInv, EffectTold
      <3>2. QED
        BY <1>1, <1>2, <2>1, <3>1 DEF CallInv, EffectTold
    <2>5. QED
      BY <1>1, <2>1, <2>2, <2>3, <2>4, ClientKeepsCalls
  <1>6. CASE FailedAttempt(c, "error")
    BY <1>1, <1>6, FailingKeepsCalls
  <1>7. QED
    BY <1>3, <1>4, <1>5, <1>6 DEF Receive

\* core-api-client.ts: whatever is lost, late, tried again or answered with a
\* failure, a call of a tool leaves at most one record, judgement or paid answer,
\* exactly one when it was told of success, none when it was refused.
THEOREM ToolsWriteOnce == ToolCallsSpec => []WritesHappenOnce
  <1>1. ToolCallsInit => ToolCallsInv
    <2> SUFFICES ASSUME ToolCallsInit PROVE ToolCallsInv
      OBVIOUS
    <2>1. NoKey \in AllKeys /\ "none" \in AllProjects
      BY DEF AllKeys, AllProjects
    <2>2. NoToolCall \in ToolCallType
      BY <2>1 DEF NoToolCall, ToolCallType
    <2>3. ToolCallsType
      BY <2>2 DEF ToolCallsInit, ToolCallsType
    <2>4. OneRequestEach(NoToolCall, << >>) /\ EffectTold(NoToolCall, << >>, << >>)
      BY DEF NoToolCall, OneRequestEach, EffectTold, Writes
    <2>5. QED
      BY <2>3, <2>4 DEF ToolCallsInit, ToolCallsInv, CallInv
  <1>2. ToolCallsInv /\ [ToolCallsNext]_callVars => ToolCallsInv'
    <2> SUFFICES ASSUME ToolCallsInv, [ToolCallsNext]_callVars PROVE ToolCallsInv'
      OBVIOUS
    <2>1. CASE StartMcp
      BY <2>1 DEF StartMcp, ToolCallsInv, ToolCallsType, CallInv
    <2>2. ASSUME NEW c \in Calls, Unreachable(c) PROVE ToolCallsInv'
      BY <2>2, FailingKeepsCalls DEF Unreachable
    <2>3. CASE UNCHANGED callVars
      BY <2>3 DEF callVars, ToolCallsInv, ToolCallsType, CallInv
    <2>4. QED
      BY <2>1, <2>2, <2>3, UnauthorizedKeepsCalls, CallingKeepsCalls, SendingKeepsCalls,
         ReceivingKeepsCalls, RetryKeepsCalls, HandlingKeepsCalls, LosingKeepsCalls
         DEF ToolCallsNext
  <1>3. ToolCallsInv => WritesHappenOnce
    <2> SUFFICES ASSUME ToolCallsInv, NEW c \in Calls
                 PROVE  /\ Len(effects[c]) <= 1
                        /\ toolCall[c].answer = "ok" /\ Acts(toolCall[c].tool)
                              => Len(effects[c]) = 1
                        /\ toolCall[c].answer \in {"refused", "arguments", "unauthorized"}
                              => effects[c] = << >>
                        /\ toolCall[c].tool = "record_knowledge" /\ toolCall[c].answer = "ok"
                               /\ ~toolCall[c].warned => effects[c] = <<toolCall[c].project>>
      BY DEF WritesHappenOnce
    <2>1. CallInv(c) /\ toolCall[c] \in ToolCallType
      BY DEF ToolCallsInv, ToolCallsType
    <2>2. effects[c] = << >> \/ \E p : effects[c] = <<p>>
      BY <2>1 DEF CallInv, EffectTold
    <2>3. toolCall[c].answer = "ok" /\ Acts(toolCall[c].tool) => effects[c] # << >>
      BY <2>1, WritesAct DEF CallInv, EffectTold
    <2>4. Len(effects[c]) <= 1 /\ (effects[c] # << >> => Len(effects[c]) = 1)
      <3>1. CASE effects[c] = << >>
        <4>1. Len(effects[c]) = 0
          BY <3>1
        <4>2. QED
          BY <3>1, <4>1
      <3>2. ASSUME NEW p, effects[c] = <<p>>
            PROVE  Len(effects[c]) <= 1 /\ Len(effects[c]) = 1
        <4>1. Len(<<p>>) = 1 /\ 1 <= 1
          OBVIOUS
        <4>2. QED
          BY <3>2, <4>1
      <3>3. CASE \E p : effects[c] = <<p>>
        BY <3>2, <3>3
      <3>4. QED
        BY <2>2, <3>1, <3>3
    <2>5. toolCall[c].answer \in {"refused", "arguments", "unauthorized"} => effects[c] = << >>
      BY <2>1 DEF CallInv, EffectTold
    <2>6. toolCall[c].tool = "record_knowledge" /\ toolCall[c].answer = "ok"
             /\ ~toolCall[c].warned => effects[c] = <<toolCall[c].project>>
      BY <2>1 DEF CallInv, EffectTold
    <2>7. QED
      BY <2>3, <2>4, <2>5, <2>6
  <1>4. QED
    BY <1>1, <1>2, <1>3, PTL DEF ToolCallsSpec

-----------------------------------------------------------------------------
(* Runs of db-init.                                                        *)

LEMMA SpecsAndPlans ==
  /\ Len(DB_INDEX_SPECS) = 7
  /\ Len(Plans) = 2 /\ Plans[1] = "vec_idx" /\ Plans[2] = "text_idx"
  /\ Range(Plans) = {"vec_idx", "text_idx"}
  /\ \A k \in 1 .. 2 : Plans[k] \in Range(Plans)
  /\ \A p \in Range(Plans) : \E k \in 1 .. 2 : p = Plans[k]
  <1>1. Len(DB_INDEX_SPECS) = 7
    BY DEF DB_INDEX_SPECS
  <1>2. Len(Plans) = 2 /\ Plans[1] = "vec_idx" /\ Plans[2] = "text_idx" /\ DOMAIN Plans = 1 .. 2
    BY DEF Plans
  <1>3. 1 .. 2 = {1, 2}
    OBVIOUS
  <1>4. Range(Plans) = {"vec_idx", "text_idx"}
    BY <1>2, <1>3 DEF Range
  <1>5. QED
    BY <1>1, <1>2, <1>3, <1>4

\* An index that was made of a definition holds it, whatever the server adds.
LEMMA ReportHoldsDefinition ==
  ASSUME NEW plan, NEW p, NEW release
  PROVE  IsSubsetOf(Definition(p, release), Reported(plan, Definition(p, release)))
  <1> DEFINE d == Definition(p, release)
  <1>1. "defaults" \notin DOMAIN d
    BY DEF Definition
  <1> HIDE DEF d
  <1>2. ASSUME NEW x \in DOMAIN d
        PROVE  x \in DOMAIN Reported(plan, d) /\ Reported(plan, d)[x] = d[x]
    BY <1>1, <1>2 DEF Reported
  <1>3. QED
    BY <1>2 DEF IsSubsetOf, d

Latest == {<< >>} \cup {Reported(p, Definition(p, release)) : p \in Range(Plans), release \in Releases}

DatabaseType ==
    [search : BOOLEAN, duplicates : BOOLEAN, collections : SUBSET {"records", "jobs", "chunks", "articles"},
     btree : [1 .. 7 -> {"own", "other", "absent"}],
     index : [Range(Plans) -> [status : {"absent", "PENDING", "READY", "FAILED"},
                               queryable : BOOLEAN, latest : Latest]]]

Listing == {"listing", "collecting", "finding", "creating"}
Waiting == {"polling", "sleeping", "exit0"}

PCs == {"off", "connecting", "btree", "reading", "reconnecting"} \cup Listing \cup Waiting \cup Exits

LEMMA Places ==
  /\ {"off", "connecting", "btree", "reading", "reconnecting"} \subseteq PCs
  /\ {"listing", "collecting", "finding", "creating"} \subseteq PCs
  /\ {"polling", "sleeping", "exit0"} \subseteq PCs
  /\ {"exit1", "exit69", "exit78"} \subseteq PCs
  BY DEF PCs, Listing, Waiting, Exits

InitType ==
    [pc : PCs, release : Releases, at : Nat \ {0}, pending : BOOLEAN, waited : Nat, sure : BOOLEAN]

LEMMA RunType ==
  ASSUME NEW j \in InitType, NEW pc \in PCs, NEW at \in Nat \ {0}, NEW pending \in BOOLEAN,
         NEW waited \in Nat
  PROVE  [j EXCEPT !.pc = pc, !.at = at, !.pending = pending, !.waited = waited] \in InitType
  BY DEF InitType

BootstrapType ==
    /\ database \in DatabaseType
    /\ init \in [Runs -> InitType]
    /\ drops \in Nat

\* An index that answers was built, and one that is absent is all absent.
IndexesKept ==
    \A p \in Range(Plans) :
        /\ database.index[p].queryable => database.index[p].status = "READY"
        /\ database.index[p].status = "absent" => database.index[p] = Absent

InPlace(p, release) == /\ database.index[p].status # "absent"
                       /\ IsSubsetOf(Definition(p, release), database.index[p].latest)

\* How far a run is, it can rely on what it has done: on its own indexes for
\* good, on the search indexes while nobody drops one.
RunKept(r) ==
    LET i == init[r] IN
    /\ i.pc = "btree" => i.at <= 7 /\ \A n \in 1 .. 7 : n < i.at => database.btree[n] = "own"
    /\ i.release.both /\ i.pc \in {"reading", "reconnecting"} \cup Listing \cup Waiting
          => \A n \in 1 .. 7 : database.btree[n] = "own"
    /\ i.pc \in Listing =>
          /\ i.at <= 2
          /\ i.sure => \A k \in 1 .. 2 : k < i.at => InPlace(Plans[k], i.release)
    /\ i.pc \in Waiting /\ i.sure =>
          /\ \A k \in 1 .. 2 : InPlace(Plans[k], i.release)
          /\ i.pc = "polling" /\ ~i.pending =>
                \A k \in 1 .. 2 : k < i.at => database.index[Plans[k]].queryable
          /\ i.pc = "exit0" => \A k \in 1 .. 2 : database.index[Plans[k]].queryable

BootstrapInv == BootstrapType /\ IndexesKept /\ \A r \in Runs : RunKept(r)

\* What a run can rely on stays, as long as indexes of a collection stay its
\* own and those that are in place do what they did.
LEMMA WorkIsKept ==
  ASSUME BootstrapInv, database' \in DatabaseType, NEW r \in Runs, init'[r] = init[r],
         \A n \in 1 .. 7 : database.btree[n] = "own" => database'.btree[n] = "own",
         \A p \in Range(Plans) : database.index[p].status # "absent" =>
             /\ database'.index[p].status # "absent"
             /\ database'.index[p].latest = database.index[p].latest
             /\ database.index[p].queryable => database'.index[p].queryable
  PROVE  RunKept(r)'
  <1>1. RunKept(r) /\ \A k \in 1 .. 2 : Plans[k] \in Range(Plans)
    BY SpecsAndPlans DEF BootstrapInv
  <1>2. ASSUME NEW k \in 1 .. 2, InPlace(Plans[k], init[r].release)
        PROVE  /\ InPlace(Plans[k], init[r].release)'
               /\ database.index[Plans[k]].queryable => database'.index[Plans[k]].queryable
    BY <1>1, <1>2 DEF InPlace
  <1>3. QED
    BY <1>1, <1>2 DEF RunKept

\* The other runs keep what they rely on.
LEMMA RunsApart ==
  ASSUME BootstrapInv, NEW r \in Runs, NEW i \in InitType,
         init' = [init EXCEPT ![r] = i], drops' = drops,
         database' \in DatabaseType, IndexesKept',
         \A n \in 1 .. 7 : database.btree[n] = "own" => database'.btree[n] = "own",
         \A p \in Range(Plans) : database.index[p].status # "absent" =>
             /\ database'.index[p].status # "absent"
             /\ database'.index[p].latest = database.index[p].latest
             /\ database.index[p].queryable => database'.index[p].queryable,
         RunKept(r)'
  PROVE  BootstrapInv'
  <1>1. init' \in [Runs -> InitType]
    BY DEF BootstrapInv, BootstrapType
  <1>2. ASSUME NEW s \in Runs \ {r} PROVE RunKept(s)'
    <2>1. init'[s] = init[s]
      BY DEF BootstrapInv, BootstrapType
    <2>2. QED
      BY <2>1, WorkIsKept
  <1>3. QED
    BY <1>1, <1>2 DEF BootstrapInv, BootstrapType

\* Steps that leave the database alone.
LEMMA OnlyRunMoves ==
  ASSUME BootstrapInv, NEW r \in Runs, NEW i \in InitType,
         init' = [init EXCEPT ![r] = i], UNCHANGED <<database, drops>>, RunKept(r)'
  PROVE  BootstrapInv'
  <1>1. IndexesKept' /\ database' \in DatabaseType
    BY DEF BootstrapInv, BootstrapType, IndexesKept
  <1>2. QED
    BY <1>1, RunsApart

\* Moves and Begins in one: where the run is, and where it begins there.
LEMMA RunMoves ==
  ASSUME BootstrapInv, NEW r \in Runs, UNCHANGED <<database, drops>>,
         NEW pc \in PCs, NEW at \in Nat \ {0},
         init' = [init EXCEPT ![r].pc = pc, ![r].at = at]
  PROVE  /\ init'[r].pc = pc /\ init'[r].at = at
         /\ init'[r].release = init[r].release
         /\ init'[r].pending = init[r].pending /\ init'[r].sure = init[r].sure
         /\ \A p \in Range(Plans), release \in Releases :
               InPlace(p, release)' <=> InPlace(p, release)
         /\ RunKept(r)' => BootstrapInv'
  <1> DEFINE i == [init[r] EXCEPT !.pc = pc, !.at = at]
  <1>1. init[r] \in InitType /\ init \in [Runs -> InitType]
    BY DEF BootstrapInv, BootstrapType
  <1>2. i \in InitType
    BY <1>1 DEF InitType
  <1>3. init' = [init EXCEPT ![r] = i] /\ init'[r] = i
    BY <1>1
  <1>4. RunKept(r)' => BootstrapInv'
    BY <1>2, <1>3, OnlyRunMoves
  <1>5. \A p \in Range(Plans), release \in Releases :
           InPlace(p, release)' <=> InPlace(p, release)
    BY DEF InPlace
  <1>6. QED
    BY <1>1, <1>3, <1>4, <1>5 DEF InitType

LEMMA EndingKeepsRuns ==
  ASSUME BootstrapInv, NEW r \in Runs, UNCHANGED <<database, drops>>,
         NEW pc \in {"exit1", "exit69", "exit78"}, Moves(r, pc)
  PROVE  BootstrapInv'
  <1>1. init[r] \in InitType /\ init \in [Runs -> InitType] /\ init[r].at \in Nat \ {0}
    BY DEF BootstrapInv, BootstrapType, InitType
  <1>2. init' = [init EXCEPT ![r].pc = pc, ![r].at = init[r].at]
    BY <1>1 DEF Moves, InitType
  <1>3. pc \in PCs
    BY DEF PCs, Exits
  <1>4. init'[r].pc = pc /\ (RunKept(r)' => BootstrapInv')
    BY <1>1, <1>2, <1>3, RunMoves
  <1>5. RunKept(r)'
    BY <1>4 DEF RunKept, Listing, Waiting
  <1>6. QED
    BY <1>4, <1>5

LEMMA ConnectKeepsRuns ==
  ASSUME BootstrapInv, NEW r \in Runs, Connect(r)
  PROVE  BootstrapInv'
  <1>1. /\ init[r] \in InitType /\ RunKept(r) /\ UNCHANGED <<database, drops>>
        /\ init[r].pc \in {"connecting", "reconnecting"}
    BY DEF Connect, BootstrapInv, BootstrapType
  <1>2. ASSUME NEW pc \in {"btree", "listing"}, Begins(r, pc),
               pc = "listing" => init[r].pc = "reconnecting"
        PROVE  BootstrapInv'
    <2>1. pc \in PCs /\ 1 \in Nat \ {0}
      BY DEF PCs, Listing
    <2>2. /\ init'[r].pc = pc /\ init'[r].at = 1
          /\ init'[r].release = init[r].release
          /\ RunKept(r)' => BootstrapInv'
      BY ZenonT(40), <1>1, <1>2, <2>1, RunMoves DEF Begins
    <2>3. RunKept(r)'
      BY <1>1, <1>2, <2>2 DEF RunKept, Listing, Waiting
    <2>4. QED
      BY <2>2, <2>3
  <1>3. QED
    BY <1>1, <1>2, EndingKeepsRuns DEF Connect

LEMMA ReadingKeepsRuns ==
  ASSUME BootstrapInv, NEW r \in Runs, ReadPlans(r)
  PROVE  BootstrapInv'
  <1>1. /\ init[r] \in InitType /\ RunKept(r) /\ UNCHANGED <<database, drops>>
        /\ init[r].pc = "reading" /\ init \in [Runs -> InitType] /\ init[r].at \in Nat \ {0}
    BY DEF ReadPlans, BootstrapInv, BootstrapType, InitType
  <1>2. CASE Moves(r, "reconnecting")
    <2>1. init' = [init EXCEPT ![r].pc = "reconnecting", ![r].at = init[r].at]
      BY <1>1, <1>2 DEF Moves, InitType
    <2>2. /\ init'[r].pc = "reconnecting" /\ init'[r].release = init[r].release
          /\ RunKept(r)' => BootstrapInv'
      BY <1>1, <2>1, RunMoves DEF PCs
    <2>3. RunKept(r)'
      BY <1>1, <2>2 DEF RunKept, Listing, Waiting
    <2>4. QED
      BY <2>2, <2>3
  <1>3. QED
    BY <1>1, <1>2, EndingKeepsRuns DEF ReadPlans

LEMMA ListingKeepsRuns ==
  ASSUME BootstrapInv, NEW r \in Runs, ListCollections(r)
  PROVE  BootstrapInv'
  <1>1. /\ init[r] \in InitType /\ RunKept(r) /\ UNCHANGED <<database, drops>>
        /\ init[r].pc = "listing" /\ init \in [Runs -> InitType] /\ init[r].at \in Nat \ {0}
        /\ init[r].release \in Releases
    BY DEF ListCollections, BootstrapInv, BootstrapType, InitType
  <1>2. PICK pc \in {"finding", "collecting"} : Moves(r, pc)
    BY DEF ListCollections
  <1>3. init' = [init EXCEPT ![r].pc = pc, ![r].at = init[r].at] /\ pc \in PCs
    BY <1>1, <1>2 DEF Moves, InitType, PCs, Listing
  <1>4. /\ init'[r].pc = pc /\ init'[r].at = init[r].at
        /\ init'[r].release = init[r].release
        /\ init'[r].pending = init[r].pending /\ init'[r].sure = init[r].sure
        /\ \A p \in Range(Plans), release \in Releases :
               InPlace(p, release)' <=> InPlace(p, release)
        /\ RunKept(r)' => BootstrapInv'
    BY <1>1, <1>3, RunMoves
  <1>5. RunKept(r)'
    BY <1>1, <1>4, SpecsAndPlans DEF RunKept, Listing, Waiting
  <1>6. QED
    BY <1>4, <1>5

LEMMA RoundsKeepRuns ==
  ASSUME BootstrapInv, NEW r \in Runs, EndRound(r)
  PROVE  BootstrapInv'
  <1>1. /\ init[r] \in InitType /\ RunKept(r) /\ UNCHANGED <<database, drops>>
        /\ init[r].pc = "polling" /\ init \in [Runs -> InitType] /\ init[r].at \in Nat \ {0}
        /\ init[r].release \in Releases /\ init[r].at > 2
    BY SpecsAndPlans DEF EndRound, BootstrapInv, BootstrapType, InitType
  <1>2. ASSUME NEW pc \in {"exit0", "sleeping"}, Moves(r, pc), pc = "exit0" => ~init[r].pending
        PROVE  BootstrapInv'
    <2>1. init' = [init EXCEPT ![r].pc = pc, ![r].at = init[r].at] /\ pc \in PCs
      BY <1>1, <1>2 DEF Moves, InitType, PCs, Waiting
    <2>2. /\ init'[r].pc = pc
          /\ init'[r].release = init[r].release /\ init'[r].sure = init[r].sure
          /\ \A p \in Range(Plans), release \in Releases :
                 InPlace(p, release)' <=> InPlace(p, release)
          /\ RunKept(r)' => BootstrapInv'
      BY <1>1, <2>1, RunMoves
    <2>3. init[r].sure /\ pc = "exit0" => \A k \in 1 .. 2 : database.index[Plans[k]].queryable
      BY <1>1, <1>2 DEF RunKept, Waiting
    <2>4. RunKept(r)'
      BY <1>1, <2>2, <2>3, SpecsAndPlans DEF RunKept, Listing, Waiting
    <2>5. QED
      BY <2>2, <2>4
  <1>3. QED
    BY <1>1, <1>2, EndingKeepsRuns DEF EndRound

LEMMA StartingKeepsRuns ==
  ASSUME BootstrapInv, NEW r \in Runs, StartInit(r)
  PROVE  BootstrapInv'
  <1>1. PICK release \in Releases :
           init' = [init EXCEPT ![r] = [Idle EXCEPT !.release = release,
                                         !.pc = IF release.both THEN "connecting" ELSE "reading"]]
    BY DEF StartInit
  <1> DEFINE i == [Idle EXCEPT !.release = release,
                               !.pc = IF release.both THEN "connecting" ELSE "reading"]
  <1>2. /\ i \in InitType /\ i.release = release
        /\ i.pc = IF release.both THEN "connecting" ELSE "reading"
    <2> DEFINE any == CHOOSE x \in Releases : TRUE
               pc == IF release.both THEN "connecting" ELSE "reading"
    <2>1. pc \in PCs
      BY Places
    <2> HIDE DEF any, pc
    <2>2. Idle \in [pc : PCs, release : {any}, at : Nat \ {0}, pending : BOOLEAN,
                    waited : Nat, sure : BOOLEAN]
      BY Places DEF Idle, any
    <2>3. i = [Idle EXCEPT !.release = release, !.pc = pc]
      BY DEF pc
    <2> HIDE DEF i
    <2>4. i \in InitType
      BY <2>1, <2>2, <2>3 DEF InitType
    <2>5. i.release = release /\ i.pc = pc
      BY <2>2, <2>3
    <2>6. QED
      BY <2>4, <2>5 DEF pc
  <1>3. UNCHANGED <<database, drops>> /\ init'[r] = i
    BY <1>1 DEF StartInit, BootstrapInv, BootstrapType
  <1> HIDE DEF i
  <1>4. RunKept(r)'
    BY <1>2, <1>3 DEF RunKept, Listing, Waiting
  <1>5. init' = [init EXCEPT ![r] = i]
    BY <1>1 DEF i
  <1>6. QED
    BY <1>2, <1>3, <1>4, <1>5, OnlyRunMoves

LEMMA SleepingKeepsRuns ==
  ASSUME BootstrapInv, NEW r \in Runs, Sleep(r)
  PROVE  BootstrapInv'
  <1> DEFINE waited == IF init[r].waited < ReadyTimeout THEN init[r].waited + 1
                                                        ELSE init[r].waited
             i == [init[r] EXCEPT !.pc = "polling", !.at = 1, !.pending = FALSE, !.waited = waited]
  <1>1. /\ init[r] \in InitType /\ init \in [Runs -> InitType] /\ RunKept(r)
        /\ init[r].pc = "sleeping" /\ UNCHANGED <<database, drops>>
        /\ init' = [init EXCEPT ![r] = i] /\ init[r].release \in Releases
    BY DEF Sleep, BootstrapInv, BootstrapType, InitType
  <1>2. /\ i \in InitType /\ i.pc = "polling" /\ i.at = 1
        /\ i.release = init[r].release /\ i.sure = init[r].sure
    <2>1. waited \in Nat
      BY <1>1, BootstrapAssumption DEF InitType
    <2>2. "polling" \in PCs /\ init[r] \in InitType
      BY <1>1, Places
    <2> HIDE DEF waited
    <2>3. i \in InitType
      BY <2>1, <2>2, 1 \in Nat \ {0}, FALSE \in BOOLEAN, RunType
    <2>4. i.pc = "polling" /\ i.at = 1
      BY <2>2 DEF InitType
    <2>5. i.release = init[r].release /\ i.sure = init[r].sure
      BY <2>2 DEF InitType
    <2>6. QED
      BY <2>3, <2>4, <2>5
  <1>3. init'[r] = i
    BY <1>1
  <1> HIDE DEF i
  <1>4. \A p \in Range(Plans), release \in Releases : InPlace(p, release)' <=> InPlace(p, release)
    BY <1>1 DEF InPlace
  <1>5. RunKept(r)'
    BY <1>1, <1>2, <1>3, <1>4, SpecsAndPlans DEF RunKept, Listing, Waiting
  <1>6. QED
    BY <1>1, <1>2, <1>5, OnlyRunMoves

LEMMA PollingKeepsRuns ==
  ASSUME BootstrapInv, NEW r \in Runs, PollIndex(r)
  PROVE  BootstrapInv'
  <1>1. /\ init[r] \in InitType /\ init \in [Runs -> InitType] /\ RunKept(r)
        /\ init[r].pc = "polling" /\ UNCHANGED <<database, drops>>
        /\ init[r].release \in Releases /\ init[r].at \in 1 .. 2
    BY SpecsAndPlans DEF PollIndex, BootstrapInv, BootstrapType, InitType
  <1> DEFINE found == database.index[Plan(r)]
             pending == init[r].pending \/ found.status # "READY" \/ ~found.queryable
             i == [init[r] EXCEPT !.at = @ + 1, !.pending = pending]
  <1>2. CASE Moves(r, "exit1")
    BY <1>1, <1>2, EndingKeepsRuns
  <1>3. CASE init' = [init EXCEPT ![r] = i]
    <2>1. /\ i \in InitType /\ i.pc = "polling" /\ i.at = init[r].at + 1 /\ i.pending = pending
          /\ i.release = init[r].release /\ i.sure = init[r].sure
      <3>1. pending \in BOOLEAN /\ init[r].at + 1 \in Nat \ {0}
        BY <1>1 DEF InitType
      <3> HIDE DEF pending
      <3>2. QED
        BY <1>1, <3>1 DEF InitType
    <2>2. init'[r] = i
      BY <1>1, <1>3
    <2>3. \A p \in Range(Plans), release \in Releases : InPlace(p, release)' <=> InPlace(p, release)
      BY <1>1 DEF InPlace
    <2>4. ~pending => ~init[r].pending /\ database.index[Plans[init[r].at]].queryable
      BY DEF Plan
    <2> HIDE DEF i, pending
    <2>5. init[r].sure /\ ~pending =>
             \A k \in 1 .. 2 : k < init[r].at + 1 => database.index[Plans[k]].queryable
      BY <1>1, <2>4 DEF RunKept, Waiting
    <2>6. RunKept(r)'
      BY <1>1, <2>1, <2>2, <2>3, <2>5, SpecsAndPlans DEF RunKept, Listing, Waiting
    <2>7. QED
      BY <1>1, <1>3, <2>1, <2>6, OnlyRunMoves
  <1>4. QED
    BY <1>2, <1>3 DEF PollIndex

\* The plan a run has just found or created is in place.
LEMMA PlanDoneKeepsRuns ==
  ASSUME BootstrapInv, NEW r \in Runs, PlanDone(r), init[r].pc \in Listing, drops' = drops,
         database' \in DatabaseType, IndexesKept', database'.btree = database.btree,
         \A p \in Range(Plans) : database.index[p].status # "absent" =>
             /\ database'.index[p].status # "absent"
             /\ database'.index[p].latest = database.index[p].latest
             /\ database.index[p].queryable => database'.index[p].queryable,
         NEW at, at = init[r].at, NEW release, release = init[r].release,
         InPlace(Plans[at], release)'
  PROVE  BootstrapInv'
  <1>1. /\ init[r] \in InitType /\ init \in [Runs -> InitType] /\ RunKept(r)
        /\ release \in Releases /\ at \in 1 .. 2
    <2>1. init[r] \in InitType /\ init \in [Runs -> InitType] /\ RunKept(r)
      BY DEF BootstrapInv, BootstrapType
    <2>2. release \in Releases /\ at \in Nat \ {0} /\ at <= 2
      BY <2>1 DEF InitType, RunKept
    <2>3. QED
      BY <2>1, <2>2
  <1>2. ASSUME NEW k \in 1 .. 2, InPlace(Plans[k], release) PROVE InPlace(Plans[k], release)'
    BY <1>2, SpecsAndPlans DEF InPlace
  <1>3. init[r].sure => \A k \in 1 .. 2 : k <= at => InPlace(Plans[k], release)'
    BY <1>1, <1>2 DEF RunKept
  <1>4. release.both => \A n \in 1 .. 7 : database'.btree[n] = "own"
    BY <1>1 DEF RunKept
  <1>5. CASE at < 2
    <2> DEFINE i == [init[r] EXCEPT !.pc = "listing", !.at = @ + 1]
    <2>1. init' = [init EXCEPT ![r] = i]
      BY <1>1, <1>5, SpecsAndPlans DEF PlanDone
    <2>2. /\ i \in InitType /\ i.pc = "listing" /\ i.at = at + 1
          /\ i.release = release /\ i.sure = init[r].sure
      <3>1. "listing" \in PCs /\ init[r].at + 1 \in Nat \ {0} /\ init[r] \in InitType
        BY <1>1, Places
      <3>2. i \in InitType
        BY <3>1 DEF InitType
      <3>3. i.pc = "listing"
        BY <3>1 DEF InitType
      <3>4. i.at = at + 1
        BY <3>1 DEF InitType
      <3>5. i.release = release
        BY <3>1 DEF InitType
      <3>6. i.sure = init[r].sure
        BY <3>1 DEF InitType
      <3>7. QED
        BY <3>2, <3>3, <3>4, <3>5, <3>6
    <2>3. init'[r] = i
      BY <1>1, <2>1
    <2> HIDE DEF i
    <2>4. RunKept(r)'
      BY <1>1, <1>3, <1>4, <1>5, <2>2, <2>3 DEF RunKept, Listing, Waiting
    <2>5. QED
      BY <2>1, <2>2, <2>4, RunsApart
  <1>6. CASE at = 2
    <2> DEFINE i == [init[r] EXCEPT !.pc = "polling", !.at = 1]
    <2>1. init' = [init EXCEPT ![r] = i]
      <3>1. Begins(r, "polling")
        BY <1>6, SpecsAndPlans DEF PlanDone
      <3>2. QED
        BY <1>1, <3>1 DEF Begins
    <2>2. /\ i \in InitType /\ i.pc = "polling" /\ i.at = 1
          /\ i.release = release /\ i.sure = init[r].sure
      <3>1. "polling" \in PCs /\ 1 \in Nat \ {0} /\ init[r] \in InitType
        BY <1>1, Places
      <3>2. i \in InitType
        BY <3>1 DEF InitType
      <3>3. i.pc = "polling" /\ i.at = 1
        BY <3>1 DEF InitType
      <3>4. i.release = release
        BY <3>1 DEF InitType
      <3>5. i.sure = init[r].sure
        BY <3>1 DEF InitType
      <3>6. QED
        BY <3>2, <3>3, <3>4, <3>5
    <2>3. init'[r] = i
      BY <1>1, <2>1
    <2> HIDE DEF i
    <2>4. RunKept(r)'
      BY <1>1, <1>3, <1>4, <1>6, <2>2, <2>3 DEF RunKept, Listing, Waiting
    <2>5. QED
      BY <2>1, <2>2, <2>4, RunsApart
  <1>7. QED
    BY <1>1, <1>5, <1>6

LEMMA FindingKeepsRuns ==
  ASSUME BootstrapInv, NEW r \in Runs, FindExisting(r)
  PROVE  BootstrapInv'
  <1>1. /\ init[r] \in InitType /\ RunKept(r) /\ init[r].pc = "finding"
        /\ UNCHANGED <<database, drops>> /\ database' \in DatabaseType /\ IndexesKept'
        /\ init[r].release \in Releases /\ init[r].at \in 1 .. 2
    <2>1. init[r] \in InitType /\ RunKept(r) /\ init[r].pc = "finding"
      BY DEF FindExisting, BootstrapInv, BootstrapType
    <2>2. init[r].at \in 1 .. 2 /\ init[r].release \in Releases
      BY <2>1 DEF RunKept, Listing, InitType
    <2>3. UNCHANGED <<database, drops>> /\ database' \in DatabaseType /\ IndexesKept'
      BY DEF FindExisting, BootstrapInv, BootstrapType, IndexesKept
    <2>4. QED
      BY <2>1, <2>2, <2>3
  <1> DEFINE found == database.index[Plan(r)]
  <1>2. CASE PlanDone(r) /\ found # Absent /\ Verdict(r, found) = "keep"
    <2>1. PICK at : at = init[r].at
      OBVIOUS
    <2>2. PICK release : release = init[r].release
      OBVIOUS
    <2>3. Plans[at] \in Range(Plans) /\ found = database.index[Plans[at]]
      BY <1>1, <2>1, SpecsAndPlans DEF Plan
    <2>4. database.index[Plans[at]].status # "absent"
      BY <1>2, <2>3 DEF BootstrapInv, IndexesKept
    <2>5. IsSubsetOf(Definition(Plans[at], release), database.index[Plans[at]].latest)
      BY <1>2, <2>1, <2>2, <2>3 DEF Verdict, Wanted, Plan
    <2>6. InPlace(Plans[at], release)'
      BY <1>1, <2>4, <2>5 DEF InPlace
    <2>7. QED
      BY <1>1, <1>2, <2>1, <2>2, <2>6, PlanDoneKeepsRuns DEF Listing
  <1>3. ASSUME NEW pc \in {"exit1", "exit78"}, Moves(r, pc) PROVE BootstrapInv'
    BY <1>1, <1>3, EndingKeepsRuns
  <1>4. CASE Moves(r, "creating")
    <2>1. init' = [init EXCEPT ![r].pc = "creating", ![r].at = init[r].at] /\ "creating" \in PCs
      BY <1>1, <1>4, Places DEF Moves, InitType, BootstrapInv, BootstrapType
    <2> UNCHANGED <<database, drops>> /\ init[r].at \in Nat \ {0}
      BY <1>1
    <2>2. /\ init'[r].pc = "creating" /\ init'[r].at = init[r].at
          /\ init'[r].release = init[r].release
          /\ init'[r].pending = init[r].pending /\ init'[r].sure = init[r].sure
          /\ \A p \in Range(Plans), release \in Releases :
                 InPlace(p, release)' <=> InPlace(p, release)
          /\ RunKept(r)' => BootstrapInv'
      BY <2>1, RunMoves
    <2>3. RunKept(r)'
      BY <1>1, <2>2, SpecsAndPlans DEF RunKept, Listing, Waiting
    <2>4. QED
      BY <2>2, <2>3
  <1>5. QED
    BY <1>2, <1>3, <1>4 DEF FindExisting, Verdict

LEMMA CreatingKeepsRuns ==
  ASSUME BootstrapInv, NEW r \in Runs, CreateSearchIndex(r)
  PROVE  BootstrapInv'
  <1>1. /\ init[r] \in InitType /\ RunKept(r) /\ init[r].pc = "creating" /\ drops' = drops
        /\ init[r].release \in Releases /\ init[r].at \in 1 .. 2
    <2>1. init[r] \in InitType /\ RunKept(r) /\ init[r].pc = "creating" /\ drops' = drops
      BY DEF CreateSearchIndex, BootstrapInv, BootstrapType
    <2>2. init[r].at \in 1 .. 2 /\ init[r].release \in Releases
      BY <2>1 DEF RunKept, Listing, InitType
    <2>3. QED
      BY <2>1, <2>2
  <1>2. CASE Moves(r, "exit1") /\ UNCHANGED database
    BY <1>1, <1>2, EndingKeepsRuns
  <1>3. CASE /\ PlanDone(r) /\ database.index[Plan(r)] = Absent
             /\ database' = [database EXCEPT !.index[Plan(r)] = Created(r)]
    <2>1. PICK at : at = init[r].at
      OBVIOUS
    <2>2. PICK release : release = init[r].release
      OBVIOUS
    <2> DEFINE plan == Plans[at]
               latest == Reported(plan, Definition(plan, release))
               created == [status |-> "PENDING", queryable |-> FALSE, latest |-> latest]
    <2>3. plan \in Range(Plans) /\ Plan(r) = plan /\ Created(r) = created
      BY <1>1, <2>1, <2>2, SpecsAndPlans DEF Plan, Created, Wanted
    <2>4. latest \in Latest
      BY <1>1, <2>2, <2>3 DEF Latest
    <2>5. IsSubsetOf(Definition(plan, release), latest)
      BY ReportHoldsDefinition
    <2> HIDE DEF plan, latest
    <2>6. /\ database \in DatabaseType /\ database.index[plan].status = "absent"
          /\ database' = [database EXCEPT !.index[plan] = created]
      BY <1>3, <2>3 DEF BootstrapInv, BootstrapType, Absent
    <2>7. /\ database'.index = [database.index EXCEPT ![plan] = created]
          /\ database'.btree = database.btree
          /\ database' \in DatabaseType
      BY <2>3, <2>4, <2>6 DEF DatabaseType
    <2>8. \A p \in Range(Plans) : database'.index[p] = IF p = plan THEN created ELSE database.index[p]
      BY <2>3, <2>6, <2>7 DEF DatabaseType
    <2>9. IndexesKept'
      BY <2>8 DEF BootstrapInv, IndexesKept
    <2>10. InPlace(plan, release)'
      BY <2>3, <2>5, <2>8 DEF InPlace
    <2>11. \A p \in Range(Plans) : database.index[p].status # "absent" =>
             /\ database'.index[p].status # "absent"
             /\ database'.index[p].latest = database.index[p].latest
             /\ database.index[p].queryable => database'.index[p].queryable
      BY <2>6, <2>8
    <2>12. QED
      BY <1>1, <1>3, <2>1, <2>2, <2>7, <2>9, <2>10, <2>11, PlanDoneKeepsRuns DEF Listing, plan
  <1>4. QED
    BY <1>2, <1>3 DEF CreateSearchIndex

LEMMA CollectionsOfSpecs ==
  \A i \in 1 .. 7 : DB_INDEX_SPECS[i].collection \in {"records", "jobs", "chunks", "articles"}
  <1> SUFFICES ASSUME NEW i \in 1 .. 7
               PROVE  DB_INDEX_SPECS[i].collection \in {"records", "jobs", "chunks", "articles"}
    OBVIOUS
  <1>1. i = 1 \/ i = 2 \/ i = 3 \/ i = 4 \/ i = 5 \/ i = 6 \/ i = 7
    OBVIOUS
  <1>2. QED
    BY <1>1 DEF DB_INDEX_SPECS

LEMMA EnsuringKeepsRuns ==
  ASSUME BootstrapInv, NEW r \in Runs, EnsureIndex(r)
  PROVE  BootstrapInv'
  <1>1. /\ init[r] \in InitType /\ init \in [Runs -> InitType] /\ RunKept(r)
        /\ init[r].pc = "btree" /\ drops' = drops
        /\ init[r].release \in Releases /\ init[r].at \in 1 .. 7
    <2>1. /\ init[r] \in InitType /\ init \in [Runs -> InitType] /\ RunKept(r)
          /\ init[r].pc = "btree" /\ drops' = drops
      BY DEF EnsureIndex, BootstrapInv, BootstrapType
    <2>2. init[r].at \in 1 .. 7 /\ init[r].release \in Releases
      BY <2>1 DEF RunKept, InitType
    <2>3. QED
      BY <2>1, <2>2
  <1>2. CASE Moves(r, "exit1") /\ UNCHANGED database
    BY <1>1, <1>2, EndingKeepsRuns
  <1>3. CASE /\ database' = [database EXCEPT !.btree[init[r].at] = "own",
                        !.collections = @ \cup {DB_INDEX_SPECS[init[r].at].collection}]
             /\ IF init[r].at < 7 THEN init' = [init EXCEPT ![r].at = init[r].at + 1]
                                  ELSE Begins(r, "reading")
    <2>1. PICK n \in 1 .. 7 : n = init[r].at
      BY <1>1
    <2>2. DB_INDEX_SPECS[n].collection \in {"records", "jobs", "chunks", "articles"}
      BY CollectionsOfSpecs
    <2>3. database \in DatabaseType
      BY DEF BootstrapInv, BootstrapType
    <2>4. /\ database'.btree = [database.btree EXCEPT ![n] = "own"]
          /\ database'.index = database.index
      BY <1>3, <2>1, <2>3 DEF DatabaseType
    <2>5. database' \in DatabaseType
      <3> DEFINE found == database.collections \cup {DB_INDEX_SPECS[n].collection}
      <3>1. found \in SUBSET {"records", "jobs", "chunks", "articles"}
        BY <2>2, <2>3 DEF DatabaseType
      <3>2. database' = [database EXCEPT !.btree[n] = "own", !.collections = found]
        BY <1>3, <2>1
      <3> HIDE DEF found
      <3>3. QED
        BY <2>3, <3>1, <3>2 DEF DatabaseType
    <2>6. \A m \in 1 .. 7 : database'.btree[m] = IF m = n THEN "own" ELSE database.btree[m]
      BY <2>3, <2>4 DEF DatabaseType
    <2>7. IndexesKept'
      BY <2>4 DEF BootstrapInv, IndexesKept
    <2>8. \A m \in 1 .. 7 : m < n + 1 => database'.btree[m] = "own"
      BY <1>1, <2>1, <2>6 DEF RunKept
    <2>9. CASE n < 7
      <3> DEFINE i == [init[r] EXCEPT !.at = n + 1]
      <3>1. init' = [init EXCEPT ![r] = i] /\ init'[r] = i
        BY <1>1, <1>3, <2>1, <2>9
      <3>2. i \in InitType
        BY <1>1 DEF InitType
      <3>3. i.pc = "btree" /\ i.at = n + 1
        BY <1>1 DEF InitType
      <3> HIDE DEF i
      <3>4. RunKept(r)'
        BY <2>8, <2>9, <3>1, <3>3 DEF RunKept, Listing, Waiting
      <3>5. QED
        BY <1>1, <2>4, <2>5, <2>6, <2>7, <3>1, <3>2, <3>4, RunsApart
    <2>10. CASE n = 7
      <3> DEFINE i == [init[r] EXCEPT !.pc = "reading", !.at = 1]
      <3>0. Begins(r, "reading") /\ "reading" \in PCs
        BY <1>3, <2>1, <2>10, Places
      <3>1. init' = [init EXCEPT ![r] = i] /\ init'[r] = i
        BY <1>1, <3>0 DEF Begins
      <3>2. i \in InitType
        <4>1. "reading" \in PCs /\ 1 \in Nat \ {0} /\ init[r] \in InitType
          BY <1>1, <3>0
        <4>2. QED
          BY <4>1 DEF InitType
      <3>3. i.pc = "reading"
        BY <1>1 DEF InitType
      <3> HIDE DEF i
      <3>4. RunKept(r)'
        BY <2>8, <2>10, <3>1, <3>3 DEF RunKept, Listing, Waiting
      <3>5. QED
        BY <1>1, <2>4, <2>5, <2>6, <2>7, <3>1, <3>2, <3>4, RunsApart
    <2>11. QED
      BY <2>9, <2>10
  <1>4. QED
    BY <1>2, <1>3, SpecsAndPlans DEF EnsureIndex

LEMMA CollectingKeepsRuns ==
  ASSUME BootstrapInv, NEW r \in Runs, CreateCollection(r)
  PROVE  BootstrapInv'
  <1>1. /\ init[r] \in InitType /\ init \in [Runs -> InitType] /\ RunKept(r)
        /\ init[r].pc = "collecting" /\ drops' = drops /\ database \in DatabaseType
        /\ Moves(r, "finding") /\ init[r].release \in Releases
        /\ database' = [database EXCEPT !.collections = @ \cup {"chunks"}]
    BY DEF CreateCollection, BootstrapInv, BootstrapType, PlanCollection, InitType
  <1>2. database'.btree = database.btree /\ database'.index = database.index
    BY <1>1 DEF DatabaseType
  <1>3. database' \in DatabaseType
    <2>1. database.collections \cup {"chunks"} \in SUBSET {"records", "jobs", "chunks", "articles"}
      BY <1>1 DEF DatabaseType
    <2>2. QED
      BY <1>1, <2>1 DEF DatabaseType
  <1>4. IndexesKept'
    BY <1>2 DEF BootstrapInv, IndexesKept
  <1> DEFINE i == [init[r] EXCEPT !.pc = "finding"]
  <1>5. init' = [init EXCEPT ![r] = i] /\ init'[r] = i
    BY <1>1 DEF Moves
  <1>6. i \in InitType
    BY <1>1, Places DEF InitType
  <1>7. i.pc = "finding" /\ i.at = init[r].at
    BY <1>1 DEF InitType
  <1>8. i.release = init[r].release /\ i.sure = init[r].sure
    BY <1>1 DEF InitType
  <1> HIDE DEF i
  <1>9. RunKept(r)'
    BY <1>1, <1>2, <1>5, <1>7, <1>8 DEF RunKept, Listing, Waiting, InPlace
  <1>10. QED
    BY <1>1, <1>2, <1>3, <1>4, <1>5, <1>6, <1>9, RunsApart

\* mongot only makes an index more than it was, as far as runs rely on it.
LEMMA BuildingKeepsRuns ==
  ASSUME BootstrapInv, NEW p \in Range(Plans), BuildIndex(p)
  PROVE  BootstrapInv'
  <1>1. /\ database \in DatabaseType /\ init' = init /\ drops' = drops
        /\ database.index[p].status # "absent"
    BY DEF BuildIndex, BootstrapInv, BootstrapType
  <1>2. PICK found \in [status : {"PENDING", "READY", "FAILED"}, queryable : BOOLEAN,
                        latest : {database.index[p].latest}] :
           /\ database' = [database EXCEPT !.index[p] = found]
           /\ found.queryable => found.status = "READY"
           /\ database.index[p].queryable => found.queryable
    <2> DEFINE old == database.index[p]
    <2>1. /\ old \in [status : {"absent", "PENDING", "READY", "FAILED"},
                      queryable : BOOLEAN, latest : Latest]
          /\ old.queryable => old.status = "READY"
      BY <1>1 DEF DatabaseType, BootstrapInv, IndexesKept
    <2>2. ASSUME NEW s \in {"READY", "FAILED"}, old.status = "PENDING",
                 database' = [database EXCEPT !.index[p].status = s]
          PROVE  /\ [old EXCEPT !.status = s] \in
                        [status : {"PENDING", "READY", "FAILED"}, queryable : BOOLEAN,
                         latest : {old.latest}]
                 /\ database' = [database EXCEPT !.index[p] = [old EXCEPT !.status = s]]
                 /\ ~old.queryable /\ ~[old EXCEPT !.status = s].queryable
      BY <1>1, <2>1, <2>2 DEF DatabaseType
    <2>3. ASSUME old.status = "READY",
                 database' = [database EXCEPT !.index[p].queryable = TRUE]
          PROVE  /\ [old EXCEPT !.queryable = TRUE] \in
                        [status : {"PENDING", "READY", "FAILED"}, queryable : BOOLEAN,
                         latest : {old.latest}]
                 /\ database' = [database EXCEPT !.index[p] = [old EXCEPT !.queryable = TRUE]]
                 /\ [old EXCEPT !.queryable = TRUE].status = "READY"
                 /\ [old EXCEPT !.queryable = TRUE].queryable
      BY <1>1, <2>1, <2>3 DEF DatabaseType
    <2>4. QED
      BY <2>2, <2>3 DEF BuildIndex
  <1>3. found \in [status : {"absent", "PENDING", "READY", "FAILED"},
                   queryable : BOOLEAN, latest : Latest]
    BY <1>1, <1>2 DEF DatabaseType
  <1>4. /\ database'.index = [database.index EXCEPT ![p] = found]
        /\ database'.btree = database.btree
        /\ database' \in DatabaseType
    BY <1>1, <1>2, <1>3 DEF DatabaseType
  <1>5. \A q \in Range(Plans) : database'.index[q] = IF q = p THEN found ELSE database.index[q]
    BY <1>1, <1>4 DEF DatabaseType
  <1>6. IndexesKept'
    BY <1>2, <1>5 DEF BootstrapInv, IndexesKept
  <1>7. \A q \in Range(Plans) : database.index[q].status # "absent" =>
             /\ database'.index[q].status # "absent"
             /\ database'.index[q].latest = database.index[q].latest
             /\ database.index[q].queryable => database'.index[q].queryable
    BY <1>2, <1>5
  <1>8. \A r \in Runs : RunKept(r)'
    BY <1>1, <1>4, <1>7, WorkIsKept
  <1>9. QED
    BY <1>1, <1>4, <1>6, <1>8 DEF BootstrapInv, BootstrapType

\* A drop leaves no run sure of a search index.
LEMMA DroppingKeepsRuns ==
  ASSUME BootstrapInv, NEW p \in Range(Plans), DropIndex(p)
  PROVE  BootstrapInv'
  <1>1. /\ database \in DatabaseType /\ init \in [Runs -> InitType] /\ drops \in Nat
        /\ database' = [database EXCEPT !.index[p] = Absent] /\ drops' = drops + 1
        /\ init' = [r \in Runs |-> [init[r] EXCEPT !.sure = init[r].pc = "off"]]
    BY DEF DropIndex, BootstrapInv, BootstrapType
  <1>2. Absent \in [status : {"absent", "PENDING", "READY", "FAILED"},
                    queryable : BOOLEAN, latest : Latest]
    BY DEF Absent, Latest
  <1>3. /\ database'.index = [database.index EXCEPT ![p] = Absent]
        /\ database'.btree = database.btree
        /\ database' \in DatabaseType
    BY <1>1, <1>2 DEF DatabaseType
  <1>4. IndexesKept'
    <2>1. \A q \in Range(Plans) : database'.index[q] = IF q = p THEN Absent ELSE database.index[q]
      BY <1>1, <1>3 DEF DatabaseType
    <2>2. Absent.queryable = FALSE
      BY DEF Absent
    <2>3. QED
      BY <2>1, <2>2 DEF BootstrapInv, IndexesKept
  <1>5. ASSUME NEW r \in Runs
        PROVE  /\ init'[r] \in InitType
               /\ init'[r].pc = init[r].pc /\ init'[r].at = init[r].at
               /\ init'[r].release = init[r].release
               /\ init'[r].sure <=> init[r].pc = "off"
    <2>1. init[r] \in InitType /\ init'[r] = [init[r] EXCEPT !.sure = init[r].pc = "off"]
      BY <1>1
    <2>2. (init[r].pc = "off") \in BOOLEAN
      OBVIOUS
    <2>3. init'[r] \in InitType
      BY <2>1, <2>2 DEF InitType
    <2>4. init'[r].pc = init[r].pc /\ init'[r].at = init[r].at
             /\ init'[r].release = init[r].release
      BY <2>1 DEF InitType
    <2>5. init'[r].sure <=> init[r].pc = "off"
      BY <2>1 DEF InitType
    <2>6. QED
      BY <2>3, <2>4, <2>5
  <1>6. init' \in [Runs -> InitType]
    BY <1>1, <1>5
  <1>7. ASSUME NEW r \in Runs PROVE RunKept(r)'
    <2>1. RunKept(r)
      BY DEF BootstrapInv
    <2>2. QED
      BY <1>3, <1>5, <2>1 DEF RunKept, Listing, Waiting
  <1>8. QED
    BY <1>1, <1>3, <1>4, <1>6, <1>7 DEF BootstrapInv, BootstrapType

\* docker-compose.yml: core-api and worker wait for db-init to have exited with
\* 0; whichever other runs and releases were at it, the indexes of that release
\* are there then, the search indexes answer queries, and they are as defined.
THEOREM BootstrapVerifies == BootstrapSpec => []SuccessIsVerified
  <1>1. BootstrapInit => BootstrapInv
    <2> SUFFICES ASSUME BootstrapInit PROVE BootstrapInv
      OBVIOUS
    <2>1. PICK search \in BOOLEAN, duplicates \in BOOLEAN, other \in Clashing \cup {0},
               old \in Releases, present \in BOOLEAN :
            /\ duplicates \/ other # 0 => present
            /\ database = [search |-> search, duplicates |-> duplicates,
                collections |-> IF present THEN {"records", "jobs", "chunks"} ELSE {},
                btree |-> [i \in 1 .. Len(DB_INDEX_SPECS) |-> IF i = other THEN "other" ELSE "absent"],
                index |-> [p \in Range(Plans) |->
                    IF present /\ search /\ Buildable(old) THEN
                        [status |-> "READY", queryable |-> TRUE,
                         latest |-> Reported(p, Definition(p, old))]
                    ELSE Absent]]
      BY DEF BootstrapInit
    <2> DEFINE there == present /\ search /\ Buildable(old)
               collections == IF present THEN {"records", "jobs", "chunks"} ELSE {}
               btree == [i \in 1 .. 7 |-> IF i = other THEN "other" ELSE "absent"]
               index == [p \in Range(Plans) |->
                    IF there THEN [status |-> "READY", queryable |-> TRUE,
                                   latest |-> Reported(p, Definition(p, old))]
                    ELSE Absent]
    <2>2. database = [search |-> search, duplicates |-> duplicates, collections |-> collections,
                      btree |-> btree, index |-> index]
      BY <2>1, SpecsAndPlans
    <2>3. collections \in SUBSET {"records", "jobs", "chunks", "articles"}
             /\ btree \in [1 .. 7 -> {"own", "other", "absent"}]
      OBVIOUS
    <2>4. ASSUME NEW p \in Range(Plans)
          PROVE  /\ index[p] \in [status : {"absent", "PENDING", "READY", "FAILED"},
                                  queryable : BOOLEAN, latest : Latest]
                 /\ index[p].queryable => index[p].status = "READY"
                 /\ index[p].status = "absent" => index[p] = Absent
      <3>1. Reported(p, Definition(p, old)) \in Latest /\ << >> \in Latest
        BY DEF Latest
      <3>2. CASE there
        <4>1. index[p] = [status |-> "READY", queryable |-> TRUE,
                          latest |-> Reported(p, Definition(p, old))]
          BY <3>2
        <4> HIDE DEF index
        <4>2. QED
          BY <3>1, <4>1
      <3>3. CASE ~there
        <4>1. index[p] = Absent
          BY <3>3
        <4> HIDE DEF index
        <4>2. QED
          BY <3>1, <4>1 DEF Absent
      <3>4. QED
        BY <3>2, <3>3
    <2>5. index \in [Range(Plans) -> [status : {"absent", "PENDING", "READY", "FAILED"},
                                      queryable : BOOLEAN, latest : Latest]]
      BY <2>4
    <2> HIDE DEF index, btree, collections, there
    <2>6. database \in DatabaseType /\ database.index = index
      BY <2>2, <2>3, <2>5 DEF DatabaseType
    <2>7. IndexesKept
      BY <2>4, <2>6 DEF IndexesKept
    <2>8. Idle \in InitType /\ Idle.pc = "off"
      <3> DEFINE any == CHOOSE x \in Releases : TRUE
      <3>1. any \in Releases /\ "off" \in PCs
        BY Places
      <3> HIDE DEF any
      <3>2. Idle = [pc |-> "off", release |-> any, at |-> 1,
                    pending |-> FALSE, waited |-> 0, sure |-> TRUE]
        BY DEF Idle, any
      <3>3. QED
        BY <3>1, <3>2 DEF InitType
    <2>9. init = [r \in Runs |-> Idle] /\ drops = 0
      BY DEF BootstrapInit
    <2>10. \A r \in Runs : RunKept(r)
      BY <2>8, <2>9 DEF RunKept, Listing, Waiting
    <2>11. QED
      BY <2>6, <2>7, <2>8, <2>9, <2>10 DEF BootstrapInv, BootstrapType
  <1>2. BootstrapInv /\ [BootstrapNext]_bootstrapVars => BootstrapInv'
    <2> SUFFICES ASSUME BootstrapInv, [BootstrapNext]_bootstrapVars PROVE BootstrapInv'
      OBVIOUS
    <2>1. ASSUME NEW r \in Runs, CrashInit(r) PROVE BootstrapInv'
      BY <2>1, EndingKeepsRuns DEF CrashInit
    <2>2. ASSUME NEW r \in Runs, InitStep(r) PROVE BootstrapInv'
      BY <2>2, ConnectKeepsRuns, EnsuringKeepsRuns, ReadingKeepsRuns, ListingKeepsRuns,
         CollectingKeepsRuns, FindingKeepsRuns, CreatingKeepsRuns, PollingKeepsRuns,
         RoundsKeepRuns, SleepingKeepsRuns DEF InitStep
    <2>3. CASE UNCHANGED bootstrapVars
      BY <2>3 DEF bootstrapVars, BootstrapInv, BootstrapType, IndexesKept, RunKept, InPlace
    <2>4. QED
      BY <2>1, <2>2, <2>3, StartingKeepsRuns, BuildingKeepsRuns, DroppingKeepsRuns
         DEF BootstrapNext
  <1>3. BootstrapInv => SuccessIsVerified
    <2> SUFFICES ASSUME BootstrapInv, NEW r \in Runs, init[r].pc = "exit0"
                 PROVE  /\ init[r].release.both =>
                              \A i \in 1 .. Len(DB_INDEX_SPECS) : database.btree[i] = "own"
                        /\ init[r].sure => \A p \in Range(Plans) :
                              /\ database.index[p].queryable
                              /\ IsSubsetOf(Definition(p, init[r].release),
                                            database.index[p].latest)
      BY DEF SuccessIsVerified
    <2>1. RunKept(r)
      BY DEF BootstrapInv
    <2>2. QED
      BY <2>1, SpecsAndPlans DEF RunKept, Waiting, InPlace
  <1>4. QED
    BY <1>1, <1>2, <1>3, PTL DEF BootstrapSpec

-----------------------------------------------------------------------------
(* The embedder's client.                                                  *)

\* A later backoff is no shorter.
LEMMA BackoffsGrow ==
  ASSUME NEW a \in Nat, NEW b \in Nat, a <= b, b <= MaxRetries + RateLimitRetries
  PROVE  Doubled(a) <= Doubled(b)
  <1> DEFINE n == MaxRetries + RateLimitRetries
             S == {d \in Nat : a + d <= n => Doubled(a) <= Doubled(a + d)}
  <1>1. n \in Nat
    BY EmbedderCallsAssumption
  <1>2. \A k \in 0 .. n : Doubled(k) \in Nat /\ Doubled(k + 1) = 2 * Doubled(k)
    BY BackoffAssumption
  <1> HIDE DEF n
  <1>3. 0 \in S
    <2>1. a + 0 = a /\ a \in 0 .. n
      BY <1>1 DEF n
    <2>2. QED
      BY <1>2, <2>1
  <1>4. ASSUME NEW d \in Nat, d \in S PROVE d + 1 \in S
    <2>1. CASE a + (d + 1) <= n
      <3>1. Doubled(a) <= Doubled(a + d) /\ a + d \in 0 .. n /\ a \in 0 .. n
        BY <1>1, <1>4, <2>1
      <3>2. /\ Doubled(a + d) \in Nat /\ Doubled(a) \in Nat
            /\ Doubled((a + d) + 1) = 2 * Doubled(a + d)
        BY <1>2, <3>1
      <3>3. (a + d) + 1 = a + (d + 1)
        OBVIOUS
      <3>4. Doubled(a) <= Doubled(a + (d + 1))
        BY <3>1, <3>2, <3>3
      <3>5. QED
        BY <3>4
    <2>2. CASE ~(a + (d + 1) <= n)
      BY <2>2
    <2>3. QED
      BY <2>1, <2>2
  <1> HIDE DEF S
  <1>5. b - a \in S
    <2>1. b - a \in Nat
      OBVIOUS
    <2>2. QED
      BY <1>3, <1>4, <2>1, CountingUp
  <1>6. a + (b - a) = b /\ b <= n
    BY DEF n
  <1>7. QED
    BY <1>5, <1>6 DEF S

\* Vectors that fit a batch are those of its texts, each once.
LEMMA BatchesAreWhole ==
  ASSUME NEW k \in Nat \ {0}, NEW data \in Data(k), FitsBatch(data, k), NEW i \in 1 .. k
  PROVE  \E j \in 1 .. k : data[j].index = i - 1
  <1>1. data \in [1 .. k -> Items(k)]
    <2>1. PICK n \in {k - 1, k} : data \in [1 .. n -> Items(k)]
      BY DEF Data
    <2>2. n \in Nat /\ Len(data) = n
      BY <2>1
    <2>3. QED
      BY <2>1, <2>2 DEF FitsBatch
  <1> DEFINE f == [j \in 1 .. k |-> data[j].index]
  <1>2. ASSUME NEW j \in 1 .. k PROVE f[j] \in 0 .. (k - 1)
    <2>1. data[j].index \in 0 .. k /\ data[j].index < k
      BY <1>1 DEF Items, FitsBatch
    <2>2. QED
      BY <2>1
  <1>3. f \in Injection(1 .. k, 0 .. (k - 1))
    BY <1>2 DEF Injection, FitsBatch, IsInjective
  <1>4. /\ IsFiniteSet(0 .. (k - 1)) /\ Cardinality(0 .. (k - 1)) = k
        /\ IsFiniteSet(1 .. k) /\ Cardinality(1 .. k) = k
    BY FS_Interval
  <1>5. f \in Surjection(1 .. k, 0 .. (k - 1))
    BY <1>3, <1>4, FS_Injection
  <1>6. QED
    <2>1. i - 1 \in 0 .. (k - 1)
      OBVIOUS
    <2>2. PICK j \in 1 .. k : f[j] = i - 1
      BY <1>5, <2>1 DEF Surjection
    <2>3. QED
      BY <2>2

LEMMA LesserOf ==
  ASSUME NEW a \in Int, NEW b \in Int
  PROVE  /\ Min({a, b}) \in {a, b}
         /\ Min({a, b}) <= a /\ Min({a, b}) <= b
  <1>1. \E x \in {a, b} : \A y \in {a, b} : x <= y
    <2>1. CASE a <= b
      BY <2>1
    <2>2. CASE ~(a <= b)
      BY <2>2
    <2>3. QED
      BY <2>1, <2>2
  <1>2. Min({a, b}) \in {a, b} /\ \A y \in {a, b} : Min({a, b}) <= y
    BY <1>1 DEF Min
  <1>3. QED
    BY <1>2

Numbers(n) == [i \in 1 .. n |-> i]

LEMMA NumbersAreSequences ==
  ASSUME NEW n \in Nat
  PROVE  Numbers(n) \in Seq(Nat) /\ Len(Numbers(n)) = n
  BY DEF Numbers

\* What the batches so far gave, followed by what the next one gives.
LEMMA NumbersGoOn ==
  ASSUME NEW n \in Nat, NEW k \in Nat, NEW s,
         s = [i \in 1 .. k |-> n + i]
  PROVE  Numbers(n) \o s = Numbers(n + k)
  <1>1. s \in Seq(Nat) /\ Len(s) = k
    OBVIOUS
  <1>2. Numbers(n) \in Seq(Nat) /\ Len(Numbers(n)) = n
    BY NumbersAreSequences
  <1>3. Numbers(n + k) \in Seq(Nat) /\ Len(Numbers(n + k)) = n + k
    BY NumbersAreSequences
  <1>4. /\ Numbers(n) \o s \in Seq(Nat) /\ Len(Numbers(n) \o s) = n + k
        /\ \A i \in 1 .. n + k :
              (Numbers(n) \o s)[i] = IF i <= n THEN Numbers(n)[i] ELSE s[i - n]
    <2>1. /\ Numbers(n) \o s \in Seq(Nat)
          /\ Len(Numbers(n) \o s) = Len(Numbers(n)) + Len(s)
          /\ \A i \in 1 .. Len(Numbers(n)) + Len(s) :
                (Numbers(n) \o s)[i] =
                    IF i <= Len(Numbers(n)) THEN Numbers(n)[i] ELSE s[i - Len(Numbers(n))]
      BY ONLY <1>1, <1>2, ConcatProperties
    <2>2. QED
      BY ONLY <1>1, <1>2, <2>1
  <1>5. ASSUME NEW i \in 1 .. n + k PROVE (Numbers(n) \o s)[i] = Numbers(n + k)[i]
    <2>1. CASE i <= n
      BY <1>4, <2>1 DEF Numbers
    <2>2. CASE ~(i <= n)
      <3>1. (Numbers(n) \o s)[i] = s[i - n]
        BY <1>4, <2>2
      <3>2. i - n \in 1 .. k
        BY <2>2
      <3>3. s[i - n] = n + (i - n)
        BY <3>2
      <3>4. QED
        BY <3>1, <3>3 DEF Numbers
    <2>3. QED
      BY <2>1, <2>2
  <1>6. QED
    BY <1>3, <1>4, <1>5, SeqEqual

\* ParseVectors gives the vectors in the order of the texts.
LEMMA VectorsInOrder ==
  ASSUME NEW k \in Nat \ {0}, NEW data \in Data(k), FitsBatch(data, k), Done(call) \in Nat
  PROVE  ParseVectors(data) = [i \in 1 .. k |-> Done(call) + i] /\ Len(data) = k
  <1>1. Len(data) = k
    BY DEF FitsBatch
  <1>2. ASSUME NEW i \in 1 .. k
        PROVE  data[CHOOSE j \in 1 .. Len(data) : data[j].index = i - 1].index = i - 1
    BY <1>1, BatchesAreWhole
  <1>3. ASSUME NEW i \in 1 .. k
        PROVE  Done(call) + data[CHOOSE j \in 1 .. Len(data) : data[j].index = i - 1].index + 1
                  = Done(call) + i
    BY <1>2
  <1>4. QED
    BY <1>1, <1>3 DEF ParseVectors

-----------------------------------------------------------------------------

CallType == [pc : {"none", "requesting", "done", "failed"}, texts : Nat,
             attempt : 0 .. MaxRetries, rateLimitAttempt : 0 .. RateLimitRetries,
             waited : Nat, vectors : Seq(Nat)]

EmbedderType ==
    /\ embedder \in [status : {"none", "ready", "PROVIDER_UNKNOWN", "DIM_INVALID",
                               "VERSION_INVALID", "MODEL_MISSING", "API_KEY_MISSING"},
                     provider : Providers \cup {"none"}, batchSize : Nat \ {0}]
    /\ call \in CallType

\* The most that a call has waited before its first batch was answered, with so
\* many failures of either kind behind it.
Waits(attempt, rateLimitAttempt) ==
    BackoffBase * (Doubled(attempt) - Doubled(0))
        + (RateLimitBackoffBase * (Doubled(rateLimitAttempt) - Doubled(0))
              + rateLimitAttempt * RetryAfterCap)

\* A call has the vectors of its first texts; while it waits it has texts left,
\* and before the first batch it has waited as its counters say.
EmbedderInv ==
    /\ EmbedderType
    /\ embedder.status # "ready" => call = NoCall
    /\ call.pc = "requesting" =>
          /\ call.vectors = Numbers(Done(call)) /\ Done(call) < call.texts
          /\ call.texts <= embedder.batchSize =>
                /\ Done(call) = 0
                /\ call.waited <= Waits(call.attempt, call.rateLimitAttempt)
    /\ call.pc = "done" => call.vectors = Numbers(call.texts)
    /\ call.texts <= embedder.batchSize => call.waited <= Waits(MaxRetries, RateLimitRetries)

LEMMA WaitsGrow ==
  ASSUME NEW a \in 0 .. MaxRetries, NEW n \in 0 .. RateLimitRetries
  PROVE  /\ Doubled(a) \in Nat /\ Doubled(n) \in Nat
         /\ 0 <= Waits(a, n) /\ Waits(a, n) <= Waits(MaxRetries, RateLimitRetries)
         /\ a < MaxRetries => Waits(a + 1, n) = Waits(a, n) + BackoffBase * Doubled(a)
         /\ n < RateLimitRetries =>
               Waits(a, n + 1) = Waits(a, n) + RateLimitBackoffBase * Doubled(n) + RetryAfterCap
  <1>1. {MaxRetries, RateLimitRetries, BackoffBase, RateLimitBackoffBase, RetryAfterCap} \subseteq Nat
    BY EmbedderCallsAssumption
  <1>2. /\ Doubled(0) \in Nat /\ Doubled(a) \in Nat /\ Doubled(n) \in Nat
        /\ Doubled(MaxRetries) \in Nat /\ Doubled(RateLimitRetries) \in Nat
        /\ Doubled(a + 1) = 2 * Doubled(a) /\ Doubled(n + 1) = 2 * Doubled(n)
    BY <1>1, BackoffAssumption
  <1>3. /\ Doubled(0) <= Doubled(a) /\ Doubled(a) <= Doubled(MaxRetries)
        /\ Doubled(0) <= Doubled(n) /\ Doubled(n) <= Doubled(RateLimitRetries)
    BY <1>1, BackoffsGrow
  <1>4. ASSUME NEW b \in Nat, NEW x \in Nat, NEW y \in Nat, x <= y
        PROVE  b * x <= b * y /\ b * (y - x) = b * y - b * x /\ b * x \in Nat
    BY <1>4
  <1>5. /\ 0 <= BackoffBase * (Doubled(a) - Doubled(0))
        /\ BackoffBase * (Doubled(a) - Doubled(0)) <= BackoffBase * (Doubled(MaxRetries) - Doubled(0))
    <2>1. Doubled(a) - Doubled(0) \in Nat /\ Doubled(MaxRetries) - Doubled(0) \in Nat
             /\ Doubled(a) - Doubled(0) <= Doubled(MaxRetries) - Doubled(0)
      BY <1>2, <1>3
    <2>2. QED
      BY <1>1, <1>4, <2>1
  <1>6. /\ 0 <= RateLimitBackoffBase * (Doubled(n) - Doubled(0))
        /\ RateLimitBackoffBase * (Doubled(n) - Doubled(0))
              <= RateLimitBackoffBase * (Doubled(RateLimitRetries) - Doubled(0))
    <2>1. Doubled(n) - Doubled(0) \in Nat /\ Doubled(RateLimitRetries) - Doubled(0) \in Nat
             /\ Doubled(n) - Doubled(0) <= Doubled(RateLimitRetries) - Doubled(0)
      BY <1>2, <1>3
    <2>2. QED
      BY <1>1, <1>4, <2>1
  <1>7. n * RetryAfterCap \in Nat /\ n * RetryAfterCap <= RateLimitRetries * RetryAfterCap
           /\ RateLimitRetries * RetryAfterCap \in Nat
    <2>1. n \in Nat /\ n <= RateLimitRetries
      BY <1>1
    <2>2. RetryAfterCap * n <= RetryAfterCap * RateLimitRetries /\ RetryAfterCap * n \in Nat
             /\ RetryAfterCap * RateLimitRetries \in Nat
      BY <1>1, <1>4, <2>1
    <2>3. QED
      BY <1>1, <2>1, <2>2
  <1>8. 0 <= Waits(a, n) /\ Waits(a, n) <= Waits(MaxRetries, RateLimitRetries)
    <2>1. ASSUME NEW u \in Int, NEW v \in Int, NEW w \in Int, NEW x \in Int, NEW y \in Int, NEW z \in Int,
                 0 <= u, u <= x, 0 <= v, v <= y, 0 <= w, w <= z
          PROVE  0 <= u + (v + w) /\ u + (v + w) <= x + (y + z)
      BY <2>1
    <2>2. /\ BackoffBase * (Doubled(a) - Doubled(0)) \in Int
          /\ BackoffBase * (Doubled(MaxRetries) - Doubled(0)) \in Int
          /\ RateLimitBackoffBase * (Doubled(n) - Doubled(0)) \in Int
          /\ RateLimitBackoffBase * (Doubled(RateLimitRetries) - Doubled(0)) \in Int
      BY <1>1, <1>2
    <2>3. QED
      BY <1>5, <1>6, <1>7, <2>1, <2>2 DEF Waits
  <1>9. a < MaxRetries => Waits(a + 1, n) = Waits(a, n) + BackoffBase * Doubled(a)
    <2>1. BackoffBase * (2 * Doubled(a) - Doubled(0))
             = BackoffBase * (Doubled(a) - Doubled(0)) + BackoffBase * Doubled(a)
      BY <1>1, <1>2
    <2>2. QED
      BY <1>1, <1>2, <2>1 DEF Waits
  <1>10. Waits(a, n + 1) = Waits(a, n) + RateLimitBackoffBase * Doubled(n) + RetryAfterCap
    <2>1. RateLimitBackoffBase * (2 * Doubled(n) - Doubled(0))
             = RateLimitBackoffBase * (Doubled(n) - Doubled(0)) + RateLimitBackoffBase * Doubled(n)
      BY <1>1, <1>2
    <2>2. (n + 1) * RetryAfterCap = n * RetryAfterCap + RetryAfterCap
      BY <1>1
    <2>3. QED
      BY <1>1, <1>2, <2>1, <2>2 DEF Waits
  <1>11. QED
    BY <1>2, <1>8, <1>9, <1>10

LEMMA CreatingKeepsEmbedder ==
  ASSUME EmbedderInv, CreateEmbedder
  PROVE  EmbedderInv'
  <1>1. embedder = NoEmbedder /\ call = NoCall /\ call' = call
    BY DEF CreateEmbedder, EmbedderInv, NoEmbedder
  <1>2. PICK env \in Environments : embedder' =
           IF ConfigError(env) # "none" THEN [NoEmbedder EXCEPT !.status = ConfigError(env)]
           ELSE [status |-> "ready", provider |-> env.provider, batchSize |-> BatchSize(env)]
    BY DEF CreateEmbedder
  <1>3. BatchSize(env) \in Nat \ {0}
    <2>1. env.batchSize \in Nat /\ MaxEmbeddingBatchSize \in Nat \ {0}
      BY EmbedderCallsAssumption
    <2>2. Min({env.batchSize, MaxEmbeddingBatchSize}) \in {env.batchSize, MaxEmbeddingBatchSize}
      <3>1. env.batchSize \in Int /\ MaxEmbeddingBatchSize \in Int
        BY <2>1
      <3>2. QED
        BY <3>1, LesserOf
    <2>3. QED
      BY <2>1, <2>2 DEF BatchSize
  <1>4. ConfigError(env) \in {"none", "PROVIDER_UNKNOWN", "DIM_INVALID", "VERSION_INVALID",
                              "MODEL_MISSING", "API_KEY_MISSING"}
    BY DEF ConfigError
  <1>5. ConfigError(env) = "none" => env.provider \in Providers
    BY DEF ConfigError
  <1>6. EmbedderType'
    <2>1. CASE ConfigError(env) # "none"
      BY <1>1, <1>2, <1>4, <2>1 DEF EmbedderType, NoEmbedder, EmbedderInv
    <2>2. CASE ConfigError(env) = "none"
      BY <1>1, <1>2, <1>3, <1>5, <2>2 DEF EmbedderType, EmbedderInv
    <2>3. QED
      BY <2>1, <2>2
  <1>7. 0 <= Waits(MaxRetries, RateLimitRetries)
    <2>1. MaxRetries \in 0 .. MaxRetries /\ RateLimitRetries \in 0 .. RateLimitRetries
      BY EmbedderCallsAssumption
    <2>2. QED
      BY <2>1, WaitsGrow
  <1>8. QED
    BY <1>1, <1>6, <1>7 DEF EmbedderInv, NoCall

LEMMA EmbeddingKeepsEmbedder ==
  ASSUME EmbedderInv, Embed
  PROVE  EmbedderInv'
  <1>1. PICK n \in CallSizes : call' =
           IF n = 0 \/ embedder.provider = "fake"
           THEN [NoCall EXCEPT !.pc = "done", !.texts = n, !.vectors = [i \in 1 .. n |-> i]]
           ELSE [NoCall EXCEPT !.pc = "requesting", !.texts = n]
    BY DEF Embed
  <1>2. n \in Nat /\ MaxRetries \in Nat /\ RateLimitRetries \in Nat
    BY EmbedderCallsAssumption
  <1>3. embedder' = embedder /\ embedder.status = "ready" /\ EmbedderType
    BY DEF Embed, EmbedderInv
  <1>4. 0 <= Waits(0, 0) /\ 0 <= Waits(MaxRetries, RateLimitRetries)
    <2>1. /\ MaxRetries \in 0 .. MaxRetries /\ RateLimitRetries \in 0 .. RateLimitRetries
          /\ 0 \in 0 .. MaxRetries /\ 0 \in 0 .. RateLimitRetries
      BY <1>2
    <2>2. QED
      BY <2>1, WaitsGrow
  <1>5. Numbers(n) \in Seq(Nat) /\ NoCall \in CallType
    <2>1. << >> \in Seq(Nat) /\ 0 \in 0 .. MaxRetries /\ 0 \in 0 .. RateLimitRetries
      BY <1>2
    <2>2. NoCall \in CallType
      BY <2>1 DEF NoCall, CallType
    <2>3. QED
      BY <1>2, <2>2, NumbersAreSequences
  <1>6. CASE call' = [NoCall EXCEPT !.pc = "done", !.texts = n, !.vectors = Numbers(n)]
    <2>1. EmbedderType'
      <3>1. call' \in CallType
        BY <1>2, <1>5, <1>6 DEF CallType
      <3>2. QED
        BY <1>3, <3>1 DEF EmbedderType
    <2>2. /\ call'.pc = "done" /\ call'.vectors = Numbers(n) /\ call'.texts = n
          /\ call'.waited = 0
      BY <1>6 DEF NoCall
    <2>3. QED
      BY <1>3, <1>4, <2>1, <2>2 DEF EmbedderInv
  <1>7. CASE n # 0 /\ call' = [NoCall EXCEPT !.pc = "requesting", !.texts = n]
    <2>1. EmbedderType'
      <3>1. call' \in CallType
        BY <1>2, <1>5, <1>7 DEF CallType
      <3>2. QED
        BY <1>3, <3>1 DEF EmbedderType
    <2>2. /\ call'.pc = "requesting" /\ call'.texts = n /\ call'.vectors = << >>
          /\ call'.attempt = 0 /\ call'.rateLimitAttempt = 0 /\ call'.waited = 0
      BY <1>7 DEF NoCall
    <2>3. << >> = Numbers(0) /\ Len(<< >>) = 0
      BY DEF Numbers
    <2>4. Done(call)' = 0 /\ Done(call') = 0
      BY <2>2, <2>3 DEF Done
    <2>5. QED
      BY <1>2, <1>3, <1>4, <1>7, <2>1, <2>2, <2>3, <2>4 DEF EmbedderInv
  <1>8. QED
    BY <1>1, <1>6, <1>7 DEF Numbers

\* A call that fails keeps what it waited.
LEMMA FailingKeepsEmbedder ==
  ASSUME EmbedderInv, FailCall, call.pc = "requesting", embedder' = embedder
  PROVE  EmbedderInv'
  <1>1. /\ EmbedderType /\ embedder.status = "ready"
        /\ call' = [call EXCEPT !.pc = "failed", !.vectors = << >>]
    BY DEF EmbedderInv, FailCall, NoCall
  <1>2. EmbedderType'
    <2>1. << >> \in Seq(Nat)
      OBVIOUS
    <2>2. QED
      BY <1>1, <2>1 DEF EmbedderType, CallType
  <1>3. call'.pc = "failed" /\ call'.texts = call.texts /\ call'.waited = call.waited
    BY <1>1 DEF EmbedderType, CallType
  <1>4. QED
    BY <1>1, <1>2, <1>3 DEF EmbedderInv

\* Either kind of failure adds to its own counter, and waits no longer than its
\* next backoff, or than a rate limit may ask for.
LEMMA WaitingKeepsEmbedder ==
  ASSUME EmbedderInv, call.pc = "requesting", embedder' = embedder,
         NEW a \in 0 .. MaxRetries, NEW n \in 0 .. RateLimitRetries, NEW wait \in Nat,
         call' = [call EXCEPT !.attempt = a, !.rateLimitAttempt = n, !.waited = @ + wait],
         Waits(call.attempt, call.rateLimitAttempt) + wait <= Waits(a, n)
  PROVE  EmbedderInv'
  <1>1. EmbedderType /\ embedder.status = "ready"
    BY DEF EmbedderInv, NoCall
  <1>2. call.waited + wait \in Nat
    BY <1>1 DEF EmbedderType, CallType
  <1>3. EmbedderType'
    BY <1>1, <1>2 DEF EmbedderType, CallType
  <1>4. /\ call'.pc = "requesting" /\ call'.texts = call.texts
        /\ call'.vectors = call.vectors
    BY <1>1 DEF EmbedderType, CallType
  <1>5. /\ call'.attempt = a /\ call'.rateLimitAttempt = n /\ call'.waited = call.waited + wait
    BY <1>1 DEF EmbedderType, CallType
  <1>6. Done(call)' = Done(call) /\ Done(call') = Done(call)
    BY <1>4 DEF Done
  <1>7. Waits(a, n) <= Waits(MaxRetries, RateLimitRetries)
    BY WaitsGrow
  <1>8. call.attempt \in 0 .. MaxRetries /\ call.rateLimitAttempt \in 0 .. RateLimitRetries
           /\ call.waited \in Nat
    BY <1>1 DEF EmbedderType, CallType
  <1>9. call.texts <= embedder.batchSize =>
           /\ Done(call) = 0 /\ call'.waited <= Waits(a, n)
           /\ call'.waited <= Waits(MaxRetries, RateLimitRetries)
    <2> SUFFICES ASSUME call.texts <= embedder.batchSize
                 PROVE  /\ Done(call) = 0 /\ call'.waited <= Waits(a, n)
                        /\ call'.waited <= Waits(MaxRetries, RateLimitRetries)
      OBVIOUS
    <2>1. Done(call) = 0 /\ call.waited <= Waits(call.attempt, call.rateLimitAttempt)
      BY DEF EmbedderInv
    <2>2. \A x \in 0 .. MaxRetries, y \in 0 .. RateLimitRetries : Waits(x, y) \in Int
      <3>1. \A x \in 0 .. MaxRetries, y \in 0 .. RateLimitRetries :
               /\ Doubled(x) \in Nat /\ Doubled(y) \in Nat /\ Doubled(0) \in Nat
        BY EmbedderCallsAssumption, WaitsGrow
      <3>2. QED
        BY <3>1, EmbedderCallsAssumption DEF Waits
    <2>3. /\ Waits(call.attempt, call.rateLimitAttempt) \in Int /\ Waits(a, n) \in Int
          /\ Waits(MaxRetries, RateLimitRetries) \in Int
      BY <1>8, <2>2, EmbedderCallsAssumption
    <2>4. QED
      BY <1>5, <1>7, <1>8, <2>1, <2>3
  <1>10. QED
    BY <1>1, <1>3, <1>4, <1>5, <1>6, <1>9 DEF EmbedderInv

LEMMA AnsweringKeepsEmbedder ==
  ASSUME EmbedderInv, Answered
  PROVE  EmbedderInv'
  <1>1. EmbedderType /\ call.pc = "requesting" /\ embedder' = embedder /\ embedder.status = "ready"
    BY DEF EmbedderInv, Answered, NoCall
  <1> DEFINE k == BatchLength
             done == Done(call)
             texts == call.texts
  <1>2. /\ done \in Nat /\ done < texts /\ texts \in Nat /\ call.vectors = Numbers(done)
        /\ embedder.batchSize \in Nat \ {0}
    BY <1>1 DEF EmbedderInv, EmbedderType, CallType, Done
  <1>3. k \in Nat \ {0} /\ k <= texts - done /\ (done = 0 /\ texts <= embedder.batchSize => k = texts)
    <2>1. texts - done \in Int /\ embedder.batchSize \in Int
      BY <1>2
    <2>2. /\ Min({embedder.batchSize, texts - done}) \in {embedder.batchSize, texts - done}
          /\ Min({embedder.batchSize, texts - done}) <= texts - done
      BY <2>1, LesserOf
    <2>3. QED
      BY <1>2, <2>2 DEF BatchLength
  <1>4. PICK data \in Data(k) :
           IF ~FitsBatch(data, k) THEN FailCall
           ELSE call' = [call EXCEPT
                   !.vectors = @ \o ParseVectors(data),
                   !.pc = IF Done(call) + Len(data) = call.texts THEN "done" ELSE "requesting",
                   !.attempt = 0, !.rateLimitAttempt = 0]
    BY DEF Answered
  <1> HIDE DEF k, done, texts
  <1>5. CASE ~FitsBatch(data, k)
    BY <1>1, <1>4, <1>5, FailingKeepsEmbedder
  <1>6. CASE FitsBatch(data, k)
    <2>1. ParseVectors(data) = [i \in 1 .. k |-> done + i] /\ Len(data) = k
      BY <1>2, <1>3, <1>6, VectorsInOrder DEF done
    <2>2. call.vectors \o ParseVectors(data) = Numbers(done + k)
      BY ZenonT(40), <1>2, <1>3, <2>1, NumbersGoOn
    <2> DEFINE pc == IF done + k = texts THEN "done" ELSE "requesting"
    <2>3. call' = [call EXCEPT !.vectors = Numbers(done + k), !.pc = pc,
                               !.attempt = 0, !.rateLimitAttempt = 0]
      BY <1>4, <1>6, <2>1, <2>2 DEF done, texts
    <2>4. /\ Numbers(done + k) \in Seq(Nat) /\ Len(Numbers(done + k)) = done + k
          /\ pc \in {"done", "requesting"}
          /\ 0 \in 0 .. MaxRetries /\ 0 \in 0 .. RateLimitRetries
      <3>1. done + k \in Nat /\ MaxRetries \in Nat /\ RateLimitRetries \in Nat
        BY <1>2, <1>3, EmbedderCallsAssumption
      <3>2. Numbers(done + k) \in Seq(Nat) /\ Len(Numbers(done + k)) = done + k
        BY <3>1, NumbersAreSequences
      <3>3. QED
        BY <3>1, <3>2
    <2> HIDE DEF pc
    <2>5. call' \in CallType
      BY <1>1, <2>3, <2>4 DEF EmbedderType, CallType
    <2>6. call'.pc = pc /\ call'.texts = texts /\ call'.vectors = Numbers(done + k)
      BY <1>1, <2>3 DEF EmbedderType, CallType, texts
    <2>7. call'.attempt = 0 /\ call'.rateLimitAttempt = 0 /\ call'.waited = call.waited
      BY <1>1, <2>3 DEF EmbedderType, CallType
    <2>8. Done(call)' = done + k
      BY <2>4, <2>6 DEF Done
    <2>9. texts <= embedder.batchSize =>
             pc = "done" /\ call.waited <= Waits(MaxRetries, RateLimitRetries)
      <3>1. texts <= embedder.batchSize => done = 0 /\ call.waited <= Waits(MaxRetries, RateLimitRetries)
        BY <1>1 DEF EmbedderInv, done, texts
      <3>2. QED
        BY <1>2, <1>3, <3>1 DEF pc
    <2>10. /\ pc = "done" => done + k = texts
           /\ pc = "requesting" => done + k < texts
      BY <1>2, <1>3 DEF pc
    <2>11. EmbedderType'
      BY <1>1, <2>5 DEF EmbedderType
    <2>12. QED
      BY <1>1, <2>6, <2>7, <2>8, <2>9, <2>10, <2>11 DEF EmbedderInv
  <1>7. QED
    BY <1>5, <1>6

LEMMA OutagesKeepEmbedder ==
  ASSUME EmbedderInv, RateLimited \/ Unavailable \/ Refused
  PROVE  EmbedderInv'
  <1>1. EmbedderType /\ call.pc = "requesting" /\ embedder' = embedder
    BY DEF EmbedderInv, RateLimited, Unavailable, Refused
  <1>2. CASE FailCall
    BY <1>1, <1>2, FailingKeepsEmbedder
  <1>3. /\ call \in CallType /\ call.attempt \in 0 .. MaxRetries
        /\ call.rateLimitAttempt \in 0 .. RateLimitRetries
    BY <1>1 DEF EmbedderType, CallType
  <1>4. {MaxRetries, RateLimitRetries, BackoffBase, RateLimitBackoffBase, RetryAfterCap} \subseteq Nat
    BY EmbedderCallsAssumption
  <1> DEFINE a == call.attempt
             n == call.rateLimitAttempt
  <1>5. /\ Doubled(a) \in Nat /\ Doubled(n) \in Nat
        /\ a < MaxRetries => Waits(a + 1, n) = Waits(a, n) + BackoffBase * Doubled(a)
        /\ n < RateLimitRetries =>
              Waits(a, n + 1) = Waits(a, n) + RateLimitBackoffBase * Doubled(n) + RetryAfterCap
    BY <1>3, WaitsGrow
  <1>6. Waits(a, n) \in Int
    <2>1. Doubled(0) \in Nat
      BY <1>4, WaitsGrow
    <2>2. QED
      BY <1>3, <1>4, <1>5, <2>1 DEF Waits
  <1>7. ASSUME NEW after \in RetryAfters, n < RateLimitRetries,
               call' = [call EXCEPT !.rateLimitAttempt = @ + 1, !.waited = @ + RateLimitWait(after)]
        PROVE  EmbedderInv'
    <2> DEFINE wait == RateLimitWait(after)
    <2>1. RateLimitBackoffBase * Doubled(n) \in Nat
      BY <1>4, <1>5
    <2>2. wait \in Nat /\ wait <= RateLimitBackoffBase * Doubled(n) + RetryAfterCap
      <3>1. CASE after >= 0
        <4>1. after \in Nat /\ after \in Int /\ RetryAfterCap \in Int
          BY <1>4, <3>1, EmbedderCallsAssumption
        <4>2. Min({after, RetryAfterCap}) \in {after, RetryAfterCap}
                 /\ Min({after, RetryAfterCap}) <= RetryAfterCap
          BY <4>1, LesserOf
        <4>3. wait = Min({after, RetryAfterCap})
          BY <3>1 DEF RateLimitWait
        <4>4. QED
          BY <1>4, <2>1, <4>1, <4>2, <4>3
      <3>2. CASE ~(after >= 0)
        <4>1. wait = RateLimitBackoffBase * Doubled(n)
          BY <3>2 DEF RateLimitWait
        <4>2. QED
          BY <1>4, <2>1, <4>1
      <3>3. QED
        BY <3>1, <3>2
    <2> HIDE DEF wait
    <2>3. call' = [call EXCEPT !.attempt = a, !.rateLimitAttempt = n + 1, !.waited = @ + wait]
      <3>1. call = [call EXCEPT !.attempt = a]
        BY <1>3 DEF CallType
      <3>2. QED
        BY <1>3, <1>7 DEF CallType, wait
    <2>4. n + 1 \in 0 .. RateLimitRetries
      BY <1>3, <1>4, <1>7
    <2>5. Waits(a, n) + wait <= Waits(a, n + 1)
      BY <1>4, <1>5, <1>6, <1>7, <2>1, <2>2
    <2> HIDE DEF a, n
    <2>6. QED
      BY <1>1, <1>3, <2>2, <2>3, <2>4, <2>5, WaitingKeepsEmbedder DEF a, n
  <1>8. ASSUME a < MaxRetries,
               call' = [call EXCEPT !.attempt = @ + 1, !.waited = @ + BackoffBase * Doubled(a)]
        PROVE  EmbedderInv'
    <2> DEFINE wait == BackoffBase * Doubled(a)
    <2>1. wait \in Nat
      BY <1>4, <1>5
    <2> HIDE DEF wait
    <2>2. call' = [call EXCEPT !.attempt = a + 1, !.rateLimitAttempt = n, !.waited = @ + wait]
      BY <1>3, <1>8 DEF CallType, wait
    <2>3. a + 1 \in 0 .. MaxRetries
      BY <1>3, <1>4, <1>8
    <2>4. Waits(a, n) + wait <= Waits(a + 1, n)
      BY <1>5, <1>6, <1>8, <2>1 DEF wait
    <2>5. QED
      BY <1>1, <1>3, <2>1, <2>2, <2>3, <2>4, WaitingKeepsEmbedder
  <1>9. CASE RateLimited
    <2>1. ~(n >= RateLimitRetries) => n < RateLimitRetries
      BY <1>3, <1>4
    <2>2. QED
      BY <1>2, <1>7, <1>9, <2>1 DEF RateLimited
  <1>10. CASE Unavailable
    <2>1. ~(a >= MaxRetries) => a < MaxRetries
      BY <1>3, <1>4
    <2>2. QED
      BY <1>2, <1>8, <1>10, <2>1 DEF Unavailable
  <1>11. CASE Refused
    BY <1>2, <1>11 DEF Refused
  <1>12. QED
    BY <1>9, <1>10, <1>11

LEMMA EmbedderInvariant == EmbedderSpec => []EmbedderInv
  <1>1. EmbedderInit => EmbedderInv
    <2> SUFFICES ASSUME EmbedderInit PROVE EmbedderInv
      OBVIOUS
    <2>1. << >> \in Seq(Nat) /\ 0 \in 0 .. MaxRetries /\ 0 \in 0 .. RateLimitRetries
      BY EmbedderCallsAssumption
    <2>2. NoCall \in CallType
      BY <2>1 DEF NoCall, CallType
    <2>3. EmbedderType
      BY <2>2 DEF EmbedderInit, EmbedderType, NoEmbedder
    <2>4. 0 <= Waits(MaxRetries, RateLimitRetries)
      <3>1. MaxRetries \in 0 .. MaxRetries /\ RateLimitRetries \in 0 .. RateLimitRetries
        BY EmbedderCallsAssumption
      <3>2. QED
        BY <3>1, WaitsGrow
    <2>5. call = NoCall /\ call.pc = "none" /\ call.waited = 0
      BY DEF EmbedderInit, NoCall
    <2>6. QED
      BY <2>3, <2>4, <2>5 DEF EmbedderInv
  <1>2. EmbedderInv /\ [EmbedderNext]_embedderVars => EmbedderInv'
    <2>1. ASSUME EmbedderInv, UNCHANGED embedderVars PROVE EmbedderInv'
      BY <2>1 DEF embedderVars, EmbedderInv, EmbedderType, Done
    <2>2. QED
      BY <2>1, CreatingKeepsEmbedder, EmbeddingKeepsEmbedder, AnsweringKeepsEmbedder,
         OutagesKeepEmbedder DEF EmbedderNext
  <1>3. QED
    BY <1>1, <1>2, PTL DEF EmbedderSpec

\* types.ts, Embedder: the vectors of a call are those of its texts, in their
\* order, whatever the order in which the provider sent them and however the
\* texts were cut into batches.
THEOREM VectorsAnswerTheirTexts == EmbedderSpec => []VectorsAnswerTexts
  <1>1. EmbedderInv => VectorsAnswerTexts
    BY DEF EmbedderInv, VectorsAnswerTexts, Numbers
  <1>2. QED
    BY <1>1, EmbedderInvariant, PTL

\* What the retries of one batch may wait together fits the lease of the job.
LeaseFits == Waits(MaxRetries, RateLimitRetries) < JobLease

\* worker config.ts, EMBED_JOB_LEASE_MS: with such settings, the defaults of the
\* code among them, no mixture of outages and rate limits keeps the texts of one
\* batch waiting for longer than the lease: neither gives the other its retries
\* back.
THEOREM WaitsFitTheLease ==
  ASSUME LeaseFits
  PROVE  EmbedderSpec => []WaitsFitLease
  <1>1. EmbedderInv => WaitsFitLease
    <2> SUFFICES ASSUME EmbedderInv, Batches(call) <= 1 PROVE call.waited < JobLease
      BY DEF WaitsFitLease
    <2> DEFINE b == embedder.batchSize
               t == call.texts
    <2>1. b \in Nat \ {0} /\ t \in Nat /\ call.waited \in Nat
      BY DEF EmbedderInv, EmbedderType, CallType
    <2>2. (t + b - 1) \div b <= 1
      BY DEF Batches
    <2> HIDE DEF b, t
    <2>3. t <= b
      BY <2>1, <2>2
    <2>4. call.waited <= Waits(MaxRetries, RateLimitRetries)
      BY <2>3 DEF EmbedderInv, b, t
    <2>5. Waits(MaxRetries, RateLimitRetries) \in Int /\ JobLease \in Int
      <3>1. {MaxRetries, RateLimitRetries, BackoffBase, RateLimitBackoffBase, RetryAfterCap,
             JobLease} \subseteq Nat
        BY EmbedderCallsAssumption
      <3>2. Doubled(0) \in Nat /\ Doubled(MaxRetries) \in Nat /\ Doubled(RateLimitRetries) \in Nat
        BY <3>1, WaitsGrow
      <3>3. QED
        BY <3>1, <3>2 DEF Waits
    <2>6. QED
      BY <2>1, <2>4, <2>5 DEF LeaseFits
  <1>2. QED
    BY <1>1, EmbedderInvariant, PTL

-----------------------------------------------------------------------------
(* Generations and deployments.                                            *)

\* Which embedder the vectors of v are of.
Maker(v) == IF ledger[v] = Unclaimed THEN Unrecorded ELSE ledger[v]

\* Why SpacesNeverMix holds: the ledger speaks for all vectors of a version,
\* no process is up against it, and one about to claim a version has seen that
\* it is empty, which it stays while there is no entry.
Vouched ==
    /\ \A v \in Versions : stored[v] \subseteq {Maker(v)}
    /\ \A p \in Processes : proc[p].pc = "running" => Recorded(p) = proc[p].identity
    /\ \A p \in Processes : proc[p].pc = "inserting" /\ Recorded(p) = Unclaimed =>
           stored[proc[p].version] = {}

GenerationsInv == GenerationsTypeOK /\ Vouched

ProcState == [pc : Booting \cup {"down", "exited", "running"},
              version : Versions, identity : Identities]

LEMMA StartedType ==
  ASSUME NEW p \in Processes, NEW c, c.version \in Versions, c.identity \in Identities
  PROVE  /\ Started(p, c) \in ProcState
         /\ Started(p, c).pc \in {"probing", "reading"}
  BY DEF Started, ProcState, Booting

\* A process that goes on keeps its settings.
LEMMA GoesType ==
  ASSUME GenerationsTypeOK, NEW p \in Processes,
         NEW pc \in Booting \cup {"down", "exited", "running"}, Goes(p, pc)
  PROVE  /\ proc' \in [Processes -> ProcState]
         /\ \A q \in Processes : /\ proc'[q].version = proc[q].version
                                 /\ proc'[q].identity = proc[q].identity
                                 /\ proc'[q].pc = IF q = p THEN pc ELSE proc[q].pc
  BY DEF GenerationsTypeOK, Goes, ProcState

LEMMA GenerationsInitial == GenerationsInit => GenerationsInv
  <1> SUFFICES ASSUME GenerationsInit PROVE GenerationsInv
    OBVIOUS
  <1>1. GenerationsTypeOK
    BY DEF GenerationsInit, GenerationsTypeOK, Settings
  <1>2. Vouched
    BY DEF GenerationsInit, Vouched, Maker, Settings
  <1> QED BY <1>1, <1>2 DEF GenerationsInv

\* A step that touches neither ledger nor vectors, lets nobody up and sends
\* nobody to claim, changes nothing that Vouched looks at.
LEMMA QuietStep ==
  ASSUME GenerationsInv, UNCHANGED <<ledger, stored, keyValid>>,
         proc' \in [Processes -> ProcState],
         \A p \in Processes : proc'[p].pc \in {"running", "inserting"} => proc'[p] = proc[p]
  PROVE  GenerationsInv'
  BY DEF GenerationsInv, GenerationsTypeOK, ProcState, Vouched, Maker, Recorded

\* Entering without a write, when the ledger names the process.
LEMMA EnterStep ==
  ASSUME GenerationsInv, NEW p \in Processes, Recorded(p) = proc[p].identity,
         Goes(p, "running"), UNCHANGED <<ledger, stored, keyValid>>
  PROVE  GenerationsInv'
  <1>1. /\ proc' \in [Processes -> ProcState]
        /\ \A q \in Processes : /\ proc'[q].version = proc[q].version
                                /\ proc'[q].identity = proc[q].identity
                                /\ proc'[q].pc = IF q = p THEN "running" ELSE proc[q].pc
    BY GoesType DEF GenerationsInv
  <1> QED BY <1>1 DEF GenerationsInv, GenerationsTypeOK, ProcState, Vouched, Maker, Recorded

\* Going anywhere but up or to the insertion.
LEMMA GoStep ==
  ASSUME GenerationsInv, NEW p \in Processes,
         NEW pc \in (Booting \ {"inserting"}) \cup {"down", "exited"},
         Goes(p, pc), UNCHANGED <<ledger, stored, keyValid>>
  PROVE  GenerationsInv'
  <1>1. proc' \in [Processes -> ProcState]
    BY GoesType DEF GenerationsInv
  <1>2. \A q \in Processes : proc'[q].pc \in {"running", "inserting"} => proc'[q] = proc[q]
    BY DEF GenerationsInv, GenerationsTypeOK, Goes, Booting
  <1> QED BY <1>1, <1>2, QuietStep

\* Booting, crashing, being restarted and embedding keep the invariant.
LEMMA ProcessStepKeeps ==
  ASSUME GenerationsInv, NEW p \in Processes, ProcessStep(p)
  PROVE  GenerationsInv'
  <1>1. CASE Probe(p)
    BY <1>1, GoStep DEF Probe, Booting
  <1>2. CASE ReadLedger(p)
    BY <1>2, GoStep, EnterStep DEF ReadLedger, Booting
  <1>3. CASE CheckChunks(p)
    <2>1. CASE Foreign(p)
      BY <1>3, <2>1, GoStep DEF CheckChunks
    <2>2. CASE ~Foreign(p)
      <3>1. /\ stored[proc[p].version] = {} /\ Goes(p, "inserting")
            /\ UNCHANGED <<ledger, stored, keyValid>>
        BY <1>3, <2>2 DEF CheckChunks, Foreign
      <3>2. /\ proc' \in [Processes -> ProcState]
            /\ \A q \in Processes : /\ proc'[q].version = proc[q].version
                                    /\ proc'[q].identity = proc[q].identity
                                    /\ proc'[q].pc = IF q = p THEN "inserting" ELSE proc[q].pc
        BY <3>1, GoesType DEF GenerationsInv, Booting
      <3> QED BY <3>1, <3>2 DEF GenerationsInv, GenerationsTypeOK, ProcState, Vouched,
                                Maker, Recorded
    <2> QED BY <2>1, <2>2
  <1>4. CASE InsertClaim(p)
    <2>1. CASE Recorded(p) = Unclaimed
      <3> DEFINE v == proc[p].version
                 i == proc[p].identity
      <3>1. /\ proc[p].pc = "inserting" /\ Goes(p, "running")
            /\ ledger' = [ledger EXCEPT ![v] = i]
            /\ UNCHANGED <<stored, keyValid>>
        BY <1>4, <2>1 DEF InsertClaim
      <3>2. /\ proc' \in [Processes -> ProcState]
            /\ \A q \in Processes : /\ proc'[q].version = proc[q].version
                                    /\ proc'[q].identity = proc[q].identity
                                    /\ proc'[q].pc = IF q = p THEN "running" ELSE proc[q].pc
        BY <3>1, GoesType DEF GenerationsInv
      <3>3. v \in Versions /\ i \in Identities /\ i # Unclaimed /\ ledger[v] = Unclaimed
        BY <2>1, GenerationsAssumption DEF GenerationsInv, GenerationsTypeOK, Recorded
      <3>4. /\ ledger' \in [Versions -> Identities \cup {Unclaimed}]
            /\ ledger'[v] = i
            /\ \A u \in Versions \ {v} : ledger'[u] = ledger[u]
        BY <3>1, <3>3 DEF GenerationsInv, GenerationsTypeOK
      <3>5. GenerationsTypeOK'
        BY <3>1, <3>2, <3>4 DEF GenerationsInv, GenerationsTypeOK, ProcState
      <3>6. stored[v] = {}
        BY <3>1, <2>1 DEF GenerationsInv, Vouched
      <3>7. \A u \in Versions : stored'[u] \subseteq {Maker(u)'}
        BY <3>1, <3>4, <3>6 DEF GenerationsInv, Vouched, Maker
      <3>8. \A q \in Processes : proc'[q].pc = "running" => Recorded(q)' = proc'[q].identity
        <4> SUFFICES ASSUME NEW q \in Processes, proc'[q].pc = "running"
                     PROVE  ledger'[proc'[q].version] = proc'[q].identity
          BY DEF Recorded
        <4>1. CASE q = p
          BY <4>1, <3>2, <3>4
        <4>2. CASE q # p
          <5>1. ledger[proc[q].version] = proc[q].identity /\ proc[q].identity \in Identities
            BY <4>2, <3>2 DEF GenerationsInv, GenerationsTypeOK, Vouched, Recorded
          <5>2. proc[q].version # v
            BY <5>1, <3>3, GenerationsAssumption
          <5> QED BY <5>1, <5>2, <3>2, <3>4 DEF GenerationsInv, GenerationsTypeOK
        <4> QED BY <4>1, <4>2
      <3>9. \A q \in Processes : proc'[q].pc = "inserting" /\ Recorded(q)' = Unclaimed =>
                stored'[proc'[q].version] = {}
        BY <3>1, <3>2, <3>3, <3>4 DEF GenerationsInv, GenerationsTypeOK, Vouched, Recorded
      <3> QED BY <3>5, <3>7, <3>8, <3>9 DEF GenerationsInv, Vouched
    <2>2. CASE Recorded(p) # Unclaimed
      BY <1>4, <2>2, GoStep DEF InsertClaim, Booting
    <2> QED BY <2>1, <2>2
  <1>5. CASE ReadWinner(p)
    BY <1>5, GoStep, EnterStep DEF ReadWinner
  <1>6. CASE Crash(p)
    BY <1>6, GoStep DEF Crash
  <1>7. CASE Restart(p)
    <2>1. /\ proc[p].version \in Versions /\ proc[p].identity \in Identities
          /\ proc' = [proc EXCEPT ![p] = Started(p, proc[p])]
      BY <1>7 DEF Restart, GenerationsInv, GenerationsTypeOK
    <2>2. /\ Started(p, proc[p]) \in ProcState
          /\ Started(p, proc[p]).pc \in {"probing", "reading"}
      BY <2>1, StartedType
    <2>3. /\ proc' \in [Processes -> ProcState]
          /\ \A q \in Processes : proc'[q].pc \in {"running", "inserting"} => proc'[q] = proc[q]
      BY <2>1, <2>2 DEF GenerationsInv, GenerationsTypeOK, ProcState
    <2> QED BY <1>7, <2>3, QuietStep DEF Restart
  <1>8. CASE StoreVectors(p)
    <2> DEFINE v == proc[p].version
               i == proc[p].identity
    <2>1. /\ v \in Versions /\ i \in Identities /\ ledger[v] = i /\ i # Unclaimed
          /\ stored' = [stored EXCEPT ![v] = @ \cup {i}]
          /\ UNCHANGED <<ledger, proc, keyValid>>
      BY <1>8, GenerationsAssumption
         DEF StoreVectors, GenerationsInv, GenerationsTypeOK, Vouched, Recorded
    <2>2. Maker(v) = i
      BY <2>1 DEF Maker
    <2> QED BY <2>1, <2>2 DEF GenerationsInv, GenerationsTypeOK, Vouched, Maker, Recorded
  <1> QED BY <1>1, <1>2, <1>3, <1>4, <1>5, <1>6, <1>7, <1>8 DEF ProcessStep, Claim

\* Replacing containers does too: new ones begin their boot.
LEMMA ReplaceKeeps ==
  ASSUME GenerationsInv, NEW replaced, NEW gone, NEW c \in Settings,
         Replace(replaced, gone, c)
  PROVE  GenerationsInv'
  <1>1. \A p \in Processes : /\ Started(p, c) \in ProcState
                             /\ Started(p, c).pc \in {"probing", "reading"}
    BY StartedType DEF Settings
  <1>2. /\ proc' \in [Processes -> ProcState]
        /\ \A p \in Processes : proc'[p].pc \in {"running", "inserting"} => proc'[p] = proc[p]
    BY <1>1 DEF Replace, GenerationsInv, GenerationsTypeOK, ProcState
  <1> QED BY <1>2, QuietStep DEF Replace

\* So does the removal of vectors.
LEMMA DropKeeps ==
  ASSUME GenerationsInv, NEW v \in Versions, DropVectors(v)
  PROVE  GenerationsInv'
  <1>1. PICK kept \in SUBSET stored[v] : stored' = [stored EXCEPT ![v] = kept]
    BY DEF DropVectors
  <1>2. /\ stored' \in [Versions -> SUBSET (Identities \cup {Unrecorded})]
        /\ \A u \in Versions : stored'[u] \subseteq stored[u]
    BY <1>1 DEF GenerationsInv, GenerationsTypeOK
  <1>3. UNCHANGED <<ledger, proc, keyValid>>
    BY DEF DropVectors
  <1>4. GenerationsTypeOK'
    BY <1>2, <1>3 DEF GenerationsInv, GenerationsTypeOK
  <1>5. Vouched'
    BY <1>2, <1>3 DEF GenerationsInv, GenerationsTypeOK, Vouched, Maker, Recorded
  <1> QED BY <1>4, <1>5 DEF GenerationsInv

\* The invariant is inductive.
LEMMA GenerationsInductive == GenerationsInv /\ [GenerationsNext]_generationVars => GenerationsInv'
  <1> SUFFICES ASSUME GenerationsInv, [GenerationsNext]_generationVars PROVE GenerationsInv'
    OBVIOUS
  <1>1. ASSUME NEW p \in Processes, ProcessStep(p) PROVE GenerationsInv'
    BY <1>1, ProcessStepKeeps
  <1>2. ASSUME NEW replaced \in SUBSET Processes, NEW gone \in SUBSET Processes,
               NEW c \in Settings, Replace(replaced, gone, c)
        PROVE  GenerationsInv'
    BY <1>2, ReplaceKeeps
  <1>3. ASSUME NEW v \in Versions, DropVectors(v) PROVE GenerationsInv'
    BY <1>3, DropKeeps
  <1>4. CASE UNCHANGED generationVars
    BY <1>4 DEF generationVars, GenerationsInv, GenerationsTypeOK, Vouched, Maker, Recorded
  <1> QED BY <1>1, <1>2, <1>3, <1>4 DEF GenerationsNext

LEMMA SpacesFollow == GenerationsInv => SpacesNeverMix
  <1> SUFFICES ASSUME GenerationsInv PROVE SpacesNeverMix
    OBVIOUS
  <1>1. \A v \in Versions : \A a, b \in stored[v] : a = b
    <2> SUFFICES ASSUME NEW v \in Versions, NEW a \in stored[v], NEW b \in stored[v]
                 PROVE  a = b
      OBVIOUS
    <2>1. stored[v] \subseteq {Maker(v)}
      BY DEF GenerationsInv, Vouched
    <2> QED BY <2>1
  <1>2. ASSUME NEW p \in Processes, proc[p].pc = "running"
        PROVE  stored[proc[p].version] \subseteq {proc[p].identity}
    <2>1. /\ proc[p].version \in Versions /\ proc[p].identity \in Identities
          /\ ledger[proc[p].version] = proc[p].identity
      BY <1>2 DEF GenerationsInv, GenerationsTypeOK, Vouched, Recorded
    <2>2. Maker(proc[p].version) = proc[p].identity
      BY <2>1, GenerationsAssumption DEF Maker
    <2> QED BY <2>1, <2>2 DEF GenerationsInv, Vouched
  <1> QED BY <1>1, <1>2 DEF SpacesNeverMix

\* embedding-generations.ts: whatever processes boot with whatever settings, in
\* any interleaving of their database calls and with any crashes, the vectors
\* of a version are of one embedder, and a process that is up is of the same.
THEOREM SpacesKeptApart == GenerationsSpec => []SpacesNeverMix
  <1>1. GenerationsSpec => []GenerationsInv
    BY GenerationsInitial, GenerationsInductive, PTL DEF GenerationsSpec
  <1> QED BY <1>1, SpacesFollow, PTL

-----------------------------------------------------------------------------
(* The host.                                                               *)

ScriptState == [pc : {"none"} \cup Live \cup Ended,
                tag : Tags \cup {NoTag}, identity : Identities,
                target : Tags \cup {NoTag}, alone : BOOLEAN]

HostTypeOK ==
    /\ bundle \in Versions
    /\ image \in [Processes -> Tags \cup {NoTag}]
    /\ lastGood \in Tags \cup {NoTag}
    /\ script \in [Scripts -> ScriptState]
    /\ healthy \subseteq Tags

\* A script at work deploys a tag, and past the wait that tag has come up.
CameUp ==
    /\ \A s \in Scripts : IsLive(s) => {script[s].tag, script[s].target} \subseteq Tags
    /\ \A s \in Scripts : script[s].pc \in {"smoke", "record"} => script[s].tag \in healthy
    /\ LastGoodCameUp

\* Nobody else is at work beside a script that is alone, and what it has brought
\* up stays in service.
Undisturbed ==
    \A s \in Scripts : script[s].alone =>
        /\ script[s].pc # "none" => \A o \in Scripts \ {s} : ~IsLive(o)
        /\ script[s].pc \in {"smoke", "record", "succeeded"} => image[Api] = script[s].tag
        /\ script[s].pc = "succeeded" => lastGood = script[s].tag

HostInv == HostTypeOK /\ CameUp /\ Undisturbed

LEMMA HostInitial == DeploymentInit => HostInv
  <1> SUFFICES ASSUME DeploymentInit PROVE HostInv
    OBVIOUS
  <1>1. PICK c \in Settings : TRUE
    BY DEF DeploymentInit, GenerationsInit
  <1>2. NoScript.identity \in Identities
    BY <1>1 DEF Settings, NoScript
  <1>3. NoScript \in ScriptState /\ NoScript.pc = "none"
    BY <1>2 DEF NoScript, ScriptState
  <1> QED BY <1>3 DEF DeploymentInit, HostInv, HostTypeOK, CameUp, Undisturbed, IsLive, Live,
                      LastGoodCameUp

\* What every step of a script leaves alone: the other scripts, and its own tag;
\* and it has somewhere to go.
Drives(s) ==
    /\ script' \in [Scripts -> ScriptState]
    /\ \A o \in Scripts \ {s} : script'[o] = script[o]
    /\ script'[s].tag = script[s].tag
    /\ script'[s].alone = script[s].alone
    /\ script'[s].pc \in Live => script'[s].target \in Tags

LEMMA ProceedsDrives ==
  ASSUME HostInv, NEW s \in Scripts, IsLive(s), NEW pc \in Live \cup Ended, Proceeds(s, pc)
  PROVE  Drives(s) /\ script'[s].pc = pc
  BY DEF HostInv, CameUp, HostTypeOK, Proceeds, Drives, ScriptState

LEMMA FailDrives ==
  ASSUME HostInv, NEW s \in Scripts, Fail(s)
  PROVE  Drives(s) /\ script'[s].pc \in {"render", "failed"}
  BY DEF HostInv, HostTypeOK, Fail, Drives, ScriptState, Live, Ended

\* A step that gets a script nowhere near success keeps the invariant, whatever
\* it does to the containers: a script that is alone is not there to be hurt.
LEMMA UnfinishedStep ==
  ASSUME HostInv, NEW s \in Scripts, IsLive(s), Drives(s),
         script'[s].pc \notin {"smoke", "record", "succeeded"},
         image' \in [Processes -> Tags \cup {NoTag}],
         UNCHANGED <<bundle, lastGood, healthy>>
  PROVE  HostInv'
  <1>1. HostTypeOK'
    BY DEF HostInv, HostTypeOK, Drives
  <1>2. CameUp'
    BY DEF HostInv, HostTypeOK, CameUp, Drives, IsLive, LastGoodCameUp
  <1>3. Undisturbed'
    <2> SUFFICES ASSUME NEW o \in Scripts, script'[o].alone, script'[o].pc # "none"
                 PROVE  /\ \A q \in Scripts \ {o} : script'[q].pc \notin Live
                        /\ script'[o].pc \notin {"smoke", "record", "succeeded"}
      BY DEF Undisturbed, IsLive
    <2>1. o = s
      BY DEF HostInv, Undisturbed, Drives
    <2> QED BY <2>1 DEF HostInv, Undisturbed, Drives, IsLive, Live
  <1> QED BY <1>1, <1>2, <1>3 DEF HostInv

\* The steps towards success.
LEMMA FinishingStep ==
  ASSUME HostInv, NEW s \in Scripts, IsLive(s), Drives(s),
         script'[s].pc \in {"smoke", "record", "succeeded"},
         script[s].alone => image[Api] = script[s].tag,
         script[s].tag \in healthy', healthy' \subseteq Tags, healthy \subseteq healthy',
         lastGood' = IF script'[s].pc = "succeeded" THEN script[s].tag ELSE lastGood,
         UNCHANGED <<bundle, image>>
  PROVE  HostInv'
  <1>1. HostTypeOK'
    BY DEF HostInv, HostTypeOK, Drives
  <1>2. CameUp'
    BY DEF HostInv, HostTypeOK, CameUp, Drives, IsLive, LastGoodCameUp
  <1>3. Undisturbed'
    <2> SUFFICES ASSUME NEW o \in Scripts, script'[o].alone, script'[o].pc # "none"
                 PROVE  /\ \A q \in Scripts \ {o} : script'[q].pc \notin Live
                        /\ script'[o].pc \in {"smoke", "record", "succeeded"} =>
                               image'[Api] = script'[o].tag
                        /\ script'[o].pc = "succeeded" => lastGood' = script'[o].tag
      BY DEF Undisturbed, IsLive
    <2>1. o = s
      BY DEF HostInv, Undisturbed, Drives
    <2> QED BY <2>1 DEF HostInv, Undisturbed, Drives, IsLive, Live
  <1> QED BY <1>1, <1>2, <1>3 DEF HostInv

\* A script that comes to the host takes "alone" from the others.
LEMMA SendKeeps ==
  ASSUME HostInv, NEW s \in Scripts, NEW t \in Tags, NEW c \in Settings, SendCommand(s, t, c)
  PROVE  HostInv'
  <1>1. /\ script' \in [Scripts -> ScriptState]
        /\ script'[s].pc = "render" /\ script'[s].tag = t /\ script'[s].target = t
        /\ script'[s].alone => \A o \in Scripts : ~IsLive(o)
        /\ \A o \in Scripts \ {s} : /\ script'[o].pc = script[o].pc
                                    /\ script'[o].tag = script[o].tag
                                    /\ script'[o].target = script[o].target
                                    /\ ~script'[o].alone
    BY DEF SendCommand, HostInv, HostTypeOK, ScriptState, Settings, Live
  <1>2. /\ c.version \in Versions /\ bundle' = c.version
        /\ UNCHANGED <<image, lastGood, healthy>>
    BY DEF SendCommand, Settings
  <1>3. HostTypeOK'
    BY <1>1, <1>2 DEF HostInv, HostTypeOK
  <1>4. CameUp'
    BY <1>1, <1>2 DEF HostInv, CameUp, IsLive, LastGoodCameUp
  <1>5. Undisturbed'
    BY <1>1, <1>2 DEF Undisturbed, IsLive
  <1> QED BY <1>3, <1>4, <1>5 DEF HostInv

LEMMA RecreateType ==
  ASSUME HostInv, NEW s \in Scripts, NEW replaced, NEW gone, Recreate(s, replaced, gone)
  PROVE  image' \in [Processes -> Tags \cup {NoTag}]
  BY DEF HostInv, HostTypeOK, ScriptState, Recreate, ComposeTag

\* Every step of a script keeps the invariant.
LEMMA ScriptStepKeeps ==
  ASSUME HostInv, NEW s \in Scripts, ScriptStep(s) \/ Killed(s)
  PROVE  HostInv'
  <1> USE DEF Live, Ended
  <1>1. HostTypeOK /\ IsLive(s)
    BY DEF HostInv, ScriptStep, RenderEnv, Pull, Up, UpFails, WaitHealthy, Smoke, Record,
           Killed, IsLive
  <1>2. image' \in [Processes -> Tags \cup {NoTag}]
    BY RecreateType DEF ScriptStep, RenderEnv, Pull, Up, UpFails, WaitHealthy, Smoke, Record,
                        Killed, HostInv, HostTypeOK
  <1>3. CASE RenderEnv(s)
    BY <1>1, <1>2, <1>3, ProceedsDrives, UnfinishedStep DEF RenderEnv
  <1>4. CASE Pull(s)
    BY <1>1, <1>2, <1>4, ProceedsDrives, FailDrives, UnfinishedStep DEF Pull
  <1>5. CASE Up(s)
    BY <1>1, <1>2, <1>5, ProceedsDrives, UnfinishedStep DEF Up
  <1>6. CASE UpFails(s)
    BY <1>1, <1>2, <1>6, FailDrives, UnfinishedStep DEF UpFails
  <1>7. CASE WaitHealthy(s)
    <2>1. CASE Fail(s) /\ UNCHANGED healthy
      BY <1>1, <1>2, <1>7, <2>1, FailDrives, UnfinishedStep DEF WaitHealthy
    <2>2. CASE /\ image[Api] = ComposeTag(s)
               /\ healthy' = healthy \cup {image[Api]}
               /\ Proceeds(s, "smoke")
      <3>1. Drives(s) /\ script'[s].pc = "smoke"
        BY <1>1, <2>2, ProceedsDrives
      <3>2. image[Api] = script[s].tag /\ script[s].tag \in Tags
        BY <1>1, <2>2 DEF ComposeTag, HostInv, CameUp
      <3>3. healthy' \subseteq Tags
        BY <1>1, <2>2, <3>2 DEF HostTypeOK
      <3> QED BY <1>1, <1>7, <2>2, <3>1, <3>2, <3>3, FinishingStep DEF WaitHealthy
    <2> QED BY <1>7, <2>1, <2>2 DEF WaitHealthy
  <1>8. CASE Smoke(s)
    <2>1. CASE Fail(s)
      BY <1>1, <1>2, <1>8, <2>1, FailDrives, UnfinishedStep DEF Smoke
    <2>2. ASSUME NEW pc \in {"record", "rolledback"}, Proceeds(s, pc) PROVE HostInv'
      <3>1. Drives(s) /\ script'[s].pc = pc
        BY <1>1, <2>2, ProceedsDrives
      <3>2. CASE pc = "rolledback"
        BY <1>1, <1>2, <1>8, <3>1, <3>2, UnfinishedStep DEF Smoke
      <3>3. CASE pc = "record"
        BY <1>1, <1>8, <3>1, <3>3, FinishingStep DEF Smoke, HostInv, HostTypeOK, CameUp, Undisturbed
      <3> QED BY <3>2, <3>3
    <2> QED BY <1>8, <2>1, <2>2 DEF Smoke
  <1>9. CASE Record(s)
    <2>1. Drives(s) /\ script'[s].pc = "succeeded"
      BY <1>1, <1>9, ProceedsDrives DEF Record
    <2> QED BY <1>1, <1>9, <2>1, FinishingStep DEF Record, HostInv, HostTypeOK, CameUp, Undisturbed
  <1>10. CASE Killed(s)
    BY <1>1, <1>2, <1>10, ProceedsDrives, UnfinishedStep DEF Killed
  <1> QED BY <1>3, <1>4, <1>5, <1>6, <1>7, <1>8, <1>9, <1>10 DEF ScriptStep

LEMMA HostInductive == HostInv /\ [DeploymentNext]_deployVars => HostInv'
  <1> SUFFICES ASSUME HostInv, [DeploymentNext]_deployVars PROVE HostInv'
    OBVIOUS
  <1>1. CASE UNCHANGED hostVars
    BY <1>1 DEF hostVars, HostInv, HostTypeOK, CameUp, Undisturbed, IsLive, LastGoodCameUp
  <1>2. ASSUME NEW s \in Scripts, NEW t \in Tags, NEW c \in Settings, SendCommand(s, t, c)
        PROVE  HostInv'
    BY <1>2, SendKeeps
  <1>3. ASSUME NEW s \in Scripts, ScriptStep(s) \/ Killed(s) PROVE HostInv'
    BY <1>3, ScriptStepKeeps
  <1> QED BY <1>1, <1>2, <1>3 DEF DeploymentNext, deployVars

LEMMA HostKept == DeploymentSpec => []HostInv
  BY HostInitial, HostInductive, PTL DEF DeploymentSpec

\* A step of the host is, to the containers, a step of EmbeddingGenerations.
LEMMA HostStepsContainers ==
  HostTypeOK /\ [DeploymentNext]_deployVars => [GenerationsNext]_generationVars
  <1> SUFFICES ASSUME HostTypeOK, [DeploymentNext]_deployVars
               PROVE  [GenerationsNext]_generationVars
    OBVIOUS
  <1>1. CASE UNCHANGED generationVars
    BY <1>1
  <1>2. ASSUME (\E p \in Processes : ProcessStep(p)) \/ \E v \in Versions : DropVectors(v)
        PROVE  GenerationsNext
    BY <1>2 DEF GenerationsNext
  <1>3. ASSUME NEW s \in Scripts, NEW replaced \in SUBSET Processes,
               NEW gone \in SUBSET Processes, Recreate(s, replaced, gone)
        PROVE  GenerationsNext
    <2>1. ComposeSettings(s) \in Settings
      BY DEF ComposeSettings, Settings, HostTypeOK, ScriptState
    <2> QED BY <1>3, <2>1 DEF Recreate, GenerationsNext
  <1>4. ASSUME NEW s \in Scripts, Up(s) \/ UpFails(s) PROVE GenerationsNext
    BY <1>3, <1>4 DEF Up, UpFails, Changed
  <1>5. ASSUME NEW s \in Scripts, ScriptStep(s), ~Up(s), ~UpFails(s)
        PROVE  UNCHANGED generationVars
    BY <1>5 DEF ScriptStep, RenderEnv, Pull, WaitHealthy, Smoke, Record
  <1>6. ASSUME NEW s \in Scripts, NEW t \in Tags, NEW c \in Settings,
               SendCommand(s, t, c) \/ Killed(s)
        PROVE  UNCHANGED generationVars
    BY <1>6 DEF SendCommand, Killed
  <1>7. ASSUME NEW s \in Scripts, Killed(s) PROVE UNCHANGED generationVars
    BY <1>7 DEF Killed
  <1>8. CASE UNCHANGED deployVars
    BY <1>8 DEF deployVars
  <1> QED BY <1>1, <1>2, <1>4, <1>5, <1>6, <1>7, <1>8 DEF DeploymentNext

\* Deployments replace, remove and restart containers only in the ways that
\* EmbeddingGenerations allows for: what holds of any such replacing holds here.
THEOREM DeploymentIsBooting == DeploymentSpec => GenerationsSpec
  <1>1. DeploymentInit => GenerationsInit
    BY DEF DeploymentInit
  <1>2. HostInv => HostTypeOK
    BY DEF HostInv
  <1> QED BY <1>1, <1>2, HostKept, HostStepsContainers, PTL DEF DeploymentSpec, GenerationsSpec

\* embedding-generations.ts on a host that deploy.sh deploys to: no sequence of
\* deployments, failed, killed or overlapping, gets two embedders' vectors into
\* one version.
COROLLARY DeploymentKeepsSpaces == DeploymentSpec => []SpacesNeverMix
  BY DeploymentIsBooting, SpacesKeptApart, PTL

\* deploy.sh:187-194: what a rollback would go back to has come up here before.
THEOREM RollbackTargetIsGood == DeploymentSpec => []LastGoodCameUp
  <1>1. HostInv => LastGoodCameUp
    BY DEF HostInv, CameUp
  <1> QED BY <1>1, HostKept, PTL

\* deploy.sh: a deployment that ends in success without another one on the host
\* has its tag in service and recorded, and nothing else takes either from it.
THEOREM SuccessIsKept == DeploymentSpec => []SuccessIsServed
  <1>1. HostInv => SuccessIsServed
    BY DEF HostInv, Undisturbed, SuccessIsServed
  <1> QED BY <1>1, HostKept, PTL

\* The states of the host are of their types, and no script deploys a tag that
\* is none, not even on a rollback.
THEOREM DeploymentTypeCorrect == DeploymentSpec => []DeploymentTypeOK
  <1>1. DeploymentSpec => []GenerationsInv
    BY DeploymentIsBooting, GenerationsInitial, GenerationsInductive, PTL DEF GenerationsSpec
  <1>2. HostInv /\ GenerationsInv => DeploymentTypeOK
    BY DEF HostInv, HostTypeOK, CameUp, ScriptState, GenerationsInv, DeploymentTypeOK
  <1> QED BY <1>1, <1>2, HostKept, PTL
=============================================================================
