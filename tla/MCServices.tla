----------------------------- MODULE MCServices -----------------------------
(* The processes and what they call, for TLC: the deployment of a host, its *)
(* db-init, the worker's loop, the clients of the embedder and of the       *)
(* language model, and the MCP server with what it renders.  Each is run in *)
(* a scene of its own while the others keep still.                          *)
EXTENDS MCDeployment, Bootstrap, WorkerLoop, EmbedderCalls, ModelClient, ToolCalls, Rendering, TLC

CONSTANT voyage

VARIABLE scene

Scenes == {"host", "init", "worker", "embedder", "model", "tools", "replies"}

servicesVars == <<scene, deployVars, bootstrapVars, workerVars, embedderVars, modelVars,
                  callVars, reply>>

\* A host that nothing was deployed to, the same in every other scene.
Undeployed == /\ \A v \in Versions : stored[v] = {} /\ bundle <= v
              /\ keyValid /\ \A p \in Processes : proc[p].identity = voyage

\* A server before any db-init.
NewServer == /\ database.collections = {} /\ ~database.search
         /\ \A i \in DOMAIN database.btree : database.btree[i] = "absent"

ServicesInit ==
    /\ scene \in Scenes
    /\ DeploymentInit /\ BootstrapInit /\ WorkerLoopInit /\ EmbedderInit /\ ModelClientInit
    /\ ToolCallsInit /\ RenderingInit
    /\ scene # "host" => Undeployed
    /\ scene # "init" => NewServer

OnHost == /\ scene = "host"
          /\ UNCHANGED <<scene, bootstrapVars, workerVars, embedderVars, modelVars,
                         callVars, reply>>
InInit == /\ scene = "init"
          /\ UNCHANGED <<scene, deployVars, workerVars, embedderVars, modelVars, callVars,
                         reply>>
InWorker == /\ scene = "worker"
            /\ UNCHANGED <<scene, deployVars, bootstrapVars, embedderVars, modelVars,
                           callVars, reply>>
InEmbedder == /\ scene = "embedder"
              /\ UNCHANGED <<scene, deployVars, bootstrapVars, workerVars, modelVars,
                             callVars, reply>>
InModel == /\ scene = "model"
           /\ UNCHANGED <<scene, deployVars, bootstrapVars, workerVars, embedderVars,
                          callVars, reply>>
InTools == /\ scene = "tools"
           /\ UNCHANGED <<scene, deployVars, bootstrapVars, workerVars, embedderVars,
                          modelVars, reply>>
InReplies == /\ scene = "replies"
             /\ UNCHANGED <<scene, deployVars, bootstrapVars, workerVars, embedderVars,
                            modelVars, callVars>>

\* One disjunct per step, whichever scene it is of.
ServicesNext ==
    \/ OnHost /\ \E s \in Scripts, t \in Tags, c \in Settings : SendCommand(s, t, c)
    \/ OnHost /\ \E s \in Scripts : ScriptStep(s)
    \/ OnHost /\ \E s \in Scripts : Killed(s)
    \/ OnHost /\ \E p \in Processes : Probe(p) /\ UNCHANGED hostVars
    \/ OnHost /\ \E p \in Processes : Claim(p) /\ UNCHANGED hostVars
    \/ OnHost /\ \E p \in Processes : Crash(p) /\ UNCHANGED hostVars
    \/ OnHost /\ \E p \in Processes : Restart(p) /\ UNCHANGED hostVars
    \/ OnHost /\ \E p \in Processes : StoreVectors(p) /\ UNCHANGED hostVars
    \/ OnHost /\ \E v \in Versions : DropVectors(v) /\ UNCHANGED hostVars
    \/ InInit /\ \E r \in Runs : StartInit(r)
    \/ InInit /\ \E r \in Runs : InitStep(r)
    \/ InInit /\ \E r \in Runs : CrashInit(r)
    \/ InInit /\ \E p \in Range(Plans) : BuildIndex(p)
    \/ InInit /\ \E p \in Range(Plans) : DropIndex(p)
    \/ InWorker /\ BootStage
    \/ InWorker /\ Signal
    \/ InWorker /\ Stop
    \/ InWorker /\ Exit
    \/ InWorker /\ StartAgain
    \/ InWorker /\ LoopStep
    \/ InEmbedder /\ CreateEmbedder
    \/ InEmbedder /\ Embed
    \/ InEmbedder /\ Answered
    \/ InEmbedder /\ RateLimited
    \/ InEmbedder /\ Unavailable
    \/ InEmbedder /\ Refused
    \/ InModel /\ CreateModel
    \/ InModel /\ Send
    \/ InModel /\ Reply
    \/ InModel /\ Garble
    \/ InModel /\ Refuse
    \/ InTools /\ StartMcp
    \/ InTools /\ \E c \in Calls : Unauthorized(c) \/ CallTool(c)
    \/ InTools /\ \E c \in Calls : SendRequest(c)
    \/ InTools /\ \E c \in Calls : Unreachable(c)
    \/ InTools /\ \E c \in Calls : Receive(c)
    \/ InTools /\ \E c \in Calls : Retry(c)
    \/ InTools /\ \E c \in Calls : \E i \in 1 .. Len(wire[c]) : Handle(c, i)
    \/ InTools /\ \E c \in Calls : \E i \in 1 .. Len(wire[c]) : Lose(c, i)
    \/ InReplies /\ SearchKnowledge
    \/ InReplies /\ SuggestResolution
    \/ InReplies /\ GetRecord

\* DeploymentFairness, where a host is deployed; and a run of db-init goes on
\* as a process does that nobody kills.
ServicesFairness ==
    /\ \A p \in Processes :
          /\ SF_deployVars(scene = "host" /\ Claim(p) /\ UNCHANGED hostVars)
          /\ WF_deployVars(scene = "host" /\ Restart(p) /\ UNCHANGED hostVars)
    /\ \A p \in Embedding : SF_deployVars(scene = "host" /\ Probe(p) /\ UNCHANGED hostVars)
    /\ \A r \in Runs : WF_bootstrapVars(scene = "init" /\ InitStep(r))

ServicesSpec == ServicesInit /\ [][ServicesNext]_servicesVars /\ ServicesFairness

-----------------------------------------------------------------------------
(* db-init: one edition of the definitions, another by hand, and settings  *)
(* without a dimension.                                                    *)

Release(dim, edition) ==
    [dim |-> dim, edition |-> edition, placed |-> TRUE, both |-> edition = 1]
MCReleases == {Release(1, 1), Release(1, 2), Release(0, 1)}

-----------------------------------------------------------------------------
(* The embedder: a complete environment, and those that lack one thing.    *)

Complete == [provider |-> "voyage", dim |-> 2, version |-> 1, batchSize |-> 2, model |-> TRUE,
             key |-> TRUE]
MCEnvironments == {Complete} \cup
    {[Complete EXCEPT !.provider = p] : p \in {"fake", "other"}} \cup
    {[Complete EXCEPT !.dim = 0], [Complete EXCEPT !.version = 0], [Complete EXCEPT !.batchSize = 0],
     [Complete EXCEPT !.key = FALSE], [Complete EXCEPT !.model = FALSE]}
MCRetryAfters == {-1, 61000}

-----------------------------------------------------------------------------
(* The language model: keys with and without repetition, and one too short *)
(* to hide; what stands around a piece may be of the key as well.          *)

MCSecrets == {<<1, 2, 3, 4, 5>>, <<1, 2, 1, 2, 3>>, <<1, 1, 1, 2, 1>>, <<1, 2>>}
MCAsides == {<<>>, <<9>>, <<1>>, <<1, 2>>, <<9, 1, 2, 3>>, <<1, 9>>, <<2, 1>>}
MCRetries == {-1, 0, 2}

-----------------------------------------------------------------------------
(* MCP: settings of both servers, and what a reply renders.                *)

MCKeys == {"k1", "k2"}
TwoKeys == <<<<"k1", "p1">>, <<>>, <<"k2", "p2">>>>
Basic == [mode |-> "http", production |-> FALSE, mcp |-> TwoKeys, core |-> TwoKeys,
          key |-> "none", attempts |-> 2]
MCSettings == {Basic, [Basic EXCEPT !.mode = "stdio", !.key = "k1"], [Basic EXCEPT !.mode = "stdio"],
    [Basic EXCEPT !.core = <<<<"k1", "p2">>>>], [Basic EXCEPT !.production = TRUE],
    [Basic EXCEPT !.mcp = <<<<"k1">>>>],
    [Basic EXCEPT !.core = <<<<"k1", "p1">>, <<"k1", "p2">>>>, !.attempts = 0]}

\* Characters by their weight: a word is 27 of them, a note what it says.
MCWeights ==
    [k \in {"space", "newline", "a", "tag", "neutral"} |-> 8]
    @@ [k \in {"header", "footer", "open", "close", "notice"} |-> 50]
    @@ [k \in {"field", "version", "related"} |-> 20]
    @@ [w |-> 27, forged |-> 25, ellipsis |-> 20, quote |-> 16, meta |-> 47, injection |-> 61,
        secret |-> 53, omission |-> 44, clamp |-> 72, noResults |-> 90]
String(kinds) == [i \in 1 .. Len(kinds) |-> Char(kinds[i])]
Short == String(<<"a", "a", "a">>)
Padded == String(<<"a", "w", "space">>)
MCStoredTitles == {Short, String(<<"w", "newline", "forged">>), String(<<"w", "w", "w", "a", "w">>)}
MCHits == {[title |-> t, summary |-> s, flags |-> IF s = Padded THEN {}
                                                  ELSE IF t = Short THEN {"secret-masked"}
                                                  ELSE {"injection-suspect"}] :
              t \in MCStoredTitles, s \in {Padded, String(<<"a", "w", "a", "w", "a", "w">>)}}
MCAnswers == {<<>>,
    String(<<"forged", "newline", "newline", "space", "newline", "a", "w", "newline", "space",
             "forged">>),
    String([i \in 1 .. 13 |-> IF i <= 10 THEN "w" ELSE IF i = 11 THEN "a"
                              ELSE IF i = 12 THEN "newline" ELSE "w"])}
MCRecords == [title : MCStoredTitles, related : BOOLEAN,
              sections : {<<String(<<"a", "newline", "tag", "a">>), <<>>, String(<<"tag">>)>>,
                          <<<<>>, String(<<"a">>)>>}]
=============================================================================
