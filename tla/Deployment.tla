----------------------------- MODULE Deployment -----------------------------
(***************************************************************************)
(* One host that is deployed to: the workflow (.github/workflows/          *)
(* deploy.yml) sends a bundle and a command to the host, where             *)
(* infra/deploy/deploy.sh brings a tag up, tests it with smoke.sh and, on  *)
(* failure, rolls back once.  The containers that embed boot as in         *)
(* EmbeddingGenerations.                                                   *)
(*                                                                         *)
(* What `docker compose` does is modelled from docker-compose*.yml: it     *)
(* replaces containers whose image or settings changed, and waits for      *)
(* db-init and for core-api to be healthy, never for the worker.           *)
(***************************************************************************)
EXTENDS EmbeddingGenerations, Naturals

CONSTANTS
    Api,             \* the core-api container; the others are workers
    Scripts,         \* runs of deploy.sh; as many as there are deployments
    Tags,            \* image tags
    Broken,          \* tags whose core-api never becomes healthy
    NoTag

ASSUME DeploymentAssumption ==
    /\ Api \in Processes /\ Api \notin Embedding
    /\ Broken \subseteq Tags
    /\ NoTag \notin Tags

VARIABLES
    bundle,     \* the EMBEDDING_VERSION of the compose file on the host
    image,      \* image[p]: the tag container p was made from
    lastGood,   \* the last-good-tag file
    script,     \* script[s] = [pc, tag, identity, target, alone]; it is alone
                \* while no other script has been on the host since it began
    healthy     \* history: tags whose core-api a script has seen healthy

hostVars == <<bundle, image, lastGood, script, healthy>>
deployVars == <<generationVars, hostVars>>

Live == {"render", "pull", "up", "waiting", "smoke", "record"}
Ended == {"succeeded", "rolledback", "failed", "killed"}

IsLive(s) == script[s].pc \in Live

DeploymentTypeOK ==
    /\ GenerationsTypeOK
    /\ bundle \in Versions
    /\ image \in [Processes -> Tags \cup {NoTag}]
    /\ lastGood \in Tags \cup {NoTag}
    /\ script \in [Scripts -> [pc : {"none"} \cup Live \cup Ended,
                               tag : Tags \cup {NoTag}, identity : Identities,
                               target : Tags \cup {NoTag}, alone : BOOLEAN]]
    /\ \A s \in Scripts : IsLive(s) => {script[s].tag, script[s].target} \subseteq Tags
    /\ healthy \subseteq Tags

NoScript == [pc |-> "none", tag |-> NoTag, identity |-> CHOOSE i \in Identities : TRUE,
             target |-> NoTag, alone |-> TRUE]

DeploymentInit ==
    /\ GenerationsInit
    /\ bundle \in Versions
    /\ image = [p \in Processes |-> NoTag]
    /\ lastGood = NoTag
    /\ script = [s \in Scripts |-> NoScript]
    /\ healthy = {}

-----------------------------------------------------------------------------
(* The workflow.                                                           *)

\* ssm send-command: the bundle is unpacked over the last one and deploy.sh
\* starts with the tag and the model in its environment.  The concurrency
\* group lets one run of the workflow at a time do this, but a run may end
\* before its script does: the runner is lost, or its waiter gives up, and
\* the exit code of the waiter is swallowed.
SendCommand(s, t, c) ==
    /\ script[s].pc = "none"
    /\ bundle' = c.version
    /\ script' = [o \in Scripts |->
           IF o = s THEN [pc |-> "render", tag |-> t, identity |-> c.identity,
                          target |-> t, alone |-> \A other \in Scripts : ~IsLive(other)]
           ELSE [script[o] EXCEPT !.alone = FALSE]]
    /\ UNCHANGED <<generationVars, image, lastGood, healthy>>

-----------------------------------------------------------------------------
(* deploy.sh.                                                              *)

Proceeds(s, pc) == script' = [script EXCEPT ![s].pc = pc]

\* main after run_deploy has returned 1: back to last-good, once.
Fail(s) ==
    script' = [script EXCEPT ![s] =
        IF @.target # @.tag \/ lastGood \in {NoTag, @.tag}
        THEN [@ EXCEPT !.pc = "failed"]
        ELSE [@ EXCEPT !.pc = "render", !.target = lastGood]]

\* render_env: what goes wrong here ends the script, `die` knows no rollback.
RenderEnv(s) ==
    /\ script[s].pc = "render"
    /\ Proceeds(s, "pull") \/ Proceeds(s, "failed")
    /\ UNCHANGED <<generationVars, bundle, image, lastGood, healthy>>

\* Login, pull and certificate.
Pull(s) ==
    /\ script[s].pc = "pull"
    /\ Proceeds(s, "up") \/ Fail(s)
    /\ UNCHANGED <<generationVars, bundle, image, lastGood, healthy>>

\* What compose puts for ${IMAGE_TAG}: it looks at the environment of the
\* shell before --env-file, and IMAGE_TAG is exported to the script.
ComposeTag(s) == script[s].tag

ComposeSettings(s) == [version |-> bundle, identity |-> script[s].identity]

\* compose up replaces a container whose image or settings are others, and
\* starts one that is not there.
Unchanged(s, p) ==
    /\ image[p] = ComposeTag(s)
    /\ [version |-> proc[p].version, identity |-> proc[p].identity] = ComposeSettings(s)
    /\ proc[p].pc # "down"

Changed(s) == {p \in Processes : ~Unchanged(s, p)}

Recreate(s, replaced, gone) ==
    /\ Replace(replaced, gone, ComposeSettings(s))
    /\ image' = [p \in Processes |-> IF p \in replaced THEN ComposeTag(s) ELSE image[p]]

\* Mutant: `up -d || true`.
UpFails_Swallowed(s) ==
    /\ script[s].pc = "up"
    /\ \E replaced, gone \in SUBSET Changed(s) : Recreate(s, replaced, gone)
    /\ Proceeds(s, "smoke")
    /\ UNCHANGED <<bundle, lastGood, healthy>>

\* up -d fails on the way, as when db-init does not get the indexes ready:
\* of the old containers some are replaced, some removed and some still there.
UpFails(s) ==
    /\ script[s].pc = "up"
    /\ \E replaced, gone \in SUBSET Changed(s) : Recreate(s, replaced, gone)
    /\ Fail(s)
    /\ UNCHANGED <<bundle, lastGood, healthy>>

Up(s) ==
    /\ script[s].pc = "up"
    /\ Recreate(s, Changed(s), {})
    /\ Proceeds(s, "waiting")
    /\ UNCHANGED <<bundle, lastGood, healthy>>

\* GET /health is answered.
Serving == proc[Api].pc = "running" /\ image[Api] \notin Broken

\* up -d goes on until core-api is healthy, or gives up.
WaitHealthy(s) ==
    /\ script[s].pc = "waiting"
    /\ \/ /\ Serving /\ image[Api] = ComposeTag(s)
          /\ healthy' = healthy \cup {image[Api]}
          /\ Proceeds(s, "smoke")
       \/ Fail(s) /\ UNCHANGED healthy
    /\ UNCHANGED <<generationVars, bundle, image, lastGood>>

\* smoke.sh asks whatever answers at the domain.
Smoke(s) ==
    /\ script[s].pc = "smoke"
    /\ \/ Serving /\ Proceeds(s, IF script[s].target = script[s].tag THEN "record"
                             ELSE "rolledback")
       \/ Fail(s)
    /\ UNCHANGED <<generationVars, bundle, image, lastGood, healthy>>

Record(s) ==
    /\ script[s].pc = "record"
    /\ lastGood' = script[s].tag
    /\ Proceeds(s, "succeeded")
    /\ UNCHANGED <<generationVars, bundle, image, healthy>>

\* executionTimeout, or the host goes down.
Killed(s) ==
    /\ IsLive(s)
    /\ Proceeds(s, "killed")
    /\ UNCHANGED <<generationVars, bundle, image, lastGood, healthy>>

ScriptStep(s) == \/ RenderEnv(s) \/ Pull(s) \/ Up(s) \/ UpFails(s)
                 \/ WaitHealthy(s) \/ Smoke(s) \/ Record(s)

DeploymentNext ==
    \/ \E s \in Scripts :
          \/ \E t \in Tags, c \in Settings : SendCommand(s, t, c)
          \/ ScriptStep(s)
          \/ Killed(s)
    \/ (\E p \in Processes : ProcessStep(p)) /\ UNCHANGED hostVars
    \/ (\E v \in Versions : DropVectors(v)) /\ UNCHANGED hostVars

DeploymentSpec == DeploymentInit /\ [][DeploymentNext]_deployVars

\* Containers are restarted for ever and a boot is not interrupted for ever;
\* nothing is assumed of deployments.
DeploymentFairness ==
    /\ \A p \in Processes : /\ SF_deployVars(Claim(p) /\ UNCHANGED hostVars)
                           /\ WF_deployVars(Restart(p) /\ UNCHANGED hostVars)
    /\ \A p \in Embedding : SF_deployVars(Probe(p) /\ UNCHANGED hostVars)

FairDeploymentSpec == DeploymentSpec /\ DeploymentFairness

-----------------------------------------------------------------------------
(* Properties.                                                             *)

\* deploy.sh:187-194: the tag a rollback would go to has come up on this host,
\* however deployments fail, are killed or overlap.
LastGoodCameUp == lastGood \in healthy \cup {NoTag}

\* A script that reports success leaves its own tag in service and recorded,
\* as long as no other script has been on the host meanwhile.
SuccessIsServed ==
    \A s \in Scripts : script[s].pc = "succeeded" /\ script[s].alone =>
        /\ image[Api] = script[s].tag
        /\ lastGood = script[s].tag

Rightful(p) == Recorded(p) = proc[p].identity /\ (p \in Embedding => keyValid)

\* A container whose embedder is the recorded one ends up running, whatever
\* it lost to on the way, unless it is replaced or removed; a worker
\* needs a key besides.
RightfulStarts ==
    \A p \in Processes :
        Rightful(p) /\ proc[p].pc # "down" ~> proc[p].pc \in {"running", "down"} \/ ~Rightful(p)

\* deploy-rollback.int.spec.ts:344 says that a failed deployment goes back to
\* the last good tag: after a rollback reported as done it is what runs.
RollbackRestores ==
    \A s \in Scripts : script[s].pc = "rolledback" /\ script[s].alone =>
        image[Api] = lastGood
=============================================================================
