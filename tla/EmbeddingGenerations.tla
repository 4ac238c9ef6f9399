------------------------ MODULE EmbeddingGenerations ------------------------
(***************************************************************************)
(* The ledger of embedding generations                                     *)
(* (packages/core/src/db/embedding-generations.ts): which embedder makes   *)
(* the vectors of a version.  Every process that embeds checks itself      *)
(* against it when it boots (worker.cli.ts, api server.ts); a process that *)
(* does not fit exits and is started again by the container runtime.       *)
(***************************************************************************)
EXTENDS FiniteSets

CONSTANTS
    Processes,      \* processes that embed texts or queries
    Embedding,      \* those of them that store vectors, the workers
    Versions,       \* values of EMBEDDING_VERSION
    Identities,     \* values of readEmbeddingIdentity
    Unrecorded,     \* whatever made the vectors stored before there was a ledger
    Unclaimed       \* the ledger has no entry

ASSUME GenerationsAssumption ==
    /\ Embedding \subseteq Processes
    /\ Unrecorded \notin Identities
    /\ Unclaimed \notin Identities

VARIABLES
    ledger,     \* ledger[v]: the identity recorded for v
    stored,     \* stored[v]: what the vectors of v were made by
    proc,       \* proc[p] = [pc, version, identity]
    keyValid    \* does the provider accept the API key?

generationVars == <<ledger, stored, proc, keyValid>>

Booting == {"probing", "reading", "checking", "inserting", "rereading"}

Settings == [version : Versions, identity : Identities]

GenerationsTypeOK ==
    /\ ledger \in [Versions -> Identities \cup {Unclaimed}]
    /\ stored \in [Versions -> SUBSET (Identities \cup {Unrecorded})]
    /\ proc \in [Processes -> [pc : Booting \cup {"down", "exited", "running"},
                               version : Versions, identity : Identities]]
    /\ keyValid \in BOOLEAN

\* Vectors may be there from before the ledger.
GenerationsInit ==
    /\ ledger = [v \in Versions |-> Unclaimed]
    /\ stored \in [Versions -> {{}, {Unrecorded}}]
    /\ \E c \in Settings : proc = [p \in Processes |->
           [pc |-> "down", version |-> c.version, identity |-> c.identity]]
    /\ keyValid \in BOOLEAN

\* A worker embeds one text first, to see whether its key works.
Started(p, c) == [pc |-> IF p \in Embedding THEN "probing" ELSE "reading",
                  version |-> c.version, identity |-> c.identity]

Goes(p, pc) == proc' = [proc EXCEPT ![p].pc = pc]

Recorded(p) == ledger[proc[p].version]

\* Containers are replaced by new ones with the settings c, or removed.
Replace(replaced, gone, c) ==
    /\ proc' = [p \in Processes |-> IF p \in replaced THEN Started(p, c)
                                    ELSE IF p \in gone THEN [proc[p] EXCEPT !.pc = "down"]
                                    ELSE proc[p]]
    /\ UNCHANGED <<ledger, stored, keyValid>>

\* checkEmbedderCredentials: only a refusal is fatal, an outage is not.
Probe(p) ==
    /\ proc[p].pc = "probing"
    /\ \/ Goes(p, "reading")
       \/ ~keyValid /\ Goes(p, "exited")
    /\ UNCHANGED <<ledger, stored, keyValid>>

\* There are vectors of the version.
Foreign(p) == stored[proc[p].version] # {}

\* Mutant: vectors that are there are held against the process before the
\* ledger is asked whose they are.
ReadLedger_VectorsFirst(p) ==
    /\ proc[p].pc = "reading"
    /\ \/ Foreign(p) /\ Goes(p, "exited")
       \/ ~Foreign(p) /\ Recorded(p) = proc[p].identity /\ Goes(p, "running")
       \/ ~Foreign(p) /\ Recorded(p) = Unclaimed /\ Goes(p, "checking")
       \/ ~Foreign(p) /\ Recorded(p) \notin {Unclaimed, proc[p].identity} /\ Goes(p, "exited")
    /\ UNCHANGED <<ledger, stored, keyValid>>

\* The first findOne of claimEmbeddingGeneration.
ReadLedger(p) ==
    /\ proc[p].pc = "reading"
    /\ \/ Recorded(p) = proc[p].identity /\ Goes(p, "running")
       \/ Recorded(p) = Unclaimed /\ Goes(p, "checking")
       \/ Recorded(p) \notin {Unclaimed, proc[p].identity} /\ Goes(p, "exited")
    /\ UNCHANGED <<ledger, stored, keyValid>>

\* No entry was there to vouch for vectors of the version.
CheckChunks(p) ==
    /\ proc[p].pc = "checking"
    /\ IF Foreign(p) THEN Goes(p, "exited") ELSE Goes(p, "inserting")
    /\ UNCHANGED <<ledger, stored, keyValid>>

\* insertOne; the version is the _id, so that the second insert fails.
InsertClaim(p) ==
    /\ proc[p].pc = "inserting"
    /\ \/ /\ Recorded(p) = Unclaimed
          /\ ledger' = [ledger EXCEPT ![proc[p].version] = proc[p].identity]
          /\ Goes(p, "running")
       \/ /\ Recorded(p) # Unclaimed
          /\ Goes(p, "rereading")
          /\ UNCHANGED ledger
    /\ UNCHANGED <<stored, keyValid>>

\* Mutant: the loser of the race lets itself in.
ReadWinner_Trusting(p) ==
    /\ proc[p].pc = "rereading"
    /\ Goes(p, "running")
    /\ UNCHANGED <<ledger, stored, keyValid>>

\* The loser reads the winner's entry.
ReadWinner(p) ==
    /\ proc[p].pc = "rereading"
    /\ IF Recorded(p) = proc[p].identity THEN Goes(p, "running") ELSE Goes(p, "exited")
    /\ UNCHANGED <<ledger, stored, keyValid>>

\* A database call of the boot throws, or the process dies of something else.
Crash(p) ==
    /\ proc[p].pc \in Booting \cup {"running"}
    /\ Goes(p, "exited")
    /\ UNCHANGED <<ledger, stored, keyValid>>

\* restart: unless-stopped
Restart(p) ==
    /\ proc[p].pc = "exited"
    /\ proc' = [proc EXCEPT ![p] = Started(p, @)]
    /\ UNCHANGED <<ledger, stored, keyValid>>

\* A worker embeds a record.
StoreVectors(p) ==
    /\ p \in Embedding
    /\ proc[p].pc = "running"
    /\ stored' = [stored EXCEPT ![proc[p].version] = @ \cup {proc[p].identity}]
    /\ UNCHANGED <<ledger, proc, keyValid>>

\* Records are unpublished, or embedded again at another version: vectors go.
DropVectors(v) ==
    /\ \E kept \in SUBSET stored[v] : stored' = [stored EXCEPT ![v] = kept]
    /\ UNCHANGED <<ledger, proc, keyValid>>

Claim(p) == ReadLedger(p) \/ CheckChunks(p) \/ InsertClaim(p) \/ ReadWinner(p)

ProcessStep(p) == Probe(p) \/ Claim(p) \/ Crash(p) \/ Restart(p) \/ StoreVectors(p)

GenerationsNext ==
    \/ \E p \in Processes : ProcessStep(p)
    \/ \E v \in Versions : DropVectors(v)
    \/ \E replaced, gone \in SUBSET Processes, c \in Settings : Replace(replaced, gone, c)

GenerationsSpec == GenerationsInit /\ [][GenerationsNext]_generationVars

-----------------------------------------------------------------------------
(* Properties.                                                             *)

\* embedding-generations.ts:4-6: the vectors of a version come from one
\* embedder, and a process that is up compares its queries with vectors of its
\* own space only, whatever processes boot side by side with what settings.
SpacesNeverMix ==
    /\ \A v \in Versions : \A a, b \in stored[v] : a = b
    /\ \A p \in Processes : proc[p].pc = "running" =>
           stored[proc[p].version] \subseteq {proc[p].identity}
=============================================================================
