---------------------------- MODULE EmbedderCalls ----------------------------
(***************************************************************************)
(* The embedder (packages/core/src/embedder): made from the environment,   *)
(* it turns texts into vectors, batch after batch, over HTTP.  Rate limits *)
(* and outages are waited out and counted apart; any other refusal, and an *)
(* answer that does not fit, ends the call.                                *)
(*                                                                         *)
(* The texts of a call are numbered; the vector of a text is its number.   *)
(* Times are milliseconds; what a request itself takes is not counted, and *)
(* the code sets no limit to it.                                           *)
(***************************************************************************)
EXTENDS Integers, Sequences, FiniteSets, FiniteSetsExt

CONSTANTS
    Environments,       \* [provider, dim, version, batchSize, model, key]; what is
                        \* missing or no number is 0, or FALSE
    CallSizes,          \* numbers of texts
    RetryAfters,        \* Retry-After of a 429 in ms; -1: none that can be read
    MaxEmbeddingBatchSize, MaxRetries, BackoffBase,
    RateLimitRetries, RateLimitBackoffBase, RetryAfterCap,
    JobLease            \* EMBED_JOB_LEASE_MS of the worker that waits for the vectors

ASSUME EmbedderCallsAssumption ==
    /\ {MaxEmbeddingBatchSize, JobLease} \subseteq Nat \ {0}
    /\ {MaxRetries, BackoffBase, RateLimitRetries, RateLimitBackoffBase, RetryAfterCap}
           \subseteq Nat
    /\ CallSizes \subseteq Nat
    /\ RetryAfters \subseteq Nat \cup {-1}
    /\ \A env \in Environments : env.batchSize \in Nat

\* BACKOFF_FACTOR ** attempt
Doubled(attempt) == 2 ^ attempt

\* What the provers are not told of powers.
ASSUME BackoffAssumption ==
    \A k \in 0 .. MaxRetries + RateLimitRetries :
        Doubled(k) \in Nat /\ Doubled(k + 1) = 2 * Doubled(k)

VARIABLES
    embedder,   \* [status, provider, batchSize]
    call        \* [pc, texts, attempt, rateLimitAttempt, waited, vectors]

embedderVars == <<embedder, call>>

Providers == {"voyage", "fake"}

-----------------------------------------------------------------------------
(* createEmbedder                                                          *)

\* readBatchSize
BatchSize(env) == IF env.batchSize = 0 THEN MaxEmbeddingBatchSize
                  ELSE Min({env.batchSize, MaxEmbeddingBatchSize})

\* readEmbedderConfig, then readVoyageCredentials, in the order they complain.
ConfigError(env) ==
    IF env.provider \notin Providers THEN "PROVIDER_UNKNOWN"
    ELSE IF env.dim = 0 THEN "DIM_INVALID"
    ELSE IF env.version = 0 THEN "VERSION_INVALID"
    ELSE IF env.provider = "voyage" /\ ~env.model THEN "MODEL_MISSING"
    ELSE IF env.provider = "voyage" /\ ~env.key THEN "API_KEY_MISSING"
    ELSE "none"

NoEmbedder == [status |-> "none", provider |-> "none", batchSize |-> 1]
NoCall == [pc |-> "none", texts |-> 0, attempt |-> 0, rateLimitAttempt |-> 0,
           waited |-> 0, vectors |-> << >>]

EmbedderInit == embedder = NoEmbedder /\ call = NoCall

CreateEmbedder ==
    /\ embedder = NoEmbedder
    /\ \E env \in Environments : embedder' =
           IF ConfigError(env) # "none" THEN [NoEmbedder EXCEPT !.status = ConfigError(env)]
           ELSE [status |-> "ready", provider |-> env.provider, batchSize |-> BatchSize(env)]
    /\ UNCHANGED call

-----------------------------------------------------------------------------
(* embed                                                                   *)

\* embed is called: no texts need no request, and the fake embedder none either.
Embed ==
    /\ embedder.status = "ready"
    /\ call.pc \in {"none", "done", "failed"}
    /\ \E n \in CallSizes : call' =
           IF n = 0 \/ embedder.provider = "fake"
           THEN [NoCall EXCEPT !.pc = "done", !.texts = n, !.vectors = [i \in 1 .. n |-> i]]
           ELSE [NoCall EXCEPT !.pc = "requesting", !.texts = n]
    /\ UNCHANGED embedder

Done(c) == Len(c.vectors)
BatchLength == Min({embedder.batchSize, call.texts - Done(call)})

FailCall == call' = [call EXCEPT !.pc = "failed", !.vectors = << >>]

\* What may come as `data`: items with an index and a vector, which belongs to
\* the text of that index in this batch and may not fit the dimension.
Items(k) == [index : 0 .. k, fits : BOOLEAN]
Data(k) == UNION {[1 .. n -> Items(k)] : n \in {k - 1, k}}

\* readItem of all of them, and the checks of parseVectors around it.
FitsBatch(data, k) ==
    /\ Len(data) = k
    /\ \A i \in 1 .. k : data[i].fits /\ data[i].index < k
    /\ \A i, j \in 1 .. k : data[i].index = data[j].index => i = j

\* Mutant: takes the vectors in the order they came in.
ParseVectors_AsTheyCome(data) ==
    [i \in 1 .. Len(data) |-> Done(call) + data[i].index + 1]

\* The vectors in the order of the texts.
ParseVectors(data) ==
    [i \in 1 .. Len(data) |->
        Done(call) + data[CHOOSE j \in 1 .. Len(data) : data[j].index = i - 1].index + 1]

\* A 2xx.  The next batch has its retries to itself.
Answered ==
    /\ call.pc = "requesting"
    /\ \E data \in Data(BatchLength) :
          IF ~FitsBatch(data, BatchLength) THEN FailCall
          ELSE call' = [call EXCEPT
                   !.vectors = @ \o ParseVectors(data),
                   !.pc = IF Done(call) + Len(data) = call.texts THEN "done" ELSE "requesting",
                   !.attempt = 0, !.rateLimitAttempt = 0]
    /\ UNCHANGED embedder

\* retryAfterMs, or the backoff of rate limits.
RateLimitWait(after) ==
    IF after >= 0 THEN Min({after, RetryAfterCap})
    ELSE RateLimitBackoffBase * Doubled(call.rateLimitAttempt)

\* A 429.
RateLimited ==
    /\ call.pc = "requesting"
    /\ \E after \in RetryAfters :
          IF call.rateLimitAttempt >= RateLimitRetries THEN FailCall
          ELSE call' = [call EXCEPT !.rateLimitAttempt = @ + 1,
                                    !.waited = @ + RateLimitWait(after)]
    /\ UNCHANGED embedder

\* Mutant: an outage between them gives the rate limits their retries back.
Unavailable_Resetting ==
    /\ call.pc = "requesting"
    /\ IF call.attempt >= MaxRetries THEN FailCall
       ELSE call' = [call EXCEPT !.attempt = @ + 1, !.rateLimitAttempt = 0,
                                 !.waited = @ + BackoffBase * Doubled(call.attempt)]
    /\ UNCHANGED embedder

\* A 5xx, or no answer at all.
Unavailable ==
    /\ call.pc = "requesting"
    /\ IF call.attempt >= MaxRetries THEN FailCall
       ELSE call' = [call EXCEPT !.attempt = @ + 1,
                                 !.waited = @ + BackoffBase * Doubled(call.attempt)]
    /\ UNCHANGED embedder

\* Any other status: REQUEST_FAILED.
Refused ==
    /\ call.pc = "requesting"
    /\ FailCall
    /\ UNCHANGED embedder

EmbedderNext == CreateEmbedder \/ Embed \/ Answered \/ RateLimited \/ Unavailable \/ Refused

EmbedderSpec == EmbedderInit /\ [][EmbedderNext]_embedderVars

-----------------------------------------------------------------------------
(* Properties.                                                             *)

\* types.ts, Embedder: texts[i] answers to vectors[i], in whatever order the
\* provider sends them, across batches and retries.
VectorsAnswerTexts ==
    call.pc = "done" => call.vectors = [i \in 1 .. call.texts |-> i]

Batches(c) == (c.texts + embedder.batchSize - 1) \div embedder.batchSize

\* worker config.ts, EMBED_JOB_LEASE_MS: a job that is waiting out a provider
\* is not taken for abandoned, as long as its texts are one batch: neither kind
\* of failure gives the other its retries back.
WaitsFitLease == Batches(call) <= 1 => call.waited < JobLease
=============================================================================
