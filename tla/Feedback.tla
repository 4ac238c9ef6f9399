------------------------------ MODULE Feedback ------------------------------
(***************************************************************************)
(* POST /v1/feedback (packages/api/src/feedback.ts): a judgement on a      *)
(* record found by a query, stored once per project, record and query, and *)
(* the candidates for the golden set of the retrieval evaluation it leaves *)
(* behind.  A human, outside this code, approves candidates.               *)
(***************************************************************************)
EXTENDS Naturals, FiniteSets

CONSTANTS
    Records,      \* record identities
    Projects,     \* projects, from the API key of the request
    Queries,      \* masked query texts
    Clients,      \* feedback requests in flight at once
    MaxFeedback   \* bound: feedback requests

ASSUME FeedbackAssumption == MaxFeedback \in Nat /\ Records # {} /\ Queries # {}

VARIABLES
    existing,    \* records there are
    feedbacks,   \* feedbacks[p, r, q], the document with that derived _id
    evalCases,   \* evalCases[q] = [state, expected]
    fb,          \* fb[c]: how far request c is
    judgements   \* requests so far

feedbackVars == <<feedbacks, evalCases, fb, judgements>>

NoFeedback == [pc |-> "idle", rec |-> CHOOSE r \in Records : TRUE,
               query |-> CHOOSE q \in Queries : TRUE]

FeedbackTypeOK ==
    /\ existing \subseteq Records
    /\ feedbacks \in [Projects \X Records \X Queries -> {"none", "helped", "not"}]
    /\ evalCases \in [Queries -> [state : {"none", "candidate", "approved"},
                                  expected : SUBSET Records]]
    /\ fb \in [Clients -> [pc : {"idle", "check", "offer", "insert"},
                           rec : Records, query : Queries]]
    /\ judgements \in 0 .. MaxFeedback

FeedbackInit ==
    /\ feedbacks = [f \in Projects \X Records \X Queries |-> "none"]
    /\ evalCases = [q \in Queries |-> [state |-> "none", expected |-> {}]]
    /\ fb = [c \in Clients |-> NoFeedback]
    /\ judgements = 0

\* upsertFeedback.  The _id derives from project, record and query, and the
\* upsert is repeated when it loses a race, so the last judgement stands.
UpsertFeedback(c, p, r, q, helped) ==
    /\ fb[c].pc = "idle"
    /\ judgements < MaxFeedback
    /\ judgements' = judgements + 1
    /\ feedbacks' = [feedbacks EXCEPT ![<<p, r, q>>] = IF helped THEN "helped" ELSE "not"]
    /\ fb' = [fb EXCEPT ![c] = IF helped THEN [pc |-> "check", rec |-> r, query |-> q]
                               ELSE NoFeedback]
    /\ UNCHANGED <<existing, evalCases>>

\* countDocuments: a record that is not there is no answer to any query.
CheckRecord(c) ==
    /\ fb[c].pc = "check"
    /\ fb' = [fb EXCEPT ![c] = IF fb[c].rec \in existing
                               THEN [@ EXCEPT !.pc = "offer"] ELSE NoFeedback]
    /\ UNCHANGED <<existing, feedbacks, evalCases, judgements>>

\* Mutant: the filter on approvedBy is left out.
Mergeable_AnyCase(q) == evalCases[q].state # "none"

\* EVAL_CASE_CANDIDATE_FILTER: approvedBy does not exist.
Mergeable(q) == evalCases[q].state = "candidate"

\* upsertEvalCaseCandidate, when the filter matches a document: $addToSet.
OfferToCandidate(c) ==
    /\ fb[c].pc = "offer"
    /\ Mergeable(fb[c].query)
    /\ evalCases' = [evalCases EXCEPT ![fb[c].query].expected = @ \cup {fb[c].rec}]
    /\ fb' = [fb EXCEPT ![c] = NoFeedback]
    /\ UNCHANGED <<existing, feedbacks, judgements>>

\* When it matches none, the server goes on to insert one.
OfferNew(c) ==
    /\ fb[c].pc = "offer"
    /\ ~Mergeable(fb[c].query)
    /\ fb' = [fb EXCEPT ![c].pc = "insert"]
    /\ UNCHANGED <<existing, feedbacks, evalCases, judgements>>

\* The insert; its duplicate key error is swallowed, for an approved case
\* and for a candidate somebody inserted in the meantime alike.
InsertCandidate(c) ==
    /\ fb[c].pc = "insert"
    /\ evalCases' = IF evalCases[fb[c].query].state # "none" THEN evalCases
                    ELSE [evalCases EXCEPT ![fb[c].query] =
                             [state |-> "candidate", expected |-> {fb[c].rec}]]
    /\ fb' = [fb EXCEPT ![c] = NoFeedback]
    /\ UNCHANGED <<existing, feedbacks, judgements>>

\* The human approval, outside this code.
ApproveCase(q) ==
    /\ evalCases[q].state = "candidate"
    /\ evalCases' = [evalCases EXCEPT ![q].state = "approved"]
    /\ UNCHANGED <<existing, feedbacks, fb, judgements>>

FeedbackStep(c) ==
    \/ \E p \in Projects, r \in Records, q \in Queries, helped \in BOOLEAN :
          UpsertFeedback(c, p, r, q, helped)
    \/ CheckRecord(c)
    \/ OfferToCandidate(c)
    \/ OfferNew(c)
    \/ InsertCandidate(c)

FeedbackNext == \/ \E c \in Clients : FeedbackStep(c)
                \/ \E q \in Queries : ApproveCase(q)

-----------------------------------------------------------------------------

\* countHelpfulFeedback: helpful judgements per record, one per project and query.
HelpfulFeedback(r) ==
    Cardinality({x \in Projects \X Queries : feedbacks[<<x[1], r, x[2]>>] = "helped"})

\* feedback.ts:156-160: feedback never changes an approved case, whatever
\* happens between the lookup of the case and the write.
ApprovedCasesStay ==
    [][\A q \in Queries : evalCases[q].state = "approved" =>
          evalCases'[q] = evalCases[q]]_<<existing, feedbackVars>>
=============================================================================
