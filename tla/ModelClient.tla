----------------------------- MODULE ModelClient -----------------------------
(***************************************************************************)
(* The language model client (packages/core/src/llm): the settings it is   *)
(* made from, the two calls it offers, the attempts the vendor's SDK makes *)
(* of one call, and what an error says when all of them fail.  An error    *)
(* may quote what came over the wire, the API key or a piece of it         *)
(* included; redactSecret is the last hand over its text.                  *)
(*                                                                         *)
(* Texts are sequences of characters, and characters are numbers.          *)
(***************************************************************************)
EXTENDS Integers, Sequences, SequencesExt

CONSTANTS
    Secrets,        \* the API keys tried
    MinRedactable,  \* MIN_REDACTABLE_SECRET_CHARS
    Redacted,       \* the mark in a piece's place, no character of a key
    Asides,         \* what an error may quote around a piece of the key
    Timeouts,       \* what ANTHROPIC_TIMEOUT_MS may say, in seconds
    Retries,        \* what ANTHROPIC_MAX_RETRIES may say; no number is -1 here
    DefaultTimeout, DefaultRetries

ASSUME ModelClientAssumption ==
    /\ MinRedactable \in Nat \ {0}
    /\ \A secret \in Secrets : Redacted \notin Range(secret)
    /\ Secrets \subseteq Seq(Int) /\ Asides \subseteq Seq(Int) /\ Redacted \in Int
    /\ DefaultTimeout \in Nat \ {0} /\ DefaultRetries \in Nat

VARIABLES
    client,     \* [pc, key, timeout, retries]: made from the environment
    request,    \* [surface, attempts, quoted]: the call under way or the last one, and
                \* what the error that ended it had quoted: [before, piece, after]
    answer      \* [kind, ...]: what the caller is given

modelVars == <<client, request, answer>>

NoPiece == [before |-> <<>>, piece |-> <<>>, after |-> <<>>]

-----------------------------------------------------------------------------
(* Settings                                                                *)

\* readPositiveInt, readNonNegativeInt: what is no number of its kind falls back.
ReadTimeout(raw) == IF raw > 0 THEN raw ELSE DefaultTimeout
ReadRetries(raw) == IF raw >= 0 THEN raw ELSE DefaultRetries

\* readAnthropicConfig, createAnthropicModel: no model and no key, in this
\* order, are errors; there is no default for either, and no setting for a fake.
CreateModel ==
    /\ client.pc = "none"
    /\ \E model \in BOOLEAN, key \in Secrets \cup {<<>>},
          timeout \in Timeouts, retries \in Retries :
          client' = [pc |-> IF ~model THEN "MODEL_MISSING"
                            ELSE IF key = <<>> THEN "API_KEY_MISSING" ELSE "ready",
                     key |-> key, timeout |-> ReadTimeout(timeout), retries |-> ReadRetries(retries)]
    /\ UNCHANGED <<request, answer>>

-----------------------------------------------------------------------------
(* redactSecret                                                            *)

Occurs(piece, text) ==
    \E i \in 1 .. Len(text) - Len(piece) + 1 : SubSeq(text, i, i + Len(piece) - 1) = piece

\* The runs of n characters of the secret, from its start on.
Pieces(secret, n) == [i \in 1 .. Len(secret) - n + 1 |-> SubSeq(secret, i, i + n - 1)]

\* text.split(piece).join(REDACTED)
SplitAndJoin(text, piece) ==
    LET n == Len(piece)
        rest[i \in 1 .. Len(text) + 1] ==
            IF i > Len(text) THEN <<>>
            ELSE IF i + n - 1 <= Len(text) /\ SubSeq(text, i, i + n - 1) = piece
            THEN <<Redacted>> \o rest[i + n]
            ELSE <<text[i]>> \o rest[i + 1]
    IN  rest[1]

\* Mutant: the short pieces are looked for first.
RedactSecret_ShortFirst(text, secret) ==
    LET lengths == [i \in 1 .. Len(secret) - MinRedactable + 1 |-> MinRedactable + i - 1]
    IN  FoldLeft(SplitAndJoin, text, FlattenSeq([i \in DOMAIN lengths |-> Pieces(secret, lengths[i])]))

\* Long pieces first: a short one would break a long one up and leave a rest.
RedactSecret(text, secret) ==
    LET lengths == [i \in 1 .. Len(secret) - MinRedactable + 1 |-> Len(secret) - i + 1]
    IN  FoldLeft(SplitAndJoin, text, FlattenSeq([i \in DOMAIN lengths |-> Pieces(secret, lengths[i])]))

-----------------------------------------------------------------------------
(* A call                                                                  *)

ModelClientInit ==
    /\ client = [pc |-> "none", key |-> <<>>, timeout |-> 0, retries |-> 0]
    /\ request = [surface |-> "none", attempts |-> 0, quoted |-> NoPiece]
    /\ answer = [kind |-> "none"]

\* complete sends system and messages, selectTool the tools as well and leaves
\* the choice to the model.
Send ==
    /\ client.pc = "ready" /\ request.surface = "none"
    /\ \E surface \in {"complete", "selectTool"} :
          request' = [surface |-> surface, attempts |-> 1, quoted |-> NoPiece]
    /\ answer' = [kind |-> "none"]
    /\ UNCHANGED client

Ends(outcome) ==
    /\ answer' = outcome
    /\ request' = [request EXCEPT !.surface = "none"]
    /\ UNCHANGED client

\* The blocks of a message: text is joined; of a choice, the tools are the ones
\* the model named, perhaps none, which is an answer too.
Reply ==
    /\ request.surface # "none"
    /\ \E blocks \in {<<>>, <<"text">>, <<"tool_use">>, <<"text", "tool_use">>} :
          Ends([kind |-> request.surface,
                text |-> SelectSeq(blocks, LAMBDA b : b = "text"),
                toolUses |-> IF request.surface = "complete" THEN <<>>
                             ELSE SelectSeq(blocks, LAMBDA b : b = "tool_use")])

\* toLlmError: an error of the API says its status, type and request id, and
\* nothing that came with it; any other error says its own text, redacted.
ApiFailure == [kind |-> "LLM_REQUEST_FAILED", text |-> <<>>]
OtherFailure(text) == [kind |-> "LLM_REQUEST_FAILED", text |-> RedactSecret(text, client.key)]

\* An answer that is no JSON, quoted by the error that says so, with a piece of
\* what it repeated of the key, cut anywhere.
Garble ==
    /\ request.surface # "none"
    /\ \E before, after \in Asides, from, to \in DOMAIN client.key :
          LET piece == SubSeq(client.key, from, to) IN
          /\ from <= to
          /\ answer' = OtherFailure(before \o piece \o after)
          /\ request' = [request EXCEPT !.surface = "none",
                              !.quoted = [before |-> before, piece |-> piece, after |-> after]]
    /\ UNCHANGED client

\* The API refuses; what may pass, a time-out, a lost connection, a 429 or a 5xx,
\* the SDK tries again while it may.
Refuse ==
    /\ request.surface # "none"
    /\ \E passing \in BOOLEAN :
          IF passing /\ request.attempts <= client.retries
          THEN /\ request' = [request EXCEPT !.attempts = @ + 1]
               /\ UNCHANGED <<client, answer>>
          ELSE Ends(ApiFailure)

ModelClientNext == CreateModel \/ Send \/ Reply \/ Garble \/ Refuse

ModelClientSpec == ModelClientInit /\ [][ModelClientNext]_modelVars

-----------------------------------------------------------------------------
(* Properties.                                                             *)

\* anthropic.ts, redactSecret: no error holds a piece of the key that is long
\* enough to be one, whatever it quotes; and where the key does not repeat itself
\* around it, such a piece leaves no rest either.
NoFragmentSurvives ==
    answer.kind = "LLM_REQUEST_FAILED" =>
        /\ \A n \in MinRedactable .. Len(client.key) :
              \A piece \in Range(Pieces(client.key, n)) : ~Occurs(piece, answer.text)
        /\ (/\ Len(request.quoted.piece) >= MinRedactable
            /\ Range(request.quoted.before \o request.quoted.after) \cap Range(client.key) = {})
           => Range(answer.text) \cap Range(client.key) = {}
=============================================================================
