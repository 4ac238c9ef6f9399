------------------------------ MODULE ToolCalls ------------------------------
(***************************************************************************)
(* Tool calls of the MCP server (packages/mcp): a client's call is         *)
(* authenticated, becomes at most one request to core-api -- sent again    *)
(* only if it reads -- and answers with what came back.  Requests and      *)
(* replies may be lost or late: when the client gives an attempt up, the   *)
(* request may still be taken, and then nobody reads the reply.            *)
(***************************************************************************)
EXTENDS Integers, Sequences, FiniteSets, FiniteSetsExt

CONSTANTS
    Calls,
    ApiKeys,        \* keys clients may come with
    ShortKeys,      \* those shorter than PRODUCTION_MIN_KEY_LENGTH
    NoKey,          \* no key, or a header of another shape
    McpSettings,       \* [mode, production, mcp, core, key, attempts]: what both servers
                    \* start with; mcp and core are values of API_KEYS, as entries of
                    \* colon-separated parts, key is SENTINEL_KB_KEY
    DefaultAttempts \* of CORE_API_MAX_ATTEMPTS

ASSUME ToolCallsAssumption ==
    /\ ShortKeys \subseteq ApiKeys
    /\ NoKey \notin ApiKeys
    /\ DefaultAttempts \in Nat \ {0}

VARIABLES
    setting,    \* the setting both servers were started with, or NotStarted
    toolCall,   \* by call: [pc, tool, key, project, attempt, answer, warned]
    wire,       \* by call: the requests it sent, one for each attempt
    effects     \* by call: the projects in which core-api acted for it

callVars == <<setting, toolCall, wire, effects>>

-----------------------------------------------------------------------------
(* Keys                                                                    *)

Entries(raw) == {i \in 1 .. Len(raw) : raw[i] # << >>}

\* parseApiKeys refuses what it would have to guess at.
WellFormed(raw, production) ==
    /\ Entries(raw) # {}
    /\ \A i \in Entries(raw) :
          /\ Len(raw[i]) = 2
          /\ "" \notin {raw[i][1], raw[i][2]}
          /\ production => raw[i][1] \notin ShortKeys
          /\ \A j \in Entries(raw) : raw[i][1] = raw[j][1] => i = j

\* parseApiKeys: the project of every key.
ParseApiKeys(raw) ==
    [k \in {raw[i][1] : i \in Entries(raw)} |->
        LET i == CHOOSE i \in Entries(raw) : raw[i][1] = k IN raw[i][2]]

\* resolveAuth of the MCP server, resolveProject of core-api.
Knows(raw, key) == key \in DOMAIN ParseApiKeys(raw)

-----------------------------------------------------------------------------
(* Tools                                                                   *)

\* The handlers, by the request they make and the side of the client it takes.
registerSearchKnowledge   == [method |-> "POST", to |-> "search",   by |-> "read"]
registerGetRecord         == [method |-> "GET",  to |-> "records",  by |-> "read"]
registerRecordKnowledge   == [method |-> "POST", to |-> "records",  by |-> "write"]
registerSuggestResolution == [method |-> "POST", to |-> "answer",   by |-> "write"]
registerGiveFeedback      == [method |-> "POST", to |-> "feedback", by |-> "write"]

\* registerAllTools
RequestOf == [search_knowledge |-> registerSearchKnowledge, get_record |-> registerGetRecord,
              record_knowledge |-> registerRecordKnowledge,
              suggest_resolution |-> registerSuggestResolution,
              give_feedback |-> registerGiveFeedback]
Tools == DOMAIN RequestOf

\* assertIdempotent: the one write the guard knows is that of records.
UnsafeRead(request) ==
    request.by = "read" /\ request.method # "GET" /\ request.to = "records"

\* What core-api does for a request beside answering it: a stored record or
\* judgement, a paid run of the model.  Searching and reading leave nothing.
Acts(tool) == RequestOf[tool].to \in {"answer", "feedback"}
                 \/ (RequestOf[tool].to = "records" /\ RequestOf[tool].method = "POST")

\* Mutant: every request is sent as often as the client may try.
Limit_Alike(tool) ==
    IF setting.attempts > 0 THEN setting.attempts ELSE DefaultAttempts

\* send: attempts of a request; coreApiMaxAttempts is read with its default.
Limit(tool) ==
    IF RequestOf[tool].by = "write" THEN 1
    ELSE IF setting.attempts > 0 THEN setting.attempts ELSE DefaultAttempts

\* Arguments of record_knowledge: a required section, an optional one, and one
\* of the other type.  Blank texts are dropped before CreateRecordInput.
Fields == {"required", "optional", "foreign"}
FieldTexts == {"absent", "blank", "text"}
Given(arguments) == {s \in Fields : arguments[s] = "text"}
Fits(arguments) == "required" \in Given(arguments) /\ "foreign" \notin Given(arguments)

-----------------------------------------------------------------------------
(* Starting, and being called                                              *)

NotStarted == [mode |-> "none"]
NoToolCall == [pc |-> "none", tool |-> "none", key |-> NoKey, project |-> "none",
               attempt |-> 0, answer |-> "none", warned |-> FALSE]

ToolCallsInit ==
    /\ setting = NotStarted
    /\ toolCall = [c \in Calls |-> NoToolCall]
    /\ wire = [c \in Calls |-> << >>]
    /\ effects = [c \in Calls |-> << >>]

\* readMcpConfig, and startStdioServer in stdio mode: without a project known for
\* sure the MCP server does not start.
McpStarts(s) ==
    /\ WellFormed(s.mcp, s.production)
    /\ s.mode = "stdio" => Knows(s.mcp, s.key)

StartMcp ==
    /\ setting = NotStarted
    /\ \E s \in McpSettings : McpStarts(s) /\ setting' = s
    /\ UNCHANGED <<toolCall, wire, effects>>

\* core-api reads its own API_KEYS; if it did not start, nothing listens.
CoreListens == WellFormed(setting.core, setting.production)

Answer(c, outcome) == toolCall' = [toolCall EXCEPT ![c].pc = "answered", ![c].answer = outcome]

\* A call at the HTTP server: a server of its own for it, with the project and
\* the key of its header.  A request elsewhere is no call: 404.
\* In stdio mode all calls are of the key the process started with.
Session(key) ==
    [NoToolCall EXCEPT !.key = IF setting.mode = "stdio" THEN setting.key ELSE key,
                       !.project = ParseApiKeys(setting.mcp)[
                           IF setting.mode = "stdio" THEN setting.key ELSE key]]

Unauthorized(c) ==
    /\ setting.mode = "http"
    /\ toolCall[c].pc = "none"
    /\ \E key \in ApiKeys \cup {NoKey} :
          /\ ~Knows(setting.mcp, key)
          /\ toolCall' = [toolCall EXCEPT ![c] =
                 [NoToolCall EXCEPT !.pc = "answered", !.key = key, !.answer = "unauthorized"]]
    /\ UNCHANGED <<setting, wire, effects>>

\* The handler, up to its request.
CallTool(c) ==
    /\ setting # NotStarted
    /\ toolCall[c].pc = "none"
    /\ \E key \in IF setting.mode = "stdio" THEN {setting.key} ELSE ApiKeys, tool \in Tools,
          arguments \in [Fields -> FieldTexts] :
          /\ Knows(setting.mcp, key)
          /\ tool # "record_knowledge" => arguments = [s \in Fields |-> "text"]
          /\ toolCall' = [toolCall EXCEPT ![c] =
                 IF tool = "record_knowledge" /\ ~Fits(arguments)
                 THEN [Session(key) EXCEPT !.tool = tool, !.pc = "answered",
                                           !.answer = "arguments"]
                 ELSE IF UnsafeRead(RequestOf[tool])
                 THEN [Session(key) EXCEPT !.tool = tool, !.pc = "answered", !.answer = "unsafe"]
                 ELSE [Session(key) EXCEPT !.tool = tool, !.pc = "sending", !.attempt = 1]]
    /\ UNCHANGED <<setting, wire, effects>>

-----------------------------------------------------------------------------
(* Requests                                                                *)

\* attempt: a request leaves, with a time limit of its own.
SendRequest(c) ==
    /\ toolCall[c].pc = "sending"
    /\ wire' = [wire EXCEPT ![c] = Append(@, "sent")]
    /\ toolCall' = [toolCall EXCEPT ![c].pc = "waiting"]
    /\ UNCHANGED <<setting, effects>>

\* core-api takes a request: unknown keys are refused before anything else, a
\* failure may come before or after it has acted.
Handle(c, i) ==
    /\ wire[c][i] = "sent"
    /\ CoreListens
    /\ IF ~Knows(setting.core, toolCall[c].key)
       THEN wire' = [wire EXCEPT ![c][i] = "refused"] /\ UNCHANGED effects
       ELSE \E status \in {"ok", "refused", "busy", "failed"}, acted \in BOOLEAN :
          /\ acted => Acts(toolCall[c].tool) /\ status \in {"ok", "failed"}
          /\ status = "ok" => acted = Acts(toolCall[c].tool)
          /\ wire' = [wire EXCEPT ![c][i] = status]
          /\ effects' = IF acted
                 THEN [effects EXCEPT ![c] =
                          Append(@, ParseApiKeys(setting.core)[toolCall[c].key])]
                 ELSE effects
    /\ UNCHANGED <<setting, toolCall>>

\* The request, or its reply, never arrives.
Lose(c, i) ==
    /\ wire[c][i] # "lost"
    /\ wire' = [wire EXCEPT ![c][i] = "lost"]
    /\ UNCHANGED <<setting, toolCall, effects>>

\* The catch of send: what may be tried again is, after a backoff.
FailedAttempt(c, outcome) ==
    IF toolCall[c].attempt < Limit(toolCall[c].tool)
    THEN toolCall' = [toolCall EXCEPT ![c].pc = "backoff"]
    ELSE Answer(c, outcome)

\* No response: the connection failed or the time is up.  The request stays
\* where it is.
Unreachable(c) ==
    /\ toolCall[c].pc = "waiting"
    /\ FailedAttempt(c, "unreachable")
    /\ UNCHANGED <<setting, wire, effects>>

\* A response: only that of the last attempt is read.  Its body may break off
\* or not fit the contract, and neither is tried again.
Receive(c) ==
    LET response == wire[c][toolCall[c].attempt] IN
    /\ toolCall[c].pc = "waiting"
    /\ response \in {"ok", "refused", "busy", "failed"}
    /\ \/ Answer(c, "internal")
       \/ /\ response = "ok"
          /\ toolCall' = [toolCall EXCEPT
                 ![c].pc = "answered", ![c].answer = "ok",
                 ![c].warned = /\ toolCall[c].tool = "record_knowledge"
                               /\ effects[c] # <<toolCall[c].project>>]
       \/ response = "refused" /\ Answer(c, "refused")
       \/ response \in {"busy", "failed"} /\ FailedAttempt(c, "error")
    /\ UNCHANGED <<setting, wire, effects>>

\* The backoff is over.
Retry(c) ==
    /\ toolCall[c].pc = "backoff"
    /\ toolCall' = [toolCall EXCEPT ![c].pc = "sending", ![c].attempt = @ + 1]
    /\ UNCHANGED <<setting, wire, effects>>

ToolCallsNext ==
    \/ StartMcp
    \/ \E c \in Calls :
          \/ Unauthorized(c) \/ CallTool(c) \/ SendRequest(c) \/ Unreachable(c)
          \/ Receive(c) \/ Retry(c)
          \/ \E i \in 1 .. Len(wire[c]) : Handle(c, i) \/ Lose(c, i)

ToolCallsSpec == ToolCallsInit /\ [][ToolCallsNext]_callVars

-----------------------------------------------------------------------------
(* Properties.                                                             *)

\* core-api-client.ts: a timeout means that the outcome is not known.  Whatever
\* is lost, late or answered with a failure, one call leaves at most one record,
\* judgement or paid answer, exactly one if it was told of success, and none if
\* it was refused; and a record that is not warned of is in the session's project.
WritesHappenOnce ==
    \A c \in Calls :
        /\ Len(effects[c]) <= 1
        /\ toolCall[c].answer = "ok" /\ Acts(toolCall[c].tool) => Len(effects[c]) = 1
        /\ toolCall[c].answer \in {"refused", "arguments", "unauthorized"} => effects[c] = << >>
        /\ toolCall[c].tool = "record_knowledge" /\ toolCall[c].answer = "ok"
               /\ ~toolCall[c].warned => effects[c] = <<toolCall[c].project>>
=============================================================================
