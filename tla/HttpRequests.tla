----------------------------- MODULE HttpRequests -----------------------------
(***************************************************************************)
(* One HTTP request from its arrival to its response: the guards of http.rs *)
(* in their order, then mcp.rs, message by message. What a tool does is    *)
(* the business of the other modules; here a call of one succeeds, is      *)
(* unknown, or panics, and may have had its effect before it does.         *)
(*                                                                         *)
(* A request is [method, path, auth, origin, host, body]. Its body is a    *)
(* record [is, of]: "unreadable", "large", "blank", "garbage", a "single"  *)
(* message or a "batch", of being the sequence of the messages. A message  *)
(* is a number, its id, with its kind: kinds[id] of the request.           *)
(***************************************************************************)
EXTENDS Sequences, Integers, FiniteSets

CONSTANTS
  Arrivals,      \* the requests that may arrive
  Bearer,        \* the expected bearer, as its file has it
  BindHost,      \* the address served, "any" when unspecified
  ExtraHosts     \* MCP_ALLOWED_HOSTS

VARIABLES
  request,       \* the request being handled
  messages,      \* what of it is still to be handled
  responses,     \* JSON-RPC responses so far, [id, answer]
  reply,         \* the HTTP response, [status, body], or NoReply
  panicked       \* history: whether a tool panicked

requestVars == <<request, messages, responses, reply, panicked>>

NoRequest == [method |-> "none"]
NoReply   == [status |-> 0, body |-> <<>>]
NullId    == 0

\* A body has messages, each of one of the kinds that mcp.rs tells apart.
ASSUME ArrivalsAssumption ==
  \A r \in Arrivals :
    /\ r.method # "none"
    /\ r.body.of \in Seq([id : Nat, kind : {"notObject", "notification", "notificationCall", "clientResponse",
                                          "ping", "unknownMethod", "callNoName", "call"}])
    /\ r.body.is = "single" => Len(r.body.of) = 1

Reply(status, body) == reply' = [status |-> status, body |-> body]

--------------------------------------------------------------------------------
(***************************************************************************)
(* The guards. A header that is absent is "absent".                        *)
(***************************************************************************)
Loopback     == {"localhost", "127.0.0.1", "[::1]"}
AllowedHosts == Loopback \cup ExtraHosts \cup ({BindHost} \ {"any"})

BearerOk(auth) == auth = [scheme |-> "Bearer", token |-> Bearer] /\ Bearer # "empty"

OriginAllowed(origin, host) ==
  \/ origin = "absent"
  \/ origin \notin {"null", "unparsable"} /\ (origin \in Loopback \/ origin = host)

HostAllowed(host) == host \in AllowedHosts

\* The status a request ends with at once; 0 when it goes on to mcp.rs.
Refusal(r) ==
  IF r.path \notin {"/healthz", "/mcp"} \/ (r.path = "/healthz" /\ r.method # "GET") THEN 404
  ELSE IF r.path = "/healthz"              THEN 200
  ELSE IF r.method # "POST"                THEN 405
  ELSE IF ~BearerOk(r.auth)                THEN 401
  ELSE IF ~OriginAllowed(r.origin, r.host) THEN 403
  ELSE IF ~HostAllowed(r.host)             THEN 403
  ELSE IF r.body.is = "unreadable"         THEN 400
  ELSE IF r.body.is = "large"              THEN 413
  ELSE 0

Arrive ==
  /\ request = NoRequest
  /\ request' \in Arrivals
  /\ messages' = request'.body.of
  /\ responses' = <<>> /\ panicked' = FALSE
  /\ UNCHANGED reply

Guards ==
  /\ request # NoRequest /\ reply = NoReply
  /\ Refusal(request) # 0
  /\ Reply(Refusal(request), <<>>)
  /\ UNCHANGED <<request, messages, responses, panicked>>

--------------------------------------------------------------------------------
(***************************************************************************)
(* McpServer: handle_message and handle_value.                             *)
(***************************************************************************)
Respond(id, answer) == responses' = Append(responses, [id |-> id, answer |-> answer])

InMcp == request # NoRequest /\ reply = NoReply /\ Refusal(request) = 0

\* A blank message, one that is no JSON, and a batch of nothing.
NoMessage ==
  /\ InMcp /\ request.body.of = <<>>
  /\ IF request.body.is = "blank" THEN Reply(202, <<>>)
     ELSE Reply(200, <<[id |-> NullId, answer |-> IF request.body.is = "garbage" THEN -32700 ELSE -32600]>>)
  /\ UNCHANGED <<request, messages, responses, panicked>>

\* What is answered without a tool being run.
Answer(kind) ==
  CASE kind = "unknownMethod" -> -32601
    [] kind = "callNoName"    -> -32602
    [] kind = "ping"          -> 0

Silent == {"notification", "notificationCall", "clientResponse"}

\* Wrong: a message with nothing to say ends the batch.
HandleUntilSilent ==
  /\ InMcp /\ messages # <<>>
  /\ LET m == Head(messages) IN
     /\ m.kind # "call"
     /\ messages' = IF m.kind \in Silent THEN <<>> ELSE Tail(messages)
     /\ CASE m.kind = "notObject" -> Respond(NullId, -32600)
          [] m.kind \in Silent    -> UNCHANGED responses
          [] OTHER                -> Respond(m.id, Answer(m.kind))
  /\ UNCHANGED <<request, reply, panicked>>

HandleValue ==
  /\ InMcp /\ messages # <<>>
  /\ LET m == Head(messages) IN
     /\ m.kind # "call"
     /\ messages' = Tail(messages)
     /\ CASE m.kind = "notObject" -> Respond(NullId, -32600)
          [] m.kind \in Silent    -> UNCHANGED responses
          [] OTHER                -> Respond(m.id, Answer(m.kind))
  /\ UNCHANGED <<request, reply, panicked>>

\* A tool runs and says what came of it, or there is no such tool.
CallTool ==
  /\ InMcp /\ messages # <<>>
  /\ LET m == Head(messages) IN
     /\ m.kind = "call"
     /\ messages' = Tail(messages)
     /\ \E answer \in {0, -32602} : Respond(m.id, answer)
  /\ UNCHANGED <<request, reply, panicked>>

\* A tool panics: catch_unwind is around the whole message, and only a single
\* one has an id at its top.
ToolPanics ==
  /\ InMcp /\ messages # <<>>
  /\ LET m == Head(messages) IN
     /\ m.kind = "call"
     /\ Reply(200, <<[id |-> IF request.body.is = "single" THEN m.id ELSE NullId, answer |-> -32603]>>)
  /\ panicked' = TRUE
  /\ UNCHANGED <<request, messages, responses>>

\* Notifications only: accepted, nothing to say.
HandleMessage ==
  /\ InMcp /\ request.body.of # <<>> /\ messages = <<>>
  /\ IF responses = <<>> THEN Reply(202, <<>>) ELSE Reply(200, responses)
  /\ UNCHANGED <<request, messages, responses, panicked>>

\* The response is on its way; the worker looks for another request.
Answered ==
  /\ reply # NoReply
  /\ request' = NoRequest /\ reply' = NoReply /\ messages' = <<>> /\ responses' = <<>>
  /\ panicked' = FALSE

--------------------------------------------------------------------------------
RequestInit ==
  /\ request = NoRequest /\ messages = <<>> /\ responses = <<>>
  /\ reply = NoReply /\ panicked = FALSE

RequestNext ==
  Arrive \/ Guards \/ NoMessage \/ HandleValue \/ CallTool \/ ToolPanics \/ HandleMessage \/ Answered

RequestSpec == RequestInit /\ [][RequestNext]_requestVars

--------------------------------------------------------------------------------
IdOf(m) == IF m.kind = "notObject" THEN NullId ELSE m.id

\* Of the first n messages, those that have a method and an id, or are none at all.
Answerable(of, n) == {i \in 1 .. n : of[i].kind \notin Silent}

(***************************************************************************)
(* Every message of a request that can be answered is answered, once, in   *)
(* the order of the messages and under its own id, whatever stands between *)
(* them, and none that has no id or no method is. If a tool panics, that   *)
(* is the one answer of the request, and a single call still gets its own. *)
(***************************************************************************)
MessagesAreAnswered ==
  reply.status \in {200, 202} /\ request.path = "/mcp" /\ request.body.of # <<>> =>
    LET of  == request.body.of
        due == Answerable(of, Len(of))
    IN  /\ Len(reply.body) = IF panicked THEN 1 ELSE Cardinality(due)
        /\ ~panicked \/ request.body.is = "single" =>
             \A i \in due : reply.body[Cardinality(Answerable(of, i))].id = IdOf(of[i])
================================================================================
