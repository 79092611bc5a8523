------------------------------ MODULE GraphCalls ------------------------------
(***************************************************************************)
(* graph/retry.rs and what goes through it: the mutations of a write tool, *)
(* the page walk of a read and the rounds of a $batch, each under the      *)
(* budget of its tool call, all behind the one gate of GraphGate.          *)
(*                                                                         *)
(* The answer to a request is one of a few kinds, and a request may have   *)
(* been carried out whatever became of its answer. Time is the deadline of *)
(* the call, which passes at any moment. A token is what access_token()    *)
(* answers, at once or after a while (TokenProvider).                      *)
(***************************************************************************)
EXTENDS GraphGate

CONSTANTS MaxAttempts,   \* TODO_MCP_MAX_ATTEMPTS
          MaxPages,      \* TODO_MCP_MAX_PAGES
          MaxItems       \* bound on the mutations of one call

ASSUME AttemptsAssumption == MaxAttempts \in Nat \ {0}
ASSUME PagesAssumption    == MaxPages \in Nat \ {0}
ASSUME ItemsAssumption    == MaxItems \in Nat \ {0}

VARIABLES pc,        \* where each tool call is
          call,      \* what it knows
          preferTz   \* is Prefer: outlook.timezone still sent?

vars == <<available, gate, pc, call, preferTz>>

(***************************************************************************)
(* `tool`: a write sends its `todo` mutations, a read walks pages, a batch *)
(* sends rounds. `left`: Budget::requests_left. `done`: pages read, or     *)
(* rounds begun. `lost`: history of a mutation that is not idempotent, did *)
(* Graph carry it out and then fail to answer, or answer 500 or 502?       *)
(***************************************************************************)
Tool   == {"write", "read", "batch"}
Method == {"GET", "DELETE", "POST"}      \* PATCH is treated as POST is
Result == {"none", "complete", "partial", "failed", "exhausted"}

Call == [tool: Tool, method: Method, expired: BOOLEAN, todo: Nat, left: Nat,
         done: Nat, attempt: Nat, auth_retried: BOOLEAN,
         lost: BOOLEAN, result: Result]

NoCall == [tool |-> "read", method |-> "GET", expired |-> FALSE, todo |-> 0,
           left |-> 0, done |-> 0, attempt |-> 0, auth_retried |-> FALSE,
           lost |-> FALSE, result |-> "none"]

PC == {"idle", "next", "send", "gate", "notify", "answered", "finish"}

Init ==
  /\ GateInit
  /\ pc = [w \in Worker |-> "idle"]
  /\ call = [w \in Worker |-> NoCall]
  /\ preferTz \in BOOLEAN

Goto(w, from, to) == pc[w] = from /\ pc' = [pc EXCEPT ![w] = to]

--------------------------------------------------------------------------------
(***************************************************************************)
(* Budgets: for_tool, for_writes.                                          *)
(***************************************************************************)
\* Wrong: the attempts of every mutation, and nothing for a 401.
NoReRead(n) == n * MaxAttempts

ForWrites(n) == n * (MaxAttempts + 1)

BeginWrite(w) ==
  /\ Goto(w, "idle", "next")
  /\ \E n \in 1 .. MaxItems, m \in Method \ {"GET"} :
       call' = [call EXCEPT ![w] = [NoCall EXCEPT !.tool = "write", !.method = m,
                                                  !.todo = n, !.left = ForWrites(n)]]
  /\ UNCHANGED <<gateVars, preferTz>>

BeginRead(w) ==
  /\ Goto(w, "idle", "next")
  /\ \E batch \in BOOLEAN :
       call' = [call EXCEPT ![w] =
                 [NoCall EXCEPT !.tool = IF batch THEN "batch" ELSE "read",
                                !.method = IF batch THEN "POST" ELSE "GET",
                                !.left = MaxPages]]
  /\ UNCHANGED <<gateVars, preferTz>>

\* What the loops around send know between two requests.
Between(c) == [NoCall EXCEPT !.tool = c.tool, !.method = c.method, !.expired = c.expired,
                             !.todo = c.todo, !.left = c.left, !.done = c.done]

\* The walk or the batch is over: its result goes back to the tool.
Ends(w, from, result) ==
  /\ Goto(w, from, "finish")
  /\ call' = [call EXCEPT ![w] = [NoCall EXCEPT !.tool = call[w].tool, !.result = result]]

Finish(w) ==
  /\ Goto(w, "finish", "idle")
  /\ call' = [call EXCEPT ![w] = NoCall]
  /\ UNCHANGED <<gateVars, preferTz>>

--------------------------------------------------------------------------------
(***************************************************************************)
(* The loops around send: one mutation after the other, get_collection,    *)
(* batch_get.                                                              *)
(***************************************************************************)
MutationOver(w, from) ==
  /\ Goto(w, from, "next")
  /\ call' = [call EXCEPT ![w] = [Between(call[w]) EXCEPT !.todo = @ - 1]]

\* A target that was not found, is refused or needs no request, a checklist
\* item of a task that was not created; and all the rest after the deadline.
SkipMutation(w) ==
  /\ call[w].tool = "write" /\ call[w].todo > 0
  /\ MutationOver(w, "next")
  /\ UNCHANGED <<gateVars, preferTz>>

NextMutation(w) ==
  /\ call[w].tool = "write" /\ call[w].todo > 0
  /\ ~call[w].expired
  /\ Goto(w, "next", "send")
  /\ UNCHANGED <<gateVars, call, preferTz>>

WritesEnd(w) ==
  /\ call[w].tool = "write" /\ call[w].todo = 0
  /\ Ends(w, "next", "complete")
  /\ UNCHANGED <<gateVars, preferTz>>

\* MaxPages is the budget of the call, and max_pages of each walk.
NextPage(w) ==
  /\ call[w].tool = "read"
  /\ call[w].done < MaxPages /\ ~call[w].expired /\ call[w].left > 0
  /\ Goto(w, "next", "send")
  /\ UNCHANGED <<gateVars, call, preferTz>>

WalkStops(w) ==
  /\ call[w].tool = "read"
  /\ call[w].done = MaxPages \/ call[w].expired \/ call[w].left = 0
  /\ Ends(w, "next", "partial")
  /\ UNCHANGED <<gateVars, preferTz>>

NextRound(w) ==
  /\ call[w].tool = "batch"
  /\ Goto(w, "next", "send")
  /\ call' = [call EXCEPT ![w].done = @ + 1]
  /\ UNCHANGED <<gateVars, preferTz>>

--------------------------------------------------------------------------------
(***************************************************************************)
(* GraphClient::send. An error goes back to the loop that sent: a mutation *)
(* has failed, a walk or a batch is over.                                  *)
(***************************************************************************)
Fails(w, from, result) ==
  \/ call[w].tool = "write" /\ MutationOver(w, from)
  \/ call[w].tool # "write" /\ Ends(w, from, result)

SendExpired(w) ==
  /\ call[w].expired
  /\ Fails(w, "send", "failed")
  /\ UNCHANGED <<gateVars, preferTz>>

\* take_request says no.
SendExhausted(w) ==
  /\ ~call[w].expired /\ call[w].left = 0
  /\ Fails(w, "send", "exhausted")
  /\ UNCHANGED <<gateVars, preferTz>>

TakeRequest(w) ==
  /\ ~call[w].expired /\ call[w].left > 0
  /\ Goto(w, "send", "gate")
  /\ call' = [call EXCEPT ![w].left = @ - 1, ![w].attempt = @ + 1]
  /\ UNCHANGED <<gateVars, preferTz>>

\* access_token() fails: the request it was taken for is spent.
TokenRefused(w) ==
  /\ gate[w] = "out"
  /\ Fails(w, "gate", "failed")
  /\ UNCHANGED <<gateVars, preferTz>>

\* acquire_timeout(budget.remaining()).
GateTake(w) == pc[w] = "gate" /\ Take(w) /\ UNCHANGED <<pc, call, preferTz>>

\* Wrong: a thread that was woken too late waits again.
WaitOn(w) ==
  /\ pc[w] = "gate" /\ Wait(w)
  /\ UNCHANGED <<pc, call, preferTz>>

GateWait(w) ==
  /\ pc[w] = "gate" /\ Wait(w)
  /\ ~call[w].expired
  /\ UNCHANGED <<pc, call, preferTz>>

GateWake(w) == pc[w] = "gate" /\ Wake(w) /\ UNCHANGED <<pc, call, preferTz>>

\* Wrong: a thread gives up in its sleep, and stays on the list of waiters.
GivesUpAsleep(w) ==
  /\ call[w].expired /\ gate[w] \in {"out", "waiting"} /\ available = 0
  /\ Fails(w, "gate", "failed")
  /\ UNCHANGED <<gateVars, preferTz>>

GateGivesUp(w) ==
  /\ call[w].expired /\ GiveUp(w)
  /\ Fails(w, "gate", "failed")
  /\ UNCHANGED preferTz

\* transport.send, and the drop of the permit that ends its block.
Exchange(w) ==
  /\ Drop(w)
  /\ Goto(w, "gate", "notify")
  /\ UNCHANGED <<call, preferTz>>

PermitDropped(w) ==
  /\ Notify(w)
  /\ Goto(w, "notify", "answered")
  /\ UNCHANGED <<call, preferTz>>

--------------------------------------------------------------------------------
(***************************************************************************)
(* The answer: 2xx, 401, 429, 503 or 504, 500 or 502 or none ("broken"),   *)
(* 400, or any other status and an answer too long to read ("refused"). Of *)
(* a gateway's and a broken one it cannot be told whether Graph has        *)
(* carried the request out.                                                *)
(***************************************************************************)
IsIdempotent(m) == m \in {"GET", "DELETE"}

Outcomes ==
  [answer: {"gateway", "broken"}, applied: BOOLEAN]
    \cup [answer: {"unauthorized", "busy", "badRequest", "refused"}, applied: {FALSE}]

After(c, o) ==
  [c EXCEPT !.lost = @ \/ /\ c.tool = "write" /\ ~IsIdempotent(c.method)
                          /\ o.applied /\ o.answer = "broken"]

\* The first 401 of a send: invalidate, and again.
Unauthorized(w) ==
  /\ ~call[w].auth_retried
  /\ Goto(w, "answered", "send")
  /\ call' = [call EXCEPT ![w].auth_retried = TRUE, ![w].attempt = @ - 1]
  /\ UNCHANGED <<gateVars, preferTz>>

\* Wrong: 500 and 502 are retried like 503 and 504.
RetryableForAll(answer, m) == answer \in {"busy", "gateway", "broken"}

\* `retryable` of a status, and the same for a transport failure.
Retryable(answer, m) ==
  \/ answer \in {"busy", "gateway"}
  \/ answer = "broken" /\ IsIdempotent(m)

TriesAgain(c, o) == Retryable(o.answer, c.method) /\ c.attempt < MaxAttempts

\* The wait is slept with nothing held; or it is longer than what is left.
Retried(w) ==
  /\ Goto(w, "answered", "send")
  /\ \E o \in Outcomes :
       TriesAgain(call[w], o) /\ call' = [call EXCEPT ![w] = After(@, o)]
  /\ UNCHANGED <<gateVars, preferTz>>

WaitTooLong(w) ==
  /\ \E o \in Outcomes : TriesAgain(call[w], o)
  /\ Fails(w, "answered", "failed")
  /\ UNCHANGED <<gateVars, preferTz>>

\* send_get: the first 400 of the process on a read drops the preference.
DegradesOn(c, o) == o.answer = "badRequest" /\ c.method = "GET" /\ preferTz

PreferDropped(w) ==
  /\ Goto(w, "answered", "send")
  /\ \E o \in Outcomes : DegradesOn(call[w], o)
  /\ preferTz' = FALSE
  /\ call' = [call EXCEPT ![w] = Between(@)]
  /\ UNCHANGED gateVars

SendFails(w) ==
  /\ \E o \in Outcomes :
       /\ ~TriesAgain(call[w], o) /\ ~DegradesOn(call[w], o)
       /\ o.answer = "unauthorized" => call[w].auth_retried
  /\ Fails(w, "answered", "failed")
  /\ UNCHANGED <<gateVars, preferTz>>

(***************************************************************************)
(* A 2xx: the mutation is done; the page has a nextLink, is the last, or   *)
(* cannot be used; the batch holds sub-requests that were throttled, which *)
(* are retried alone unless that takes too long.                           *)
(***************************************************************************)
MutationDone(w) ==
  /\ call[w].tool = "write"
  /\ MutationOver(w, "answered")
  /\ UNCHANGED <<gateVars, preferTz>>

PageHasNext(w) ==
  /\ call[w].tool = "read"
  /\ Goto(w, "answered", "next")
  /\ call' = [call EXCEPT ![w] = [Between(call[w]) EXCEPT !.done = @ + 1]]
  /\ UNCHANGED <<gateVars, preferTz>>

LastPage(w) ==
  /\ call[w].tool = "read"
  /\ \E r \in {"complete", "failed"} : Ends(w, "answered", r)
  /\ UNCHANGED <<gateVars, preferTz>>

BatchAnswered(w) ==
  /\ call[w].tool = "batch"
  /\ Ends(w, "answered", "complete")
  /\ UNCHANGED <<gateVars, preferTz>>

SubsThrottled(w) ==
  /\ call[w].tool = "batch"
  /\ call[w].done < MaxAttempts
  /\ Goto(w, "answered", "next")
  /\ call' = [call EXCEPT ![w] = Between(@)]
  /\ UNCHANGED <<gateVars, preferTz>>

--------------------------------------------------------------------------------
DeadlinePasses(w) ==
  /\ pc[w] \notin {"idle", "finish"} /\ ~call[w].expired
  /\ call' = [call EXCEPT ![w].expired = TRUE]
  /\ UNCHANGED <<gateVars, pc, preferTz>>

Proceed(w) ==
  \/ SkipMutation(w) \/ NextMutation(w) \/ WritesEnd(w)
  \/ NextPage(w) \/ WalkStops(w) \/ NextRound(w)
  \/ SendExpired(w) \/ SendExhausted(w) \/ TakeRequest(w) \/ TokenRefused(w)
  \/ GateTake(w) \/ GateWait(w) \/ GateGivesUp(w) \/ Exchange(w) \/ PermitDropped(w)
  \/ Unauthorized(w) \/ Retried(w) \/ WaitTooLong(w) \/ PreferDropped(w) \/ SendFails(w)
  \/ MutationDone(w) \/ PageHasNext(w) \/ LastPage(w)
  \/ BatchAnswered(w) \/ SubsThrottled(w) \/ Finish(w)

Next ==
  \E w \in Worker :
    \/ BeginWrite(w) \/ BeginRead(w)
    \/ Proceed(w) \/ GateWake(w) \/ DeadlinePasses(w)

Spec == Init /\ [][Next]_vars

(***************************************************************************)
(* The scheduler runs every thread, the deadline of a call passes, a wait  *)
(* times out when it has, and a request ends within timeout_global.        *)
(***************************************************************************)
Fairness ==
  \A w \in Worker :
    /\ WF_vars(Proceed(w))
    /\ WF_vars(DeadlinePasses(w))
    /\ WF_vars(call[w].expired /\ GateWake(w))

FairSpec == Spec /\ Fairness

--------------------------------------------------------------------------------
TypeOK ==
  /\ GateTypeOK
  /\ pc \in [Worker -> PC]
  /\ call \in [Worker -> Call]
  /\ preferTz \in BOOLEAN
  /\ \A w \in Worker :
       /\ gate[w] = "dropping" <=> pc[w] = "notify"
       /\ pc[w] \notin {"gate", "notify"} => gate[w] = "out"

(***************************************************************************)
(* graph/mod.rs on for_writes: "this allowance never stops a mutation      *)
(* retry.rs would have sent", whatever the mutations before it have spent. *)
(***************************************************************************)
AllowanceStopsNoMutation ==
  \A w \in Worker : call[w].tool = "write" /\ pc[w] = "send" => call[w].left > 0

(***************************************************************************)
(* graph/mod.rs on is_idempotent: "A retried `POST /tasks` that actually   *)
(* succeeded creates a duplicate". A POST or a PATCH that Graph has        *)
(* carried out is not sent again unless it answered 503 or 504.            *)
(***************************************************************************)
OnlyGatewaysRepeat ==
  \A w \in Worker : pc[w] \in {"send", "gate", "notify"} => ~call[w].lost

(***************************************************************************)
(* Every tool call ends, though all of them share the gate and any of them *)
(* may be overtaken at it.                                                 *)
(***************************************************************************)
CallsEnd == \A w \in Worker : pc[w] # "idle" ~> pc[w] = "idle"
================================================================================
