------------------------------- MODULE TaskCache -------------------------------
(***************************************************************************)
(* server.rs: the task cache that every tool call of the server shares,    *)
(* the single-flight `refill` mutex under which calls fill it from Graph,  *)
(* the writes that invalidate it and the logins that replace the account   *)
(* under it.                                                               *)
(*                                                                         *)
(* One action is one section under the cache's lock, one request to Graph, *)
(* or one acquisition of the token; the worker threads of the HTTP server  *)
(* interleave between them. The token provider is the one SECURITY.md      *)
(* describes: it notices a login whenever it is asked for a token, so its  *)
(* epoch is the number of the login it has noticed (TokenProvider.tla says *)
(* where the code falls short of that).                                    *)
(*                                                                         *)
(* What a list holds is the number of changes this server has made to it   *)
(* so far; data is stale when it misses a change. A list longer than a     *)
(* page is as old as its first page. Which lists a put evicts is any set   *)
(* of others here.                                                         *)
(***************************************************************************)
EXTENDS Integers, FiniteSets

CONSTANTS
  Worker,      \* threads that run tool calls
  List,        \* the task lists of an account
  Long,        \* those longer than one page
  ChunkMax,    \* BATCH_MAX
  MaxLogins,   \* bound on the accounts signed in, one after the other
  MaxChanges,  \* bound on the changes made to a list
  Nobody

ASSUME LongAssumption == Long \subseteq List
ASSUME ChunkAssumption == ChunkMax \in Nat \ {0}
ASSUME LoginsAssumption == MaxLogins \in Nat \ {0}
ASSUME NobodyAssumption == Nobody \notin Worker

Login == 1 .. MaxLogins
Id    == Login \X List      \* two accounts share no list id
Of(a) == {a} \X List

VARIABLES
  login,       \* the login token.json belongs to
  seen,        \* the login the provider has noticed: its epoch
  changes,     \* Graph: the changes made to each list
  reported,    \* those a tool has reported as made, or as of unknown outcome
  cacheEpoch, mailbox, generation, catalogue, entries,   \* ServerState, Cache
  refill,      \* who holds the mutex
  pc, job

graph == <<login, changes, reported>>
cache == <<mailbox, generation, catalogue, entries>>
vars  == <<graph, seen, cacheEpoch, cache, refill, pc, job>>

(***************************************************************************)
(* ListTasks: whether the page walk finished, whether the TTL has passed.  *)
(***************************************************************************)
NoEntry == [state |-> "none", fresh |-> FALSE, version |-> 0]

Unlabelled == 0      \* mbx_pending
NoCatalogue == [lists |-> 0, fresh |-> FALSE]

(***************************************************************************)
(* What a tool call knows. `lists`: the account of the catalogue it works  *)
(* on. `got`: what Graph answered for the chunk. `walk`: the lists whose   *)
(* first page came in a batch and has a nextLink, with the generation of   *)
(* that batch.                                                             *)
(***************************************************************************)
NoJob == [tool |-> "none", epoch |-> 0, lists |-> 0, target |-> {},
          batched |-> TRUE, todo |-> {}, chunk |-> {}, tok |-> 0, gen |-> 0,
          got |-> {}, walk |-> {}, stopped |-> FALSE, change |-> 0]

Tools == {"sync", "one", "write"}

Goto(w, from, to) == pc[w] = from /\ pc' = [pc EXCEPT ![w] = to]

--------------------------------------------------------------------------------
(***************************************************************************)
(* dispatch: observe_token.                                                *)
(***************************************************************************)
Begin(w) ==
  /\ Goto(w, "idle", "observe")
  /\ \E tool \in Tools : job' = [job EXCEPT ![w] = [NoJob EXCEPT !.tool = tool]]
  /\ UNCHANGED <<graph, seen, cacheEpoch, cache, refill>>

ObserveToken(w) ==
  /\ Goto(w, "observe", "swap")
  /\ seen' = login
  /\ job' = [job EXCEPT ![w].epoch = login]
  /\ UNCHANGED <<graph, cacheEpoch, cache, refill>>

SwapEpoch(w) ==
  /\ Goto(w, "swap", IF cacheEpoch # job[w].epoch THEN "reset" ELSE "catalogue")
  /\ cacheEpoch' = job[w].epoch
  /\ job' = [job EXCEPT ![w].epoch = 0]
  /\ UNCHANGED <<graph, seen, cache, refill>>

\* Wrong: the cache is emptied, and what is on its way to it is let in.
ResetSameGeneration(label) ==
  /\ entries' = [id \in Id |-> NoEntry]
  /\ catalogue' = NoCatalogue
  /\ mailbox' = label
  /\ UNCHANGED generation

\* reset_preserving_mailbox_id, and the label set after it.
Reset(label) ==
  /\ entries' = [id \in Id |-> NoEntry]
  /\ catalogue' = NoCatalogue
  /\ mailbox' = label
  /\ generation' = generation + 1

ResetCache(w) ==
  /\ Goto(w, "reset", "catalogue")
  /\ Reset(Unlabelled)
  /\ UNCHANGED <<graph, seen, cacheEpoch, refill, job>>

--------------------------------------------------------------------------------
(***************************************************************************)
(* ServerState::catalogue.                                                 *)
(***************************************************************************)
\* What the call goes on to: which lists it reads, or changes.
Work(w, lists) ==
  /\ pc' = [pc EXCEPT ![w] = IF job[w].tool = "write" THEN "mutate" ELSE "read"]
  /\ \E l \in List :
       job' = [job EXCEPT ![w] = [NoJob EXCEPT
                 !.tool = job[w].tool, !.lists = lists,
                 !.batched = (job[w].tool = "sync"),
                 !.target = IF job[w].tool = "sync" THEN Of(lists) ELSE {<<lists, l>>}]]

CatalogueHit(w) ==
  /\ pc[w] = "catalogue"
  /\ catalogue.fresh
  /\ Work(w, catalogue.lists)
  /\ UNCHANGED <<graph, seen, cacheEpoch, cache, refill>>

CatalogueMiss(w) ==
  /\ ~catalogue.fresh
  /\ Goto(w, "catalogue", "awaitCatalogue")
  /\ UNCHANGED <<graph, seen, cacheEpoch, cache, refill, job>>

\* The mutex is free: somebody may have filled the catalogue meanwhile.
CatalogueFilled(w) ==
  /\ pc[w] = "awaitCatalogue" /\ refill = Nobody
  /\ catalogue.fresh
  /\ Work(w, catalogue.lists)
  /\ UNCHANGED <<graph, seen, cacheEpoch, cache, refill>>

FetchCatalogue(w) ==
  /\ refill = Nobody
  /\ ~catalogue.fresh
  /\ Goto(w, "awaitCatalogue", "catalogueToken")
  /\ refill' = w
  /\ job' = [job EXCEPT ![w].gen = generation]
  /\ UNCHANGED <<graph, seen, cacheEpoch, cache>>

CatalogueToken(w) ==
  /\ Goto(w, "catalogueToken", "catalogueArrives")
  /\ seen' = login
  /\ job' = [job EXCEPT ![w].tok = login]
  /\ UNCHANGED <<graph, cacheEpoch, cache, refill>>

\* put_catalogue: another mailbox resets the cache, lists that vanished go.
CatalogueArrives(w) ==
  LET a == job[w].tok IN
  /\ pc[w] = "catalogueArrives"
  /\ IF job[w].gen = generation
     THEN /\ generation' = IF mailbox # a THEN generation + 1 ELSE generation
          /\ entries' = [id \in Id |-> IF mailbox = a /\ id \in Of(a) THEN entries[id]
                                       ELSE NoEntry]
          /\ catalogue' = [lists |-> a, fresh |-> TRUE]
          /\ mailbox' = a
     ELSE UNCHANGED cache
  /\ refill' = Nobody
  /\ Work(w, a)
  /\ UNCHANGED <<graph, seen, cacheEpoch>>

\* No token, or Graph fails: the tool answers with an error.
CatalogueFails(w) ==
  /\ pc[w] \in {"catalogueToken", "catalogueArrives"}
  /\ refill' = Nobody
  /\ pc' = [pc EXCEPT ![w] = "idle"]
  /\ job' = [job EXCEPT ![w] = NoJob]
  /\ UNCHANGED <<graph, seen, cacheEpoch, cache>>

--------------------------------------------------------------------------------
(***************************************************************************)
(* sync_lists and list_tasks.                                              *)
(***************************************************************************)
Held(id)   == entries[id].state = "complete" /\ entries[id].fresh
Stale(w)   == {id \in job[w].target : ~Held(id)}

ReadHit(w) ==
  /\ Goto(w, "read", "idle")
  /\ Stale(w) = {}
  /\ job' = [job EXCEPT ![w] = NoJob]
  /\ UNCHANGED <<graph, seen, cacheEpoch, cache, refill>>

ReadMiss(w) ==
  /\ Goto(w, "read", "await")
  /\ Stale(w) # {}
  /\ UNCHANGED <<graph, seen, cacheEpoch, cache, refill, job>>

ReadFilled(w) ==
  /\ Goto(w, "await", "idle")
  /\ refill = Nobody /\ Stale(w) = {}
  /\ job' = [job EXCEPT ![w] = NoJob]
  /\ UNCHANGED <<graph, seen, cacheEpoch, cache, refill>>

Fetch(w) ==
  /\ Goto(w, "await", "chunk")
  /\ refill = Nobody /\ Stale(w) # {}
  /\ refill' = w
  /\ job' = [job EXCEPT ![w].todo = Stale(w)]
  /\ UNCHANGED <<graph, seen, cacheEpoch, cache>>

\* A batch of first pages, or a whole list; the order is prioritise()'s.
Chunk(w) ==
  /\ job[w].todo # {}
  /\ Goto(w, "chunk", "token")
  /\ \E chunk \in SUBSET job[w].todo :
       /\ Cardinality(chunk) = IF ~job[w].batched THEN 1
                               ELSE IF Cardinality(job[w].todo) < ChunkMax
                                    THEN Cardinality(job[w].todo) ELSE ChunkMax
       /\ job' = [job EXCEPT ![w].chunk = chunk, ![w].todo = @ \ chunk,
                             ![w].gen = generation]
  /\ UNCHANGED <<graph, seen, cacheEpoch, cache, refill>>

\* Every list has had its turn, or the time or the requests have run out.
ChunksEnd(w) ==
  /\ Goto(w, "chunk", "walk")
  /\ job' = [job EXCEPT ![w].stopped = (job[w].todo # {}), ![w].todo = {}]
  /\ UNCHANGED <<graph, seen, cacheEpoch, cache, refill>>

Token(w) ==
  /\ Goto(w, "token", "arrives")
  /\ seen' = login
  /\ job' = [job EXCEPT ![w].tok = login]
  /\ UNCHANGED <<graph, cacheEpoch, cache, refill>>

\* A batch may answer for some of its lists only; another account's are not found.
Arrives(w) ==
  LET j == job[w] IN
  /\ Goto(w, "arrives", "keep")
  /\ \E answered \in SUBSET j.chunk :
       /\ j.tok # j.lists => answered = {}
       /\ ~j.batched => answered = j.chunk
       /\ job' = [job EXCEPT ![w].got = {<<id, changes[id]>> : id \in answered},
                             ![w].chunk = {}, ![w].tok = 0]
  /\ UNCHANGED <<graph, seen, cacheEpoch, cache, refill>>

\* Wrong: the batch is tried again.
RejectedAgain(w) ==
  /\ job[w].batched
  /\ Goto(w, "arrives", "chunk")
  /\ job' = [job EXCEPT ![w].todo = @ \cup job[w].chunk]
  /\ UNCHANGED <<graph, seen, cacheEpoch, cache, refill>>

\* $batch is not accepted: one list at a time from now on.
BatchRejected(w) ==
  /\ job[w].batched
  /\ Goto(w, "arrives", "chunk")
  /\ job' = [job EXCEPT ![w].batched = FALSE, ![w].todo = @ \cup job[w].chunk]
  /\ UNCHANGED <<graph, seen, cacheEpoch, cache, refill>>

FetchFails(w) ==
  /\ pc[w] \in {"token", "arrives"}
  /\ pc' = [pc EXCEPT ![w] = "walk"]
  /\ job' = [job EXCEPT ![w].stopped = TRUE, ![w].todo = {}, ![w].chunk = {},
                          ![w].tok = 0, ![w].gen = 0]
  /\ UNCHANGED <<graph, seen, cacheEpoch, cache, refill>>

\* keep: put_list, unless the cache was reset or a list invalidated since.
Store(id, version, state, gen) ==
  /\ IF gen = generation
     THEN \E evicted \in SUBSET {i \in Id \ {id} : entries[i] # NoEntry} :
            entries' = [i \in Id |-> IF i = id
                                     THEN [state |-> state, fresh |-> TRUE, version |-> version]
                                     ELSE IF i \in evicted THEN NoEntry ELSE entries[i]]
     ELSE UNCHANGED entries
  /\ UNCHANGED <<mailbox, generation, catalogue>>

\* A page walk that was cut short is kept, and marked.
KeepList(w) ==
  /\ pc[w] = "keep"
  /\ \E g \in job[w].got, state \in {"partial", "complete"} :
       /\ job[w].batched => g[1][2] \notin Long /\ state = "complete"
       /\ Store(g[1], g[2], state, job[w].gen)
       /\ job' = [job EXCEPT ![w].got = @ \ {g}]
  /\ UNCHANGED <<graph, seen, cacheEpoch, refill, pc>>

\* A first page with a nextLink waits for its continuation.
KeepForWalk(w) ==
  /\ pc[w] = "keep"
  /\ \E g \in job[w].got :
       /\ job[w].batched /\ g[1][2] \in Long
       /\ job' = [job EXCEPT ![w].got = @ \ {g},
                             ![w].walk = @ \cup {<<g[1], g[2], job[w].gen>>}]
  /\ UNCHANGED <<graph, seen, cacheEpoch, cache, refill, pc>>

KeepEnds(w) ==
  /\ job[w].got = {}
  /\ Goto(w, "keep", "chunk")
  /\ job' = [job EXCEPT ![w].gen = 0]
  /\ UNCHANGED <<graph, seen, cacheEpoch, cache, refill>>

\* One continuation, with the generation read again before its request.
Continue(w) ==
  /\ ~job[w].stopped
  /\ Goto(w, "walk", "continue")
  /\ \E c \in job[w].walk :
       job' = [job EXCEPT ![w].got = {c}, ![w].walk = @ \ {c}, ![w].gen = generation]
  /\ UNCHANGED <<graph, seen, cacheEpoch, cache, refill>>

\* The rest of the list, or some of it before the time or the pages run out;
\* or the request fails, and the first page is kept.
Continued(w, state) ==
  LET c == CHOOSE c \in job[w].got : TRUE IN
  /\ Goto(w, "continue", "walk")
  /\ seen' \in {seen, login}
  /\ state = "complete" => login = job[w].lists /\ seen' = login
  /\ Store(c[1], c[2], state, job[w].gen)
  /\ job' = [job EXCEPT ![w].got = {}, ![w].gen = 0,
                          ![w].stopped = (state = "partial")]
  /\ UNCHANGED <<graph, cacheEpoch, refill>>

\* The walk has stopped: the other first pages are kept, for their batches.
WalkStopped(w) ==
  /\ pc[w] = "walk" /\ job[w].stopped
  /\ \E c \in job[w].walk :
       /\ Store(c[1], c[2], "partial", c[3])
       /\ job' = [job EXCEPT ![w].walk = @ \ {c}]
  /\ UNCHANGED <<graph, seen, cacheEpoch, refill, pc>>

WalkEnds(w) ==
  /\ job[w].walk = {}
  /\ Goto(w, "walk", "idle")
  /\ refill' = Nobody
  /\ job' = [job EXCEPT ![w] = NoJob]
  /\ UNCHANGED <<graph, seen, cacheEpoch, cache>>

--------------------------------------------------------------------------------
(***************************************************************************)
(* The write tools: one mutation, and invalidate_after. An outcome is what *)
(* the last attempt of retry::send came to.                                *)
(***************************************************************************)
Mutated(w, id, outcome) ==
  /\ Goto(w, "mutating", IF outcome \in {"ok", "unknown"} THEN "invalidate" ELSE "report")
  /\ changes[id] < MaxChanges
  /\ changes' = [changes EXCEPT ![id] = @ + 1]
  /\ job' = [job EXCEPT ![w].change = changes[id] + 1, ![w].chunk = {id}]

MutateToken(w) ==
  /\ Goto(w, "mutate", "mutating")
  /\ seen' = login
  /\ job' = [job EXCEPT ![w].tok = login]
  /\ UNCHANGED <<graph, cacheEpoch, cache, refill>>

\* Done; or done for all we know, with a 5xx or no answer; or done at an
\* attempt whose answer was lost, and refused at the next one.
Mutate(w) ==
  /\ job[w].tok = job[w].lists
  /\ \E id \in job[w].target, outcome \in {"ok", "unknown", "refused"} : Mutated(w, id, outcome)
  /\ UNCHANGED <<login, reported, seen, cacheEpoch, cache, refill>>

MutateRefused(w) ==
  /\ pc[w] \in {"mutate", "mutating"}
  /\ pc' = [pc EXCEPT ![w] = "idle"]
  /\ job' = [job EXCEPT ![w] = NoJob]
  /\ UNCHANGED <<graph, seen, cacheEpoch, cache, refill>>

\* Wrong: only what is in the cache by now is dropped.
KeepGeneration(id) ==
  /\ entries' = [entries EXCEPT ![id] = NoEntry]
  /\ UNCHANGED <<mailbox, generation, catalogue>>

\* invalidate_list
Invalidate(id) ==
  /\ entries' = [entries EXCEPT ![id] = NoEntry]
  /\ generation' = generation + 1
  /\ UNCHANGED <<mailbox, catalogue>>

Later(f, id, n) == [f EXCEPT ![id] = IF @ < n THEN n ELSE @]

InvalidateAfter(w) ==
  /\ Goto(w, "invalidate", "idle")
  /\ \E id \in job[w].chunk :
       /\ Invalidate(id)
       /\ reported' = Later(reported, id, job[w].change)
  /\ job' = [job EXCEPT ![w] = NoJob]
  /\ UNCHANGED <<login, changes, seen, cacheEpoch, refill>>

NoInvalidation(w) ==
  /\ Goto(w, "report", "idle")
  /\ job' = [job EXCEPT ![w] = NoJob]
  /\ UNCHANGED <<graph, seen, cacheEpoch, cache, refill>>

--------------------------------------------------------------------------------
SignIn ==
  /\ login < MaxLogins
  /\ login' = login + 1
  /\ UNCHANGED <<changes, reported, seen, cacheEpoch, cache, refill, pc, job>>

CatalogueExpires ==
  /\ catalogue.fresh
  /\ catalogue' = [catalogue EXCEPT !.fresh = FALSE]
  /\ UNCHANGED <<graph, seen, cacheEpoch, mailbox, generation, entries, refill, pc, job>>

EntryExpires(id) ==
  /\ entries[id].fresh
  /\ entries' = [entries EXCEPT ![id].fresh = FALSE]
  /\ UNCHANGED <<graph, seen, cacheEpoch, mailbox, generation, catalogue, refill, pc, job>>

Init ==
  /\ login = 1 /\ seen = 1 /\ cacheEpoch = 1
  /\ changes = [id \in Id |-> 0]
  /\ reported = [id \in Id |-> 0]
  /\ mailbox = Unlabelled /\ generation = 1
  /\ catalogue = NoCatalogue
  /\ entries = [id \in Id |-> NoEntry]
  /\ refill = Nobody
  /\ pc = [w \in Worker |-> "idle"]
  /\ job = [w \in Worker |-> NoJob]

\* What a worker does with the refill mutex in hand.
Refilling(w) ==
  \/ CatalogueToken(w) \/ CatalogueArrives(w) \/ CatalogueFails(w)
  \/ Chunk(w) \/ ChunksEnd(w) \/ Token(w) \/ Arrives(w) \/ BatchRejected(w) \/ FetchFails(w)
  \/ KeepList(w) \/ KeepForWalk(w) \/ KeepEnds(w)
  \/ Continue(w) \/ (\E state \in {"partial", "complete"} : Continued(w, state))
  \/ WalkStopped(w) \/ WalkEnds(w)

Next ==
  \/ \E w \in Worker :
       \/ Begin(w) \/ ObserveToken(w) \/ SwapEpoch(w) \/ ResetCache(w)
       \/ CatalogueHit(w) \/ CatalogueMiss(w) \/ CatalogueFilled(w) \/ FetchCatalogue(w)
       \/ ReadHit(w) \/ ReadMiss(w) \/ ReadFilled(w) \/ Fetch(w)
       \/ Refilling(w)
       \/ MutateToken(w) \/ Mutate(w) \/ MutateRefused(w)
       \/ InvalidateAfter(w) \/ NoInvalidation(w)
  \/ SignIn \/ CatalogueExpires \/ \E id \in Id : EntryExpires(id)

Spec == Init /\ [][Next]_vars

(***************************************************************************)
(* A request to Graph or to Entra is answered or times out, and the thread *)
(* that holds the mutex runs.                                              *)
(***************************************************************************)
FairSpec == Spec /\ \A w \in Worker : WF_vars(Refilling(w))

--------------------------------------------------------------------------------
(***************************************************************************)
(* Properties                                                              *)
(***************************************************************************)
(***************************************************************************)
(* cache.rs: "any mutation, success or unknown outcome, drops the list and *)
(* bumps `generation`": once a tool has reported a change, no read of the  *)
(* list it changed is answered from data that misses it, whatever was on   *)
(* its way into the cache meanwhile. For the lists of one page.            *)
(***************************************************************************)
CacheSeesOwnWrites ==
  \A id \in Id : entries[id] # NoEntry /\ id[2] \notin Long => entries[id].version >= reported[id]

(***************************************************************************)
(* The same for the longer lists, whose first page waits for the rest: the *)
(* code reads the generation again before it asks for the rest, and a      *)
(* change made in between is lost.                                         *)
(***************************************************************************)
LongListsSeeOwnWrites ==
  \A id \in Id : entries[id] # NoEntry => entries[id].version >= reported[id]

(***************************************************************************)
(* README: a login "resets token state and task cache": once the cache was *)
(* reset for a login, it holds nothing of the account before, although a   *)
(* fill that was under way when the login came goes on. For the lists of   *)
(* one page: a longer one is let in, for the reason just given.            *)
(***************************************************************************)
ResetCacheIsTheAccounts ==
  cacheEpoch = seen /\ (\A w \in Worker : pc[w] # "reset") =>
    /\ catalogue # NoCatalogue => catalogue.lists = seen
    /\ \A id \in Id : entries[id] # NoEntry /\ id[2] \notin Long => id[1] = seen

(***************************************************************************)
(* A fill ends, the fallback from $batch included, and lets the next in.   *)
(***************************************************************************)
RefillIsReleased == \A w \in Worker : refill = w ~> refill # w
=================================================================================
