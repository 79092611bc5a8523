------------------------------ MODULE MCCommands ------------------------------
(***************************************************************************)
(* Six components for TLC, side by side in one run: the first step decides *)
(* which of them runs, and the others stay as they are. None of them reads *)
(* the state of another: settle_bearer, the device login, doctor and       *)
(* serve's start, serve's threads, one HTTP request, and Graph calls.      *)
(***************************************************************************)
EXTENDS BearerFile, DeviceLogin, Startup, HttpPool, HttpRequests, GraphCalls

CONSTANTS w1, w2

--------------------------------------------------------------------------------
\* An interval or a lifetime of zero, short ones, and some near the limit. An interval
\* that is left out is 5.
MCOffers == {[interval |-> 0, expiresIn |-> 12], [interval |-> 5, expiresIn |-> 0],
             [interval |-> 5, expiresIn |-> 30], [interval |-> 58, expiresIn |-> 130]}

MCErrorBodies ==
  {[error |-> e, codes |-> c, described |-> d] :
     e \in {"server_error", "invalid_grant"}, c \in {<<>>, <<1>>, <<1, 700082>>}, d \in {<<>>, <<70011>>}}

MCGranted == SUBSET {"Tasks.Read", "Tasks.ReadWrite", "Tasks.ReadWrite.All"}

--------------------------------------------------------------------------------
\* A machine on which everything is well, and those that differ from it in
\* up to two respects.
Good == [rejected |-> {}, client |-> "mine", scope |-> "ReadWrite", tz |-> TRUE, dir |-> "ok",
         bearer |-> "regular", listens |-> TRUE, graphUp |-> TRUE,
         entra |-> [says |-> "granted", scope |-> {"Tasks.ReadWrite", "offline_access"}]]

Otherwise ==
  [rejected |-> {{v} : v \in {"CLIENT_ID", "TENANT", "SCOPE", "TZ", "DATA_DIR", "GRAPH_CONCURRENCY"}},
   client   |-> {"none"},
   scope    |-> {"Read"},
   tz       |-> {FALSE},
   dir      |-> {"loose", "unusable"},
   bearer   |-> BearerStates \ {"regular"},
   listens  |-> {FALSE},
   graphUp  |-> {FALSE},
   entra    |-> {[says |-> s, scope |-> {}] : s \in {"unreachable", "refused", "dead"}}
                \cup {[says |-> "granted", scope |-> g] :
                        g \in {{"Tasks.Read"}, {"offline_access"}, {"Tasks.ReadWrite", "Tasks.Read.All"}}}]

Differing(machines) ==
  machines \cup UNION {{[m EXCEPT ![f] = v] : v \in Otherwise[f]} : m \in machines, f \in DOMAIN Otherwise}

MCMachines == Differing(Differing({Good}))

MCFiles ==
  {Absent, Corrupt, FileOf("mine", Requested("ReadWrite"), {"Tasks.ReadWrite"}, FALSE)} \cup
  {FileOf("mine", Requested(r), {"Tasks.ReadWrite"}, TRUE) : r \in {"Read", "ReadWrite"}} \cup
  {FileOf("other", Requested("ReadWrite"), {"Tasks.ReadWrite"}, TRUE),
   FileOf("mine", Requested("ReadWrite"), {"Tasks.ReadWrite", "Tasks.Read.All"}, TRUE)}

--------------------------------------------------------------------------------
Kinds == {"notObject", "notification", "notificationCall", "clientResponse", "ping",
          "unknownMethod", "callNoName", "call"}

MessagesOf(kinds) == [i \in DOMAIN kinds |-> [id |-> i, kind |-> kinds[i]]]
Batches == UNION {[1 .. n -> {"notObject", "notification", "ping", "call"}] : n \in 0 .. 3}

MCBodies == {[is |-> b, of |-> <<>>] : b \in {"unreadable", "large", "blank", "garbage"}}
            \cup {[is |-> "single", of |-> MessagesOf(<<k>>)] : k \in Kinds}
            \cup {[is |-> "batch", of |-> MessagesOf(b)] : b \in Batches}

Authorized == [scheme |-> "Bearer", token |-> "right"]
Call1      == [is |-> "single", of |-> MessagesOf(<<"call">>)]
PostOf(auth, origin, host, b) ==
  [method |-> "POST", path |-> "/mcp", auth |-> auth, origin |-> origin, host |-> host, body |-> b]
Plain(b) == PostOf(Authorized, "absent", "localhost", b)

MCArrivals ==
  {Plain(b) : b \in MCBodies}
  \cup {PostOf(Authorized, o, h, Call1) :
          o \in {"absent", "null", "localhost", "known", "other"},
          h \in {"absent", "localhost", "served", "known", "other"}}
  \cup {PostOf([scheme |-> s, token |-> t], "absent", "localhost", Call1) :
          s \in {"Bearer", "Basic"}, t \in {"right", "wrong"}}
  \cup {[Plain(Call1) EXCEPT !.method = m, !.path = p] :
          m \in {"GET", "POST"}, p \in {"/mcp", "/healthz", "/"}}

--------------------------------------------------------------------------------
BearerIdle  == BearerInit  /\ UNCHANGED bearerVars
LoginIdle   == LoginInit   /\ UNCHANGED loginVars
StartIdle   == StartInit   /\ UNCHANGED startVars
PoolIdle    == ServeInit   /\ UNCHANGED serveVars
RequestIdle == RequestInit /\ UNCHANGED requestVars
GraphIdle   == Init        /\ UNCHANGED vars

CommandsInit == BearerInit /\ LoginInit /\ StartInit /\ ServeInit /\ RequestInit /\ Init

CommandsNext ==
  \/ LoginIdle /\ StartIdle /\ PoolIdle /\ RequestIdle /\ GraphIdle /\ BearerNext
  \/ BearerIdle /\ StartIdle /\ PoolIdle /\ RequestIdle /\ GraphIdle /\ LoginNext
  \/ BearerIdle /\ LoginIdle /\ PoolIdle /\ RequestIdle /\ GraphIdle /\ StartNext
  \/ BearerIdle /\ LoginIdle /\ StartIdle /\ RequestIdle /\ GraphIdle /\ PoolNext
  \/ BearerIdle /\ LoginIdle /\ StartIdle /\ PoolIdle /\ GraphIdle /\ RequestNext
  \/ BearerIdle /\ LoginIdle /\ StartIdle /\ PoolIdle /\ RequestIdle /\ Next

CommandsVars == <<bearerVars, loginVars, startVars, serveVars, requestVars, vars>>

CommandsSpec == CommandsInit /\ [][CommandsNext]_CommandsVars /\ PoolFairness /\ Fairness
===============================================================================
