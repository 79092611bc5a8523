---------------------------- MODULE TaskCacheProofs ----------------------------
(***************************************************************************)
(* The cache never hides a change the server has reported, and once it was *)
(* reset for a login it holds nothing of the account before: for any       *)
(* number of threads, lists, accounts and changes.                         *)
(***************************************************************************)
EXTENDS TaskCache, TLAPS

Versions   == Id \X Nat
FirstPages == Id \X Nat \X Nat      \* with the generation of the batch
Entries    == [state : {"none", "partial", "complete"}, fresh : BOOLEAN, version : Nat]

Jobs == [tool : {"none"} \cup Tools, epoch : 0 .. MaxLogins, lists : 0 .. MaxLogins,
         target : SUBSET Id, batched : BOOLEAN, todo : SUBSET Id, chunk : SUBSET Id,
         tok : 0 .. MaxLogins, gen : Nat, got : SUBSET (Versions \cup FirstPages),
         walk : SUBSET FirstPages, stopped : BOOLEAN, change : Nat]

\* Where a thread's local variables matter to the invariant, and where not.
Critical == {"catalogueArrives", "invalidate", "keep", "continue"}
Quiet    == {"idle", "observe", "swap", "reset", "catalogue", "awaitCatalogue",
             "catalogueToken", "read", "await", "chunk", "walk", "token", "arrives",
             "mutate", "mutating", "report"}
Places   == Critical \cup Quiet

CacheTypeOK ==
  /\ login \in Login /\ seen \in Login
  /\ changes \in [Id -> Nat] /\ reported \in [Id -> Nat]
  /\ cacheEpoch \in 0 .. MaxLogins
  /\ generation \in Nat
  /\ catalogue \in [lists : 0 .. MaxLogins, fresh : BOOLEAN]
  /\ catalogue.fresh => catalogue.lists \in Login
  /\ entries \in [Id -> Entries]
  /\ pc \in [Worker -> Places]
  /\ job \in [Worker -> Jobs]

(***************************************************************************)
(* What the local variables of a thread are good for where it is. Data on  *)
(* its way into the cache misses no reported change unless the generation  *)
(* has moved since; what waits for its continuation is a long list's.      *)
(***************************************************************************)
Known(w) ==
  LET j == job[w] IN
  /\ j.gen <= generation
  /\ \A c \in j.walk : c[1][2] \in Long
  /\ pc[w] = "catalogueArrives" => j.tok \in Login
  /\ pc[w] = "invalidate" => \A id \in j.chunk : j.change <= changes[id]
  /\ pc[w] = "keep" =>
       \A g \in j.got : g \in Versions /\ (j.gen = generation => reported[g[1]] <= g[2])
  /\ pc[w] = "continue" =>
       j.got # {} /\ \A c \in j.got : c \in FirstPages /\ c[1][2] \in Long

CacheInv ==
  /\ CacheTypeOK
  /\ \A id \in Id : reported[id] <= changes[id]
  /\ \A w \in Worker : Known(w)
  /\ CacheSeesOwnWrites

\* One thread moves, and the others keep what they have.
Only(w) ==
  /\ pc' \in [Worker -> Places] /\ job' \in [Worker -> Jobs]
  /\ \A v \in Worker \ {w} : pc'[v] = pc[v] /\ job'[v] = job[v]

\* The generation does not go back, and what the cache then holds is sound.
CacheSound ==
  /\ generation' \in Nat /\ generation <= generation'
  /\ entries' \in [Id -> Entries]
  /\ \A id \in Id : entries'[id] # NoEntry /\ id[2] \notin Long => entries'[id].version >= reported[id]

\* Graph's lists change, at most, and nothing is reported.
GraphSound ==
  /\ reported' = reported /\ changes' \in [Id -> Nat]
  /\ \A id \in Id : changes[id] <= changes'[id]
  /\ login' \in Login /\ seen' \in Login /\ cacheEpoch' \in 0 .. MaxLogins
  /\ catalogue' \in [lists : 0 .. MaxLogins, fresh : BOOLEAN]
  /\ catalogue'.fresh => catalogue'.lists \in Login

--------------------------------------------------------------------------------
\* What every proof below starts from: the types of a thread's variables.
LEMMA ThreadIsTyped ==
  ASSUME CacheInv, NEW w \in Worker
  PROVE  /\ job[w] \in Jobs /\ pc[w] \in Places
         /\ job[w].gen \in Nat /\ job[w].gen <= generation
         /\ job[w].walk \subseteq FirstPages /\ \A c \in job[w].walk : c[1][2] \in Long
         /\ job = [job EXCEPT ![w] = job[w]] /\ pc = [pc EXCEPT ![w] = pc[w]]
         /\ generation \in Nat /\ 0 <= generation
         /\ login \in 0 .. MaxLogins /\ login \in Login /\ seen \in Login /\ 0 \in 0 .. MaxLogins
<1>1. /\ CacheTypeOK /\ Known(w)
  BY DEF CacheInv
<1>2. job[w] \in Jobs
  BY <1>1 DEF CacheTypeOK
<1>3. job[w].gen \in Nat /\ job[w].walk \subseteq FirstPages
  BY <1>2 DEF Jobs
<1> QED
  BY <1>1, <1>2, <1>3, LoginsAssumption DEF CacheTypeOK, Known, Login

\* The threads' jobs are typed.
LEMMA JobIsTyped == ASSUME CacheInv PROVE job \in [Worker -> Jobs]
BY DEF CacheInv, CacheTypeOK

\* The empty job is one.
LEMMA NoJobIsOne == NoJob \in Jobs /\ NoJob.gen = 0 /\ NoJob.walk = {}
BY LoginsAssumption DEF NoJob, Jobs, Tools

\* A thread that does not move knows what it knew, in a sound step.
LEMMA OthersKnow ==
  ASSUME CacheInv, NEW v \in Worker, CacheSound, GraphSound,
         pc'[v] = pc[v], job'[v] = job[v]
  PROVE  Known(v)'
<1>1. /\ Known(v) /\ job[v] \in Jobs /\ job[v].gen \in Nat /\ job[v].chunk \subseteq Id
      /\ job[v].change \in Nat
  BY DEF CacheInv, CacheTypeOK, Jobs
<1>2. /\ generation \in Nat /\ generation' \in Nat /\ generation <= generation'
      /\ reported' = reported
      /\ \A id \in Id : changes[id] \in Nat /\ changes'[id] \in Nat /\ changes[id] <= changes'[id]
  BY DEF CacheSound, GraphSound, CacheInv, CacheTypeOK
<1>3. job[v].gen <= generation' /\ (job[v].gen = generation' => job[v].gen = generation)
  BY <1>1, <1>2 DEF Known
<1>4. pc[v] = "invalidate" => \A id \in job[v].chunk : job[v].change <= changes'[id]
  BY <1>1, <1>2 DEF Known
<1>5. pc[v] = "keep" => \A g \in job[v].got : g \in Versions /\ (job[v].gen = generation' => reported[g[1]] <= g[2])
  BY <1>1, <1>3 DEF Known
<1> QED
  BY <1>1, <1>2, <1>3, <1>4, <1>5 DEF Known

\* The parts of the invariant that are not about a thread, in a sound step.
LEMMA SharedIsSound ==
  ASSUME CacheInv, CacheSound, GraphSound,
         pc' \in [Worker -> Places], job' \in [Worker -> Jobs]
  PROVE  CacheTypeOK' /\ (\A id \in Id : reported'[id] <= changes'[id]) /\ CacheSeesOwnWrites'
<1>1. CacheTypeOK'
  BY DEF CacheInv, CacheTypeOK, CacheSound, GraphSound
<1>2. \A id \in Id : reported'[id] <= changes'[id]
  BY DEF CacheInv, CacheTypeOK, GraphSound
<1>3. CacheSeesOwnWrites'
  BY DEF CacheSeesOwnWrites, CacheSound, GraphSound
<1> QED
  BY <1>1, <1>2, <1>3

\* A sound step of one thread: what is left to show is what it then knows.
LEMMA ThreadMoves ==
  ASSUME CacheInv, NEW w \in Worker, NEW to \in Places, NEW j \in Jobs,
         pc' = [pc EXCEPT ![w] = to], job' = [job EXCEPT ![w] = j],
         CacheSound, GraphSound,
         pc'[w] = to /\ job'[w] = j => Known(w)'
  PROVE  CacheInv'
<1>1. Only(w) /\ pc'[w] = to /\ job'[w] = j
  BY DEF CacheInv, CacheTypeOK, Only
<1>2. Known(w)'
  BY <1>1
<1>3. ASSUME NEW v \in Worker PROVE Known(v)'
  BY <1>1, <1>2, OthersKnow DEF Only
<1>4. CacheTypeOK' /\ (\A id \in Id : reported'[id] <= changes'[id]) /\ CacheSeesOwnWrites'
  BY <1>1, SharedIsSound DEF Only
<1> QED
  BY <1>3, <1>4 DEF CacheInv

\* A sound step of no thread.
LEMMA NobodyMoves ==
  ASSUME CacheInv, UNCHANGED <<pc, job>>, CacheSound, GraphSound
  PROVE  CacheInv'
<1>1. ASSUME NEW v \in Worker PROVE Known(v)'
  BY OthersKnow
<1>2. pc' \in [Worker -> Places] /\ job' \in [Worker -> Jobs]
  BY DEF CacheInv, CacheTypeOK
<1> QED
  BY <1>1, <1>2, SharedIsSound DEF CacheInv

\* A cache that is left alone is sound.
LEMMA CacheStays ==
  ASSUME CacheInv, UNCHANGED <<generation, entries>>
  PROVE  CacheSound
BY DEF CacheInv, CacheTypeOK, CacheSound, CacheSeesOwnWrites

\* So is Graph, and an account nobody has replaced.
LEMMA GraphStays ==
  ASSUME CacheInv, UNCHANGED <<changes, reported, login, catalogue>>,
         seen' \in {seen, login}, cacheEpoch' \in 0 .. MaxLogins
  PROVE  GraphSound
BY DEF CacheInv, CacheTypeOK, GraphSound

\* A thread goes where nothing is claimed of it.
LEMMA QuietMove ==
  ASSUME CacheInv, NEW w \in Worker, NEW to \in Quiet, NEW j \in Jobs,
         pc' = [pc EXCEPT ![w] = to], job' = [job EXCEPT ![w] = j],
         CacheSound, GraphSound, j.gen <= generation, j.walk \subseteq job[w].walk
  PROVE  CacheInv'
<1>1. to \in Places /\ to \notin Critical
  BY DEF Quiet, Critical, Places
<1>2. j.gen <= generation'
  BY DEF Jobs, CacheSound, CacheInv, CacheTypeOK
<1>3. \A c \in j.walk : c[1][2] \in Long
  BY DEF CacheInv, Known
<1>4. pc'[w] = to /\ job'[w] = j => Known(w)'
  BY <1>1, <1>2, <1>3 DEF Known, Critical
<1> QED
  BY <1>1, <1>4, ThreadMoves

\* The same beside the cache.
LEMMA QuietAside ==
  ASSUME CacheInv, NEW w \in Worker, NEW to \in Quiet, NEW j \in Jobs,
         pc' = [pc EXCEPT ![w] = to], job' = [job EXCEPT ![w] = j],
         UNCHANGED <<login, changes, reported, cacheEpoch, cache>>, seen' \in {seen, login},
         j.gen <= generation, j.walk \subseteq job[w].walk
  PROVE  CacheInv'
<1>1. cacheEpoch' \in 0 .. MaxLogins
  BY DEF CacheInv, CacheTypeOK
<1>2. CacheSound /\ GraphSound
  BY <1>1, CacheStays, GraphStays DEF cache
<1> QED
  BY <1>2, QuietMove DEF cache

\* The invariant holds of a server that has just started.
LEMMA InitIsSafe == Init => CacheInv
<1> SUFFICES ASSUME Init PROVE CacheInv
  OBVIOUS
<1>1. 1 \in Login /\ 1 \in 0 .. MaxLogins /\ 0 \in 0 .. MaxLogins
  BY LoginsAssumption DEF Login
<1>2. catalogue \in [lists : 0 .. MaxLogins, fresh : BOOLEAN] /\ ~catalogue.fresh
  BY <1>1 DEF Init, NoCatalogue
<1>3. entries \in [Id -> Entries]
  BY DEF Init, Entries, NoEntry
<1>4. job \in [Worker -> Jobs]
  BY NoJobIsOne DEF Init
<1>5. pc \in [Worker -> Places]
  BY DEF Init, Places, Quiet
<1>6. changes \in [Id -> Nat] /\ reported \in [Id -> Nat] /\ generation \in Nat
  BY DEF Init
<1>7. login \in Login /\ seen \in Login /\ cacheEpoch \in 0 .. MaxLogins
  BY <1>1 DEF Init
<1>8. CacheTypeOK
  BY <1>2, <1>3, <1>4, <1>5, <1>6, <1>7 DEF CacheTypeOK
<1>9. \A w \in Worker : Known(w)
  BY NoJobIsOne DEF Init, Known
<1> QED
  BY <1>8, <1>9 DEF Init, CacheInv, CacheSeesOwnWrites

--------------------------------------------------------------------------------
\* A call begins with an empty job.
LEMMA BeginIsSafe == ASSUME CacheInv, NEW w \in Worker, Begin(w) PROVE CacheInv'
<1>1. PICK tool \in Tools : job' = [job EXCEPT ![w] = [NoJob EXCEPT !.tool = tool]]
  BY DEF Begin
<1> DEFINE j == [NoJob EXCEPT !.tool = tool]
<1>2. /\ pc' = [pc EXCEPT ![w] = "observe"] /\ job' = [job EXCEPT ![w] = j]
      /\ UNCHANGED <<login, changes, reported, cacheEpoch, cache>> /\ seen' \in {seen, login}
  BY <1>1 DEF Begin, Goto, graph, cache
<1>3. j \in Jobs /\ j.gen <= generation /\ j.walk \subseteq job[w].walk
  BY ThreadIsTyped, NoJobIsOne DEF Jobs
<1>4. "observe" \in Quiet
  BY DEF Quiet
<1> HIDE DEF j
<1> QED
  BY <1>2, <1>3, <1>4, QuietAside

\* The thread notes the epoch.
LEMMA ObserveTokenIsSafe == ASSUME CacheInv, NEW w \in Worker, ObserveToken(w) PROVE CacheInv'
<1> DEFINE j == [job[w] EXCEPT !.epoch = login]
<1>1. /\ pc' = [pc EXCEPT ![w] = "swap"] /\ job' = [job EXCEPT ![w] = j]
      /\ UNCHANGED <<login, changes, reported, cacheEpoch, cache>> /\ seen' \in {seen, login}
  BY ThreadIsTyped DEF ObserveToken, Goto, graph, cache
<1>2. j \in Jobs /\ j.gen <= generation /\ j.walk \subseteq job[w].walk
  BY ThreadIsTyped DEF Jobs
<1>3. "swap" \in Quiet
  BY DEF Quiet
<1> HIDE DEF j
<1> QED
  BY <1>1, <1>2, <1>3, QuietAside

\* The cache's epoch becomes the one the thread has noted.
LEMMA SwapEpochIsSafe == ASSUME CacheInv, NEW w \in Worker, SwapEpoch(w) PROVE CacheInv'
<1> DEFINE to == IF cacheEpoch # job[w].epoch THEN "reset" ELSE "catalogue"
           j == [job[w] EXCEPT !.epoch = 0]
<1>1. /\ pc' = [pc EXCEPT ![w] = to] /\ job' = [job EXCEPT ![w] = j]
      /\ UNCHANGED <<login, changes, reported, seen, cache>> /\ cacheEpoch' = job[w].epoch
  BY ThreadIsTyped DEF SwapEpoch, Goto, graph, cache
<1>2. /\ j \in Jobs /\ j.gen <= generation /\ j.walk \subseteq job[w].walk
      /\ job[w].epoch \in 0 .. MaxLogins
  BY ThreadIsTyped DEF Jobs
<1>3. to \in Quiet
  BY DEF Quiet
<1>4. CacheSound /\ GraphSound
  BY <1>1, <1>2, CacheStays, GraphStays DEF cache
<1> HIDE DEF j, to
<1> QED
  BY <1>1, <1>2, <1>3, <1>4, QuietMove

\* The cache is emptied, for a generation of its own.
LEMMA ResetCacheIsSafe == ASSUME CacheInv, NEW w \in Worker, ResetCache(w) PROVE CacheInv'
<1>1. /\ pc' = [pc EXCEPT ![w] = "catalogue"] /\ job' = [job EXCEPT ![w] = job[w]]
      /\ UNCHANGED <<login, changes, reported, seen, cacheEpoch>>
      /\ generation' = generation + 1 /\ entries' = [id \in Id |-> NoEntry]
      /\ catalogue' = NoCatalogue
  BY ThreadIsTyped DEF ResetCache, Reset, Goto, graph
<1>2. CacheSound
  BY <1>1 DEF CacheSound, CacheInv, CacheTypeOK, Entries, NoEntry
<1>3. GraphSound
  BY <1>1, LoginsAssumption DEF GraphSound, CacheInv, CacheTypeOK, NoCatalogue
<1>4. "catalogue" \in Quiet
  BY DEF Quiet
<1> QED
  BY <1>1, <1>2, <1>3, <1>4, ThreadIsTyped, QuietMove

\* What the call goes on to is a job of the account of its catalogue.
LEMMA WorkIsAJob ==
  ASSUME CacheInv, NEW w \in Worker, NEW lists \in Login, Work(w, lists)
  PROVE  \E to \in Quiet, j \in Jobs :
           /\ pc' = [pc EXCEPT ![w] = to] /\ job' = [job EXCEPT ![w] = j]
           /\ j.gen <= generation /\ j.walk \subseteq job[w].walk
<1>1. PICK l \in List :
        job' = [job EXCEPT ![w] = [NoJob EXCEPT
                  !.tool = job[w].tool, !.lists = lists,
                  !.batched = (job[w].tool = "sync"),
                  !.target = IF job[w].tool = "sync" THEN Of(lists) ELSE {<<lists, l>>}]]
  BY DEF Work
<1> DEFINE target == IF job[w].tool = "sync" THEN Of(lists) ELSE {<<lists, l>>}
           j  == [NoJob EXCEPT !.tool = job[w].tool, !.lists = lists,
                               !.batched = (job[w].tool = "sync"), !.target = target]
           to == IF job[w].tool = "write" THEN "mutate" ELSE "read"
<1>2. target \subseteq Id /\ lists \in 0 .. MaxLogins
  BY LoginsAssumption DEF Of, Id, Login
<1>3. job[w].tool \in {"none"} \cup Tools
  BY ThreadIsTyped DEF Jobs
<1> HIDE DEF target
<1>4. j \in Jobs /\ j.gen = 0 /\ j.walk = {}
  BY <1>2, <1>3, NoJobIsOne DEF Jobs
<1>5. to \in Quiet
  BY DEF Quiet
<1>6. pc' = [pc EXCEPT ![w] = to] /\ job' = [job EXCEPT ![w] = j]
  BY <1>1 DEF Work, target
<1> HIDE DEF j, to
<1> QED
  BY <1>4, <1>5, <1>6, ThreadIsTyped

\* A call goes on, beside the cache.
LEMMA WorkIsQuiet ==
  ASSUME CacheInv, NEW w \in Worker, NEW lists \in Login, Work(w, lists), CacheSound, GraphSound
  PROVE  CacheInv'
BY WorkIsAJob, QuietMove

\* The catalogue is there, at once or once the mutex is free.
LEMMA CatalogueIsSafe ==
  ASSUME CacheInv, NEW w \in Worker, CatalogueHit(w) \/ CatalogueFilled(w)
  PROVE  CacheInv'
<1>1. /\ catalogue.fresh /\ Work(w, catalogue.lists)
      /\ UNCHANGED <<login, changes, reported, seen, cacheEpoch, cache>>
  BY DEF CatalogueHit, CatalogueFilled, graph
<1>2. catalogue.lists \in Login /\ cacheEpoch \in 0 .. MaxLogins
  BY <1>1 DEF CacheInv, CacheTypeOK
<1>3. CacheSound /\ GraphSound
  BY <1>1, <1>2, CacheStays, GraphStays DEF cache
<1> QED
  BY <1>1, <1>2, <1>3, WorkIsQuiet

\* The catalogue's request is made for an account.
LEMMA CatalogueTokenIsSafe ==
  ASSUME CacheInv, NEW w \in Worker, CatalogueToken(w)
  PROVE  CacheInv'
<1> DEFINE to == "catalogueArrives"
           j == [job[w] EXCEPT !.tok = login]
<1>1. /\ pc' = [pc EXCEPT ![w] = to] /\ job' = [job EXCEPT ![w] = j]
      /\ UNCHANGED <<login, changes, reported, cacheEpoch, cache>> /\ seen' = login
  BY ThreadIsTyped DEF CatalogueToken, Goto, graph, cache
<1>2. j \in Jobs /\ j.gen = job[w].gen /\ j.walk = job[w].walk /\ j.tok = login
  BY ThreadIsTyped DEF Jobs
<1>3. CacheSound /\ GraphSound
  BY <1>1, CacheStays, GraphStays DEF cache, CacheInv, CacheTypeOK
<1>4. to \in Places /\ to # "invalidate" /\ to # "keep" /\ to # "continue"
  BY DEF Places, Critical
<1>5. generation' = generation
  BY <1>1 DEF cache
<1> HIDE DEF j, to
<1>6. pc'[w] = to /\ job'[w] = j => Known(w)'
  BY <1>2, <1>4, <1>5, ThreadIsTyped DEF Known
<1> QED
  BY <1>1, <1>2, <1>3, <1>4, <1>6, ThreadMoves

\* put_catalogue: entries stay or go.
LEMMA CatalogueArrivesIsSafe ==
  ASSUME CacheInv, NEW w \in Worker, CatalogueArrives(w)
  PROVE  CacheInv'
<1> DEFINE a == job[w].tok
<1>1. /\ pc[w] = "catalogueArrives" /\ Work(w, a)
      /\ UNCHANGED <<login, changes, reported, seen, cacheEpoch>>
  BY DEF CatalogueArrives, graph
<1>2. a \in Login /\ a \in 0 .. MaxLogins
  BY <1>1, LoginsAssumption DEF CacheInv, Known, Login
<1>3. CacheInv /\ CacheTypeOK /\ CacheSeesOwnWrites
  BY DEF CacheInv
<1>4. CASE job[w].gen = generation
  <2>1. /\ generation' = IF mailbox # a THEN generation + 1 ELSE generation
        /\ entries' = [id \in Id |-> IF mailbox = a /\ id \in Of(a) THEN entries[id]
                                     ELSE NoEntry]
        /\ catalogue' = [lists |-> a, fresh |-> TRUE]
    BY <1>4 DEF CatalogueArrives
  <2> HIDE DEF a
  <2>2. NoEntry \in Entries
    BY DEF NoEntry, Entries
  <2>3. entries' \in [Id -> Entries] /\ \A id \in Id : entries'[id] # NoEntry => entries'[id] = entries[id]
    BY <1>3, <2>1, <2>2 DEF CacheTypeOK
  <2>4. generation' \in Nat /\ generation <= generation'
    BY <1>3, <2>1 DEF CacheTypeOK
  <2>5. CacheSound
    BY <1>3, <2>3, <2>4 DEF CacheSound, CacheSeesOwnWrites
  <2>6. GraphSound
    BY <1>1, <1>2, <1>3, <2>1 DEF GraphSound, CacheTypeOK
  <2> QED
    BY <1>1, <1>2, <2>5, <2>6, WorkIsQuiet
<1>5. CASE job[w].gen # generation
  <2>1. UNCHANGED cache
    BY <1>5 DEF CatalogueArrives
  <2>2. CacheSound /\ GraphSound
    BY <1>1, <1>3, <2>1, CacheStays, GraphStays DEF cache, CacheTypeOK
  <2> QED
    BY <1>1, <1>2, <2>2, WorkIsQuiet
<1> QED
  BY <1>4, <1>5

\* It waits for the mutex.
LEMMA CatalogueMissIsSafe == ASSUME CacheInv, NEW w \in Worker, CatalogueMiss(w) PROVE CacheInv'
<1> DEFINE j == job[w]
<1>1. /\ pc' = [pc EXCEPT ![w] = "awaitCatalogue"] /\ job' = [job EXCEPT ![w] = j]
      /\ UNCHANGED <<login, changes, reported, cacheEpoch, cache>> /\ seen' \in {seen, login}
  BY ThreadIsTyped DEF CatalogueMiss, Goto, graph, cache
<1>2. j \in Jobs /\ j.gen <= generation /\ j.walk \subseteq job[w].walk
  BY ThreadIsTyped DEF Jobs
<1>3. "awaitCatalogue" \in Quiet
  BY DEF Quiet
<1> HIDE DEF j
<1> QED
  BY <1>1, <1>2, <1>3, QuietAside

\* It notes the generation.
LEMMA FetchCatalogueIsSafe == ASSUME CacheInv, NEW w \in Worker, FetchCatalogue(w) PROVE CacheInv'
<1> DEFINE j == [job[w] EXCEPT !.gen = generation]
<1>1. /\ pc' = [pc EXCEPT ![w] = "catalogueToken"] /\ job' = [job EXCEPT ![w] = j]
      /\ UNCHANGED <<login, changes, reported, cacheEpoch, cache>> /\ seen' \in {seen, login}
  BY ThreadIsTyped DEF FetchCatalogue, Goto, graph, cache
<1>2. j \in Jobs /\ j.gen <= generation /\ j.walk \subseteq job[w].walk
  BY ThreadIsTyped DEF Jobs
<1>3. "catalogueToken" \in Quiet
  BY DEF Quiet
<1> HIDE DEF j
<1> QED
  BY <1>1, <1>2, <1>3, QuietAside

\* The call ends in an error.
LEMMA CatalogueFailsIsSafe == ASSUME CacheInv, NEW w \in Worker, CatalogueFails(w) PROVE CacheInv'
<1> DEFINE j == NoJob
<1>1. /\ pc' = [pc EXCEPT ![w] = "idle"] /\ job' = [job EXCEPT ![w] = j]
      /\ UNCHANGED <<login, changes, reported, cacheEpoch, cache>> /\ seen' \in {seen, login}
  BY ThreadIsTyped DEF CatalogueFails, Goto, graph, cache
<1>2. j \in Jobs /\ j.gen <= generation /\ j.walk \subseteq job[w].walk
  BY ThreadIsTyped, NoJobIsOne DEF Jobs
<1>3. "idle" \in Quiet
  BY DEF Quiet
<1> HIDE DEF j
<1> QED
  BY <1>1, <1>2, <1>3, QuietAside

\* The call is answered from the cache.
LEMMA ReadHitIsSafe == ASSUME CacheInv, NEW w \in Worker, ReadHit(w) PROVE CacheInv'
<1> DEFINE j == NoJob
<1>1. /\ pc' = [pc EXCEPT ![w] = "idle"] /\ job' = [job EXCEPT ![w] = j]
      /\ UNCHANGED <<login, changes, reported, cacheEpoch, cache>> /\ seen' \in {seen, login}
  BY ThreadIsTyped DEF ReadHit, Goto, graph, cache
<1>2. j \in Jobs /\ j.gen <= generation /\ j.walk \subseteq job[w].walk
  BY ThreadIsTyped, NoJobIsOne DEF Jobs
<1>3. "idle" \in Quiet
  BY DEF Quiet
<1> HIDE DEF j
<1> QED
  BY <1>1, <1>2, <1>3, QuietAside

\* It waits for the mutex.
LEMMA ReadMissIsSafe == ASSUME CacheInv, NEW w \in Worker, ReadMiss(w) PROVE CacheInv'
<1> DEFINE j == job[w]
<1>1. /\ pc' = [pc EXCEPT ![w] = "await"] /\ job' = [job EXCEPT ![w] = j]
      /\ UNCHANGED <<login, changes, reported, cacheEpoch, cache>> /\ seen' \in {seen, login}
  BY ThreadIsTyped DEF ReadMiss, Goto, graph, cache
<1>2. j \in Jobs /\ j.gen <= generation /\ j.walk \subseteq job[w].walk
  BY ThreadIsTyped DEF Jobs
<1>3. "await" \in Quiet
  BY DEF Quiet
<1> HIDE DEF j
<1> QED
  BY <1>1, <1>2, <1>3, QuietAside

\* Another thread has filled the cache.
LEMMA ReadFilledIsSafe == ASSUME CacheInv, NEW w \in Worker, ReadFilled(w) PROVE CacheInv'
<1> DEFINE j == NoJob
<1>1. /\ pc' = [pc EXCEPT ![w] = "idle"] /\ job' = [job EXCEPT ![w] = j]
      /\ UNCHANGED <<login, changes, reported, cacheEpoch, cache>> /\ seen' \in {seen, login}
  BY ThreadIsTyped DEF ReadFilled, Goto, graph, cache
<1>2. j \in Jobs /\ j.gen <= generation /\ j.walk \subseteq job[w].walk
  BY ThreadIsTyped, NoJobIsOne DEF Jobs
<1>3. "idle" \in Quiet
  BY DEF Quiet
<1> HIDE DEF j
<1> QED
  BY <1>1, <1>2, <1>3, QuietAside

\* The thread notes which lists are stale.
LEMMA FetchIsSafe == ASSUME CacheInv, NEW w \in Worker, Fetch(w) PROVE CacheInv'
<1> DEFINE j == [job[w] EXCEPT !.todo = Stale(w)]
<1>1. /\ pc' = [pc EXCEPT ![w] = "chunk"] /\ job' = [job EXCEPT ![w] = j]
      /\ UNCHANGED <<login, changes, reported, cacheEpoch, cache>> /\ seen' \in {seen, login}
  BY ThreadIsTyped DEF Fetch, Goto, graph, cache, Stale
<1>2. j \in Jobs /\ j.gen <= generation /\ j.walk \subseteq job[w].walk
  BY ThreadIsTyped DEF Jobs, Stale
<1>3. "chunk" \in Quiet
  BY DEF Quiet
<1> HIDE DEF j
<1> QED
  BY <1>1, <1>2, <1>3, QuietAside

\* A chunk is taken, with the generation it is asked for at.
LEMMA ChunkIsSafe == ASSUME CacheInv, NEW w \in Worker, Chunk(w) PROVE CacheInv'
<1>1. PICK chunk \in SUBSET job[w].todo :
        job' = [job EXCEPT ![w].chunk = chunk, ![w].todo = @ \ chunk, ![w].gen = generation]
  BY DEF Chunk
<1> DEFINE j == [[[job[w] EXCEPT !.chunk = chunk] EXCEPT !.todo = job[w].todo \ chunk]
                  EXCEPT !.gen = generation]
<1>2. /\ pc' = [pc EXCEPT ![w] = "token"] /\ job' = [job EXCEPT ![w] = j]
      /\ UNCHANGED <<login, changes, reported, cacheEpoch, cache>> /\ seen' \in {seen, login}
  <2> DEFINE rest == job[w].todo \ chunk
  <2>1. job' = [job EXCEPT ![w].chunk = chunk, ![w].todo = rest, ![w].gen = generation]
    BY <1>1, JobIsTyped DEF Jobs
  <2> HIDE DEF rest
  <2>2. job' = [job EXCEPT ![w] = [[[job[w] EXCEPT !.chunk = chunk] EXCEPT !.todo = rest]
                                    EXCEPT !.gen = generation]]
    BY <2>1, JobIsTyped DEF Jobs
  <2>3. job' = [job EXCEPT ![w] = j]
    BY <2>2 DEF rest
  <2> QED
    BY <2>3 DEF Chunk, Goto, graph, cache
<1>3. j \in Jobs /\ j.gen <= generation /\ j.walk \subseteq job[w].walk
  <2> DEFINE rest == job[w].todo \ chunk
             k == [job[w] EXCEPT !.chunk = chunk]
  <2>1. rest \in SUBSET Id /\ chunk \in SUBSET Id
    BY ThreadIsTyped DEF Jobs
  <2>2. k \in Jobs /\ k.walk = job[w].walk
    BY <2>1, ThreadIsTyped DEF Jobs
  <2>3. j = [[k EXCEPT !.todo = rest] EXCEPT !.gen = generation]
    OBVIOUS
  <2> HIDE DEF rest, k, j
  <2>4. [k EXCEPT !.todo = rest] \in Jobs /\ [k EXCEPT !.todo = rest].walk = k.walk
    BY <2>1, <2>2 DEF Jobs
  <2> DEFINE l == [k EXCEPT !.todo = rest]
  <2>5. j = [l EXCEPT !.gen = generation] /\ l \in Jobs /\ l.walk = job[w].walk
    BY <2>2, <2>3, <2>4
  <2> HIDE DEF l
  <2> QED
    BY <2>5, ThreadIsTyped DEF Jobs
<1>4. "token" \in Quiet
  BY DEF Quiet
<1> HIDE DEF j
<1> QED
  BY <1>2, <1>3, <1>4, QuietAside

\* Graph answers with all the changes made so far, the reported ones among them.
LEMMA ArrivesIsSafe == ASSUME CacheInv, NEW w \in Worker, Arrives(w) PROVE CacheInv'
<1>1. PICK answered \in SUBSET job[w].chunk :
        job' = [job EXCEPT ![w].got = {<<id, changes[id]>> : id \in answered},
                           ![w].chunk = {}, ![w].tok = 0]
  BY DEF Arrives
<1> DEFINE to == "keep"
           got == {<<id, changes[id]>> : id \in answered}
           j == [[[job[w] EXCEPT !.got = got] EXCEPT !.chunk = {}] EXCEPT !.tok = 0]
<1>2. /\ pc' = [pc EXCEPT ![w] = to] /\ job' = [job EXCEPT ![w] = j]
      /\ UNCHANGED <<login, changes, reported, seen, cacheEpoch, cache>>
  <2> HIDE DEF got
  <2>1. job' = [job EXCEPT ![w] = j]
    BY <1>1, JobIsTyped DEF Jobs, got
  <2> QED
    BY <2>1 DEF Arrives, Goto, graph, cache
<1>3. answered \subseteq Id
  BY ThreadIsTyped DEF Jobs
<1>4. \A g \in got : g \in Versions /\ reported[g[1]] <= g[2]
  BY <1>3 DEF CacheInv, CacheTypeOK, Versions
<1> HIDE DEF got
<1>5. j \in Jobs /\ j.gen = job[w].gen /\ j.walk = job[w].walk /\ j.got = got
  BY <1>4, ThreadIsTyped DEF Jobs
<1>6. CacheSound /\ GraphSound
  BY <1>2, CacheStays, GraphStays DEF cache, CacheInv, CacheTypeOK
<1>7. to \in Places /\ to # "invalidate" /\ to # "catalogueArrives" /\ to # "continue"
  BY DEF Places, Critical
<1>8. generation' = generation /\ reported' = reported
  BY <1>2 DEF cache
<1> HIDE DEF j, to
<1>9. pc'[w] = to /\ job'[w] = j => Known(w)'
  BY <1>4, <1>5, <1>7, <1>8, ThreadIsTyped DEF Known
<1> QED
  BY <1>2, <1>5, <1>6, <1>7, <1>9, ThreadMoves

\* The chunks are done.
LEMMA ChunksEndIsSafe == ASSUME CacheInv, NEW w \in Worker, ChunksEnd(w) PROVE CacheInv'
<1> DEFINE j == [[job[w] EXCEPT !.stopped = (job[w].todo # {})] EXCEPT !.todo = {}]
<1>1. /\ pc' = [pc EXCEPT ![w] = "walk"] /\ job' = [job EXCEPT ![w] = j]
      /\ UNCHANGED <<login, changes, reported, cacheEpoch, cache>> /\ seen' \in {seen, login}
  BY ThreadIsTyped DEF ChunksEnd, Goto, graph, cache
<1>2. j \in Jobs /\ j.gen <= generation /\ j.walk \subseteq job[w].walk
  BY ThreadIsTyped DEF Jobs
<1>3. "walk" \in Quiet
  BY DEF Quiet
<1> HIDE DEF j
<1> QED
  BY <1>1, <1>2, <1>3, QuietAside

\* The request gets its token.
LEMMA TokenIsSafe == ASSUME CacheInv, NEW w \in Worker, Token(w) PROVE CacheInv'
<1> DEFINE j == [job[w] EXCEPT !.tok = login]
<1>1. /\ pc' = [pc EXCEPT ![w] = "arrives"] /\ job' = [job EXCEPT ![w] = j]
      /\ UNCHANGED <<login, changes, reported, cacheEpoch, cache>> /\ seen' \in {seen, login}
  BY ThreadIsTyped DEF Token, Goto, graph, cache
<1>2. j \in Jobs /\ j.gen <= generation /\ j.walk \subseteq job[w].walk
  BY ThreadIsTyped DEF Jobs
<1>3. "arrives" \in Quiet
  BY DEF Quiet
<1> HIDE DEF j
<1> QED
  BY <1>1, <1>2, <1>3, QuietAside

\* The lists of the chunk go back.
LEMMA BatchRejectedIsSafe == ASSUME CacheInv, NEW w \in Worker, BatchRejected(w) PROVE CacheInv'
<1> DEFINE j == [[job[w] EXCEPT !.batched = FALSE] EXCEPT !.todo = job[w].todo \cup job[w].chunk]
<1>1. /\ pc' = [pc EXCEPT ![w] = "chunk"] /\ job' = [job EXCEPT ![w] = j]
      /\ UNCHANGED <<login, changes, reported, cacheEpoch, cache>> /\ seen' \in {seen, login}
  BY ThreadIsTyped DEF BatchRejected, Goto, graph, cache
<1>2. j \in Jobs /\ j.gen <= generation /\ j.walk \subseteq job[w].walk
  BY ThreadIsTyped DEF Jobs
<1>3. "chunk" \in Quiet
  BY DEF Quiet
<1> HIDE DEF j
<1> QED
  BY <1>1, <1>2, <1>3, QuietAside

\* The fetch stops.
LEMMA FetchFailsIsSafe == ASSUME CacheInv, NEW w \in Worker, FetchFails(w) PROVE CacheInv'
<1> DEFINE j == [[[[[job[w] EXCEPT !.stopped = TRUE] EXCEPT !.todo = {}] EXCEPT !.chunk = {}] EXCEPT !.tok = 0] EXCEPT !.gen = 0]
<1>1. /\ pc' = [pc EXCEPT ![w] = "walk"] /\ job' = [job EXCEPT ![w] = j]
      /\ UNCHANGED <<login, changes, reported, cacheEpoch, cache>> /\ seen' \in {seen, login}
  BY ThreadIsTyped DEF FetchFails, Goto, graph, cache
<1>2. j \in Jobs /\ j.gen <= generation /\ j.walk \subseteq job[w].walk
  BY ThreadIsTyped DEF Jobs
<1>3. "walk" \in Quiet
  BY DEF Quiet
<1> HIDE DEF j
<1> QED
  BY <1>1, <1>2, <1>3, QuietAside

\* put_list lets in what misses nothing reported, or a long list.
LEMMA StoreIsSound ==
  ASSUME CacheInv, NEW id \in Id, NEW version \in Nat, NEW state \in {"partial", "complete"},
         NEW gen \in Nat, Store(id, version, state, gen),
         id[2] \in Long \/ (gen = generation => reported[id] <= version)
  PROVE  CacheSound /\ catalogue' = catalogue /\ generation' = generation
<1>1. /\ CacheTypeOK /\ CacheSeesOwnWrites
  BY DEF CacheInv
<1>2. catalogue' = catalogue /\ generation' = generation
  BY DEF Store
<1>3. CASE gen = generation
  <2>1. PICK evicted \in SUBSET {i \in Id \ {id} : entries[i] # NoEntry} :
          entries' = [i \in Id |-> IF i = id
                                   THEN [state |-> state, fresh |-> TRUE, version |-> version]
                                   ELSE IF i \in evicted THEN NoEntry ELSE entries[i]]
    BY <1>3 DEF Store
  <2> DEFINE e == [state |-> state, fresh |-> TRUE, version |-> version]
  <2>2. e \in Entries /\ e.version = version /\ NoEntry \in Entries
    BY DEF Entries, NoEntry
  <2> HIDE DEF e
  <2>3. entries' = [i \in Id |-> IF i = id THEN e
                                 ELSE IF i \in evicted THEN NoEntry ELSE entries[i]]
    BY <2>1 DEF e
  <2>4. entries' \in [Id -> Entries]
    BY <1>1, <2>2, <2>3 DEF CacheTypeOK
  <2>5. ASSUME NEW i \in Id, entries'[i] # NoEntry, i[2] \notin Long
        PROVE  entries'[i].version >= reported[i]
    <3>1. CASE i = id
      BY <1>1, <1>3, <2>2, <2>3, <2>5, <3>1 DEF CacheTypeOK
    <3>2. CASE i # id
      <4>1. entries'[i] = entries[i] /\ entries[i] # NoEntry
        BY <2>3, <2>5, <3>2
      <4> QED
        BY <1>1, <2>5, <4>1 DEF CacheSeesOwnWrites
    <3> QED
      BY <3>1, <3>2
  <2> QED
    BY <1>1, <1>2, <2>4, <2>5 DEF CacheSound, CacheTypeOK
<1>4. CASE gen # generation
  BY <1>2, <1>4, CacheStays DEF Store
<1> QED
  BY <1>3, <1>4

\* A list of the chunk is kept.
LEMMA KeepListIsSafe == ASSUME CacheInv, NEW w \in Worker, KeepList(w) PROVE CacheInv'
<1>1. PICK g \in job[w].got, state \in {"partial", "complete"} :
        /\ Store(g[1], g[2], state, job[w].gen)
        /\ job' = [job EXCEPT ![w] = [job[w] EXCEPT !.got = job[w].got \ {g}]]
  BY ThreadIsTyped DEF KeepList, Jobs
<1> DEFINE j == [job[w] EXCEPT !.got = job[w].got \ {g}]
<1>2. /\ pc[w] = "keep" /\ pc' = [pc EXCEPT ![w] = pc[w]] /\ job' = [job EXCEPT ![w] = j]
      /\ UNCHANGED <<login, changes, reported, seen, cacheEpoch>>
  BY <1>1, ThreadIsTyped DEF KeepList, graph
<1>3. \A h \in job[w].got : h \in Versions /\ (job[w].gen = generation => reported[h[1]] <= h[2])
  BY <1>2 DEF CacheInv, Known
<1>4. CacheSound /\ catalogue' = catalogue /\ generation' = generation
  BY <1>1, <1>3, ThreadIsTyped, StoreIsSound DEF Versions
<1>5. GraphSound
  BY <1>2, <1>4, GraphStays DEF CacheInv, CacheTypeOK
<1>6. j \in Jobs /\ j.gen = job[w].gen /\ j.walk = job[w].walk /\ j.got \subseteq job[w].got
  BY ThreadIsTyped DEF Jobs
<1> HIDE DEF j
<1>7. pc'[w] = pc[w] /\ job'[w] = j => Known(w)'
  BY <1>2, <1>3, <1>4, <1>6, ThreadIsTyped DEF Known
<1> QED
  BY <1>2, <1>4, <1>5, <1>6, <1>7, ThreadIsTyped, ThreadMoves

\* The first page of a long list waits.
LEMMA KeepForWalkIsSafe == ASSUME CacheInv, NEW w \in Worker, KeepForWalk(w) PROVE CacheInv'
<1>1. PICK g \in job[w].got :
        /\ g[1][2] \in Long
        /\ job' = [job EXCEPT ![w].got = @ \ {g},
                              ![w].walk = @ \cup {<<g[1], g[2], job[w].gen>>}]
  BY DEF KeepForWalk
<1> DEFINE c == <<g[1], g[2], job[w].gen>>
           j == [[job[w] EXCEPT !.got = job[w].got \ {g}] EXCEPT !.walk = job[w].walk \cup {c}]
<1>2. /\ pc[w] = "keep" /\ pc' = [pc EXCEPT ![w] = pc[w]] /\ job' = [job EXCEPT ![w] = j]
      /\ UNCHANGED <<login, changes, reported, seen, cacheEpoch, cache>>
  <2>1. job' = [job EXCEPT ![w] = j]
    BY <1>1, JobIsTyped DEF Jobs
  <2> QED
    BY <2>1, ThreadIsTyped DEF KeepForWalk, graph, cache
<1>3. \A h \in job[w].got : h \in Versions /\ (job[w].gen = generation => reported[h[1]] <= h[2])
  BY <1>2 DEF CacheInv, Known
<1>4. c \in FirstPages /\ c[1][2] \in Long
  BY <1>1, <1>3, ThreadIsTyped DEF Versions, FirstPages
<1>5. CacheSound /\ GraphSound
  BY <1>2, CacheStays, GraphStays DEF cache, CacheInv, CacheTypeOK
<1> HIDE DEF c
<1>6. /\ j \in Jobs /\ j.gen = job[w].gen /\ j.walk = job[w].walk \cup {c}
      /\ j.got \subseteq job[w].got
  BY <1>4, ThreadIsTyped DEF Jobs
<1>7. generation' = generation /\ reported' = reported
  BY <1>2 DEF cache
<1> HIDE DEF j
<1>8. pc'[w] = pc[w] /\ job'[w] = j => Known(w)'
  BY <1>2, <1>3, <1>4, <1>6, <1>7, ThreadIsTyped DEF Known
<1> QED
  BY <1>2, <1>5, <1>6, <1>8, ThreadIsTyped, ThreadMoves

\* The chunk is kept.
LEMMA KeepEndsIsSafe == ASSUME CacheInv, NEW w \in Worker, KeepEnds(w) PROVE CacheInv'
<1> DEFINE j == [job[w] EXCEPT !.gen = 0]
<1>1. /\ pc' = [pc EXCEPT ![w] = "chunk"] /\ job' = [job EXCEPT ![w] = j]
      /\ UNCHANGED <<login, changes, reported, cacheEpoch, cache>> /\ seen' \in {seen, login}
  BY ThreadIsTyped DEF KeepEnds, Goto, graph, cache
<1>2. j \in Jobs /\ j.gen <= generation /\ j.walk \subseteq job[w].walk
  BY ThreadIsTyped DEF Jobs
<1>3. "chunk" \in Quiet
  BY DEF Quiet
<1> HIDE DEF j
<1> QED
  BY <1>1, <1>2, <1>3, QuietAside

\* A continuation is asked for, of a long list.
LEMMA ContinueIsSafe == ASSUME CacheInv, NEW w \in Worker, Continue(w) PROVE CacheInv'
<1>1. PICK c \in job[w].walk :
        job' = [job EXCEPT ![w].got = {c}, ![w].walk = @ \ {c}, ![w].gen = generation]
  BY DEF Continue
<1> DEFINE to == "continue"
           j == [[[job[w] EXCEPT !.got = {c}] EXCEPT !.walk = job[w].walk \ {c}]
                  EXCEPT !.gen = generation]
<1>2. /\ pc' = [pc EXCEPT ![w] = to] /\ job' = [job EXCEPT ![w] = j]
      /\ UNCHANGED <<login, changes, reported, seen, cacheEpoch, cache>>
  <2>1. job' = [job EXCEPT ![w] = j]
    BY <1>1, JobIsTyped DEF Jobs
  <2> QED
    BY <2>1 DEF Continue, Goto, graph, cache
<1>3. c \in FirstPages /\ c[1][2] \in Long
  BY <1>1, ThreadIsTyped
<1>4. CacheSound /\ GraphSound
  BY <1>2, CacheStays, GraphStays DEF cache, CacheInv, CacheTypeOK
<1>5. /\ j \in Jobs /\ j.gen = generation /\ j.walk \subseteq job[w].walk /\ j.got = {c}
  BY <1>3, ThreadIsTyped DEF Jobs
<1>6. to \in Places /\ to # "invalidate" /\ to # "catalogueArrives" /\ to # "keep"
  BY DEF Places, Critical
<1>7. generation' = generation
  BY <1>2 DEF cache
<1> HIDE DEF j, to
<1>8. pc'[w] = to /\ job'[w] = j => Known(w)'
  BY <1>3, <1>5, <1>6, <1>7, ThreadIsTyped DEF Known
<1> QED
  BY <1>2, <1>4, <1>5, <1>6, <1>8, ThreadMoves

\* It is kept: the list is long.
LEMMA ContinuedIsSafe ==
  ASSUME CacheInv, NEW w \in Worker, NEW state \in {"partial", "complete"}, Continued(w, state)
  PROVE  CacheInv'
<1> DEFINE c == CHOOSE c \in job[w].got : TRUE
           j == [[[job[w] EXCEPT !.got = {}] EXCEPT !.gen = 0]
                  EXCEPT !.stopped = (state = "partial")]
<1>1. /\ pc[w] = "continue" /\ pc' = [pc EXCEPT ![w] = "walk"] /\ job' = [job EXCEPT ![w] = j]
      /\ UNCHANGED <<login, changes, reported, cacheEpoch>> /\ seen' \in {seen, login}
      /\ Store(c[1], c[2], state, job[w].gen)
  BY ThreadIsTyped DEF Continued, Goto, graph
<1>2. c \in FirstPages /\ c[1][2] \in Long
  BY <1>1 DEF CacheInv, Known
<1> HIDE DEF c
<1>3. c[1] \in Id /\ c[2] \in Nat
  BY <1>2 DEF FirstPages
<1>4. CacheSound /\ catalogue' = catalogue
  BY <1>1, <1>2, <1>3, ThreadIsTyped, StoreIsSound
<1>5. GraphSound
  BY <1>1, <1>4, GraphStays DEF CacheInv, CacheTypeOK
<1>6. j \in Jobs /\ j.gen <= generation /\ j.walk \subseteq job[w].walk
  <2> DEFINE emptied == [[job[w] EXCEPT !.got = {}] EXCEPT !.gen = 0]
  <2>1. emptied \in Jobs
    <3>1. job[w] \in Jobs
      BY ThreadIsTyped
    <3>2. [job[w] EXCEPT !.got = {}] \in Jobs
      BY <3>1 DEF Jobs
    <3> QED
      BY <3>2 DEF Jobs
  <2>2. emptied.gen = 0 /\ emptied.walk = job[w].walk
    BY ThreadIsTyped DEF Jobs
  <2> HIDE DEF emptied
  <2>3. j = [emptied EXCEPT !.stopped = (state = "partial")]
    BY DEF emptied
  <2>4. j \in Jobs /\ j.gen = emptied.gen /\ j.walk = emptied.walk
    BY <2>1, <2>3 DEF Jobs
  <2> QED
    BY <2>2, <2>4, ThreadIsTyped
<1>7. "walk" \in Quiet
  BY DEF Quiet
<1> HIDE DEF j
<1> QED
  BY <1>1, <1>4, <1>5, <1>6, <1>7, QuietMove

\* So are the first pages left behind when the walk has stopped.
LEMMA WalkStoppedIsSafe == ASSUME CacheInv, NEW w \in Worker, WalkStopped(w) PROVE CacheInv'
<1>1. PICK c \in job[w].walk :
        /\ Store(c[1], c[2], "partial", c[3])
        /\ job' = [job EXCEPT ![w] = [job[w] EXCEPT !.walk = job[w].walk \ {c}]]
  BY ThreadIsTyped DEF WalkStopped, Jobs
<1> DEFINE j == [job[w] EXCEPT !.walk = job[w].walk \ {c}]
<1>2. /\ pc[w] = "walk" /\ pc' = [pc EXCEPT ![w] = "walk"] /\ job' = [job EXCEPT ![w] = j]
      /\ UNCHANGED <<login, changes, reported, seen, cacheEpoch>>
  BY <1>1, ThreadIsTyped DEF WalkStopped, graph
<1>3. c[1] \in Id /\ c[2] \in Nat /\ c[3] \in Nat /\ c[1][2] \in Long
  BY ThreadIsTyped DEF FirstPages
<1>4. CacheSound /\ catalogue' = catalogue
  BY <1>1, <1>3, StoreIsSound
<1>5. GraphSound
  BY <1>2, <1>4, GraphStays DEF CacheInv, CacheTypeOK
<1>6. j \in Jobs /\ j.gen <= generation /\ j.walk \subseteq job[w].walk
  BY ThreadIsTyped DEF Jobs
<1>7. "walk" \in Quiet
  BY DEF Quiet
<1> HIDE DEF j
<1> QED
  BY <1>2, <1>4, <1>5, <1>6, <1>7, QuietMove

\* The call ends.
LEMMA WalkEndsIsSafe == ASSUME CacheInv, NEW w \in Worker, WalkEnds(w) PROVE CacheInv'
<1> DEFINE j == NoJob
<1>1. /\ pc' = [pc EXCEPT ![w] = "idle"] /\ job' = [job EXCEPT ![w] = j]
      /\ UNCHANGED <<login, changes, reported, cacheEpoch, cache>> /\ seen' \in {seen, login}
  BY ThreadIsTyped DEF WalkEnds, Goto, graph, cache
<1>2. j \in Jobs /\ j.gen <= generation /\ j.walk \subseteq job[w].walk
  BY ThreadIsTyped, NoJobIsOne DEF Jobs
<1>3. "idle" \in Quiet
  BY DEF Quiet
<1> HIDE DEF j
<1> QED
  BY <1>1, <1>2, <1>3, QuietAside

\* The mutation gets its token.
LEMMA MutateTokenIsSafe == ASSUME CacheInv, NEW w \in Worker, MutateToken(w) PROVE CacheInv'
<1> DEFINE j == [job[w] EXCEPT !.tok = login]
<1>1. /\ pc' = [pc EXCEPT ![w] = "mutating"] /\ job' = [job EXCEPT ![w] = j]
      /\ UNCHANGED <<login, changes, reported, cacheEpoch, cache>> /\ seen' \in {seen, login}
  BY ThreadIsTyped DEF MutateToken, Goto, graph, cache
<1>2. j \in Jobs /\ j.gen <= generation /\ j.walk \subseteq job[w].walk
  BY ThreadIsTyped DEF Jobs
<1>3. "mutating" \in Quiet
  BY DEF Quiet
<1> HIDE DEF j
<1> QED
  BY <1>1, <1>2, <1>3, QuietAside

\* A change is made, and the thread knows which.
LEMMA MutateIsSafe == ASSUME CacheInv, NEW w \in Worker, Mutate(w) PROVE CacheInv'
<1>1. PICK id \in job[w].target, outcome \in {"ok", "unknown", "refused"} : Mutated(w, id, outcome)
  BY DEF Mutate
<1> DEFINE to == IF outcome \in {"ok", "unknown"} THEN "invalidate" ELSE "report"
           n == changes[id] + 1
           j == [[job[w] EXCEPT !.change = n] EXCEPT !.chunk = {id}]
<1>2. /\ pc' = [pc EXCEPT ![w] = to] /\ job' = [job EXCEPT ![w] = j]
      /\ changes' = [changes EXCEPT ![id] = n]
      /\ UNCHANGED <<login, reported, seen, cacheEpoch, cache>>
  <2>1. changes' = [changes EXCEPT ![id] = n]
    BY <1>1 DEF Mutated, CacheInv, CacheTypeOK
  <2>2. job' = [job EXCEPT ![w].change = n, ![w].chunk = {id}]
    BY <1>1 DEF Mutated
  <2>3. pc' = [pc EXCEPT ![w] = to]
    BY <1>1 DEF Mutated, Goto
  <2> HIDE DEF n
  <2>4. job' = [job EXCEPT ![w] = j]
    BY <2>2, JobIsTyped DEF Jobs
  <2> QED
    BY <2>1, <2>3, <2>4 DEF Mutate, n
<1>3. id \in Id
  BY ThreadIsTyped DEF Jobs
<1>4. n \in Nat /\ changes[id] \in Nat /\ changes[id] <= n /\ changes'[id] = n
  BY <1>2, <1>3 DEF CacheInv, CacheTypeOK
<1> HIDE DEF n
<1>5. CacheSound
  BY <1>2, CacheStays DEF cache
<1>6. changes' \in [Id -> Nat] /\ \A i \in Id : changes[i] <= changes'[i]
  BY <1>2, <1>3, <1>4 DEF CacheInv, CacheTypeOK
<1>7. GraphSound
  BY <1>2, <1>6 DEF GraphSound, CacheInv, CacheTypeOK, cache
<1>8. /\ j \in Jobs /\ j.gen = job[w].gen /\ j.walk = job[w].walk
      /\ j.chunk = {id} /\ j.change = n
  <2>1. j.gen = job[w].gen /\ j.walk = job[w].walk
    BY ThreadIsTyped DEF Jobs
  <2>2. j.chunk = {id} /\ j.change = n
    BY ThreadIsTyped DEF Jobs
  <2>3. j \in Jobs
    <3>1. job[w] \in Jobs
      BY ThreadIsTyped
    <3>2. [job[w] EXCEPT !.change = n] \in Jobs
      BY <1>4, <3>1 DEF Jobs
    <3> QED
      BY <1>3, <3>2 DEF Jobs
  <2> QED
    BY <2>1, <2>2, <2>3
<1>9. to \in Places /\ to # "continue" /\ to # "catalogueArrives" /\ to # "keep"
  BY DEF Places, Critical, Quiet
<1>10. generation' = generation /\ n <= n
  BY <1>2, <1>4 DEF cache
<1> HIDE DEF j, to
<1>11. pc'[w] = to /\ job'[w] = j => Known(w)'
  BY <1>4, <1>8, <1>9, <1>10, ThreadIsTyped DEF Known
<1> QED
  BY <1>2, <1>5, <1>7, <1>8, <1>9, <1>11, ThreadMoves

\* The mutation is refused.
LEMMA MutateRefusedIsSafe == ASSUME CacheInv, NEW w \in Worker, MutateRefused(w) PROVE CacheInv'
<1> DEFINE j == NoJob
<1>1. /\ pc' = [pc EXCEPT ![w] = "idle"] /\ job' = [job EXCEPT ![w] = j]
      /\ UNCHANGED <<login, changes, reported, cacheEpoch, cache>> /\ seen' \in {seen, login}
  BY ThreadIsTyped DEF MutateRefused, Goto, graph, cache
<1>2. j \in Jobs /\ j.gen <= generation /\ j.walk \subseteq job[w].walk
  BY ThreadIsTyped, NoJobIsOne DEF Jobs
<1>3. "idle" \in Quiet
  BY DEF Quiet
<1> HIDE DEF j
<1> QED
  BY <1>1, <1>2, <1>3, QuietAside

\* A change is reported: its list is dropped, and nothing read before gets in.
LEMMA InvalidateAfterIsSafe ==
  ASSUME CacheInv, NEW w \in Worker, InvalidateAfter(w)
  PROVE  CacheInv'
<1> DEFINE n == job[w].change
<1>1. PICK id \in job[w].chunk : Invalidate(id) /\ reported' = Later(reported, id, n)
  BY DEF InvalidateAfter
<1>2. /\ pc[w] = "invalidate" /\ pc' = [pc EXCEPT ![w] = "idle"]
      /\ job' = [job EXCEPT ![w] = NoJob]
      /\ UNCHANGED <<login, changes, seen, cacheEpoch, catalogue>>
      /\ entries' = [entries EXCEPT ![id] = NoEntry] /\ generation' = generation + 1
  BY <1>1 DEF InvalidateAfter, Goto, Invalidate
<1>3. CacheTypeOK /\ CacheSeesOwnWrites
  BY DEF CacheInv
<1>4. id \in Id /\ n \in Nat /\ n <= changes[id]
  BY <1>2, ThreadIsTyped DEF Jobs, CacheInv, Known
<1> HIDE DEF n
<1>5. reported' = [reported EXCEPT ![id] = IF reported[id] < n THEN n ELSE reported[id]]
  BY <1>1 DEF Later
<1>6. reported' \in [Id -> Nat] /\ \A i \in Id : reported'[i] <= changes[i]
  BY <1>3, <1>4, <1>5 DEF CacheInv, CacheTypeOK
<1>7. entries' \in [Id -> Entries] /\ NoEntry \in Entries
  BY <1>2, <1>3 DEF CacheTypeOK, Entries, NoEntry
<1>8. pc' \in [Worker -> Places] /\ job' \in [Worker -> Jobs]
  BY <1>2, <1>3, NoJobIsOne DEF CacheTypeOK, Places, Quiet
<1>9. CacheTypeOK'
  BY <1>2, <1>3, <1>6, <1>7, <1>8 DEF CacheTypeOK
<1>10. CacheSeesOwnWrites'
  <2> SUFFICES ASSUME NEW i \in Id, entries'[i] # NoEntry, i[2] \notin Long
               PROVE  entries'[i].version >= reported'[i]
    BY DEF CacheSeesOwnWrites
  <2>1. i # id /\ entries'[i] = entries[i]
    BY <1>2, <1>3, <1>4 DEF CacheTypeOK
  <2>2. reported'[i] = reported[i]
    BY <1>3, <1>5, <2>1 DEF CacheTypeOK
  <2> QED
    BY <1>3, <2>1, <2>2 DEF CacheSeesOwnWrites
<1>11. ASSUME NEW v \in Worker PROVE Known(v)'
  <2>1. CASE v = w
    <3>1. pc'[v] = "idle" /\ job'[v] = NoJob
      BY <1>2, <1>3, <2>1 DEF CacheTypeOK
    <3> QED
      BY <1>2, <1>3, <3>1, NoJobIsOne DEF Known, CacheTypeOK
  <2>2. CASE v # w
    <3>1. pc'[v] = pc[v] /\ job'[v] = job[v]
      BY <1>2, <1>3, <2>2 DEF CacheTypeOK
    <3>2. Known(v) /\ job[v].gen \in Nat /\ generation \in Nat /\ job[v].gen <= generation
      BY ThreadIsTyped DEF CacheInv
    <3>3. job[v].gen <= generation' /\ job[v].gen # generation'
      BY <1>2, <3>2
    <3> QED
      BY <1>2, <3>1, <3>2, <3>3 DEF Known
  <2> QED
    BY <2>1, <2>2
<1> QED
  BY <1>2, <1>6, <1>9, <1>10, <1>11 DEF CacheInv

\* The call ends, and the cache stays as it is.
LEMMA NoInvalidationIsSafe == ASSUME CacheInv, NEW w \in Worker, NoInvalidation(w) PROVE CacheInv'
<1> DEFINE j == NoJob
<1>1. /\ pc' = [pc EXCEPT ![w] = "idle"] /\ job' = [job EXCEPT ![w] = j]
      /\ UNCHANGED <<login, changes, reported, cacheEpoch, cache>> /\ seen' \in {seen, login}
  BY ThreadIsTyped DEF NoInvalidation, Goto, graph, cache
<1>2. j \in Jobs /\ j.gen <= generation /\ j.walk \subseteq job[w].walk
  BY ThreadIsTyped, NoJobIsOne DEF Jobs
<1>3. "idle" \in Quiet
  BY DEF Quiet
<1> HIDE DEF j
<1> QED
  BY <1>1, <1>2, <1>3, QuietAside

\* Another account signs in.
LEMMA SignInIsSafe == ASSUME CacheInv, SignIn PROVE CacheInv'
<1>1. login' \in Login
  BY LoginsAssumption DEF SignIn, CacheInv, CacheTypeOK, Login
<1>2. CacheSound
  BY CacheStays DEF SignIn, cache
<1>3. GraphSound
  BY <1>1 DEF SignIn, GraphSound, CacheInv, CacheTypeOK, cache
<1> QED
  BY <1>2, <1>3, NobodyMoves DEF SignIn

\* The catalogue grows old.
LEMMA CatalogueExpiresIsSafe == ASSUME CacheInv, CatalogueExpires PROVE CacheInv'
<1>1. CacheSound
  BY CacheStays DEF CatalogueExpires
<1>2. catalogue' \in [lists : 0 .. MaxLogins, fresh : BOOLEAN] /\ ~catalogue'.fresh
  BY DEF CatalogueExpires, CacheInv, CacheTypeOK
<1>3. UNCHANGED <<login, seen, changes, reported, cacheEpoch>>
  BY DEF CatalogueExpires, graph
<1>4. GraphSound
  BY <1>2, <1>3 DEF GraphSound, CacheInv, CacheTypeOK
<1> QED
  BY <1>1, <1>4, NobodyMoves DEF CatalogueExpires

\* A list grows old.
LEMMA EntryExpiresIsSafe == ASSUME CacheInv, NEW id \in Id, EntryExpires(id) PROVE CacheInv'
<1> DEFINE e == [entries[id] EXCEPT !.fresh = FALSE]
<1>1. CacheTypeOK /\ CacheSeesOwnWrites
  BY DEF CacheInv
<1>2. entries' = [entries EXCEPT ![id] = e] /\ entries[id].fresh
  BY <1>1 DEF EntryExpires, CacheTypeOK
<1>3. e \in Entries /\ e.version = entries[id].version /\ entries[id] # NoEntry
  <2>1. entries[id] \in Entries /\ ~NoEntry.fresh
    BY <1>1 DEF CacheTypeOK, NoEntry
  <2>2. entries[id] # NoEntry
    BY <1>2, <2>1
  <2> QED
    BY <2>1, <2>2 DEF Entries
<1> HIDE DEF e
<1>4. entries' \in [Id -> Entries]
  BY <1>1, <1>2, <1>3 DEF CacheTypeOK
<1>5. \A i \in Id : entries'[i] # NoEntry =>
        entries'[i].version = entries[i].version /\ entries[i] # NoEntry
  BY <1>1, <1>2, <1>3 DEF CacheTypeOK
<1>6. CacheSound
  BY <1>1, <1>4, <1>5 DEF EntryExpires, CacheSound, CacheSeesOwnWrites, CacheTypeOK
<1>7. GraphSound
  BY GraphStays DEF EntryExpires, CacheInv, CacheTypeOK, graph
<1> QED
  BY <1>6, <1>7, NobodyMoves DEF EntryExpires

--------------------------------------------------------------------------------
\* With the mutex in hand.
LEMMA RefillingIsSafe == ASSUME CacheInv, NEW w \in Worker, Refilling(w) PROVE CacheInv'
BY CatalogueTokenIsSafe, CatalogueArrivesIsSafe, CatalogueFailsIsSafe, ChunkIsSafe,
   ChunksEndIsSafe, TokenIsSafe, ArrivesIsSafe, BatchRejectedIsSafe, FetchFailsIsSafe,
   KeepListIsSafe, KeepForWalkIsSafe, KeepEndsIsSafe, ContinueIsSafe, ContinuedIsSafe,
   WalkStoppedIsSafe, WalkEndsIsSafe DEF Refilling

\* A stuttering step.
LEMMA StutterIsSafe == ASSUME CacheInv, UNCHANGED vars PROVE CacheInv'
BY DEF CacheInv, CacheTypeOK, Known, CacheSeesOwnWrites, vars, graph, cache

\* Every step keeps the invariant.
LEMMA NextIsSafe == CacheInv /\ [Next]_vars => CacheInv'
<1> SUFFICES ASSUME CacheInv, [Next]_vars PROVE CacheInv'
  OBVIOUS
<1>1. ASSUME NEW w \in Worker,
             \/ Begin(w) \/ ObserveToken(w) \/ SwapEpoch(w) \/ ResetCache(w)
             \/ CatalogueHit(w) \/ CatalogueMiss(w) \/ CatalogueFilled(w) \/ FetchCatalogue(w)
      PROVE  CacheInv'
  BY <1>1, BeginIsSafe, ObserveTokenIsSafe, SwapEpochIsSafe, ResetCacheIsSafe, CatalogueIsSafe,
     CatalogueMissIsSafe, FetchCatalogueIsSafe
<1>2. ASSUME NEW w \in Worker,
             \/ ReadHit(w) \/ ReadMiss(w) \/ ReadFilled(w) \/ Fetch(w) \/ Refilling(w)
      PROVE  CacheInv'
  BY <1>2, ReadHitIsSafe, ReadMissIsSafe, ReadFilledIsSafe, FetchIsSafe, RefillingIsSafe
<1>3. ASSUME NEW w \in Worker,
             \/ MutateToken(w) \/ Mutate(w) \/ MutateRefused(w)
             \/ InvalidateAfter(w) \/ NoInvalidation(w)
      PROVE  CacheInv'
  BY <1>3, MutateTokenIsSafe, MutateIsSafe, MutateRefusedIsSafe, InvalidateAfterIsSafe,
     NoInvalidationIsSafe
<1>4. SignIn \/ CatalogueExpires \/ (\E id \in Id : EntryExpires(id)) => CacheInv'
  BY SignInIsSafe, CatalogueExpiresIsSafe, EntryExpiresIsSafe
<1> QED
  BY <1>1, <1>2, <1>3, <1>4, StutterIsSafe DEF Next

(***************************************************************************)
(* Cache::invalidate_list and Cache::put_list: once a tool has reported a  *)
(* change, the cache holds no one-page list that misses it, whatever fill  *)
(* was under way when the change was made.                                 *)
(***************************************************************************)
THEOREM OwnWritesAreSeen == Spec => []CacheSeesOwnWrites
<1>1. Spec => []CacheInv
  BY InitIsSafe, NextIsSafe, PTL DEF Spec
<1>2. CacheInv => CacheSeesOwnWrites
  BY DEF CacheInv
<1> QED
  BY <1>1, <1>2, PTL

--------------------------------------------------------------------------------
(***************************************************************************)
(* What the cache holds, and what is on its way into it, is of an account  *)
(* the provider has noticed, and of none before the cache's epoch unless a *)
(* thread is still to reset the cache, which also moves the generation.    *)
(***************************************************************************)
Settled == \A w \in Worker : pc[w] # "reset"

Recent(a) == a <= seen /\ (Settled => cacheEpoch <= a)

\* The same after the step.
RecentNext(a) == a <= seen' /\ (Settled' => cacheEpoch' <= a)

OneAccount(j) ==
  j.target \subseteq Of(j.lists) /\ j.todo \subseteq Of(j.lists) /\ j.chunk \subseteq Of(j.lists)

AccountKnown(w) ==
  LET j == job[w] IN
  /\ OneAccount(j)
  /\ pc[w] = "swap" => j.epoch <= seen
  /\ pc[w] \in {"catalogueArrives", "arrives"} =>
       j.tok <= seen /\ (j.gen = generation => Recent(j.tok))
  /\ pc[w] = "keep" =>
       \A g \in j.got : g[1][1] <= seen /\ (j.gen = generation => Recent(g[1][1]))

CacheRecent ==
  /\ catalogue # NoCatalogue => Recent(catalogue.lists)
  /\ \A id \in Id : entries[id] # NoEntry /\ id[2] \notin Long => Recent(id[1])

AccountInv ==
  /\ cacheEpoch <= seen /\ seen <= login
  /\ CacheRecent
  /\ \A w \in Worker : AccountKnown(w)

\* Where the invariant says something of a thread besides OneAccount.
Claimed == {"swap", "catalogueArrives", "arrives", "keep"}

\* A step of one thread that resets nothing.
Steady(w) ==
  /\ \A v \in Worker \ {w} : pc'[v] = pc[v] /\ job'[v] = job[v]
  /\ pc[w] # "reset" /\ pc'[w] # "reset"
  /\ cacheEpoch' = cacheEpoch /\ login' = login /\ seen' \in {seen, login}
  /\ generation <= generation'

\* The accounts are numbers.
LEMMA AccountsAreNumbers ==
  ASSUME CacheInv
  PROVE  /\ login \in Int /\ seen \in Int /\ cacheEpoch \in Int /\ generation \in Int
         /\ catalogue.lists \in Int
         /\ \A id \in Id : id[1] \in Int
         /\ \A w \in Worker : job[w].tok \in Int /\ job[w].epoch \in Int /\ job[w].gen \in Int
         /\ \A w \in Worker : job[w].gen <= generation
BY LoginsAssumption DEF CacheInv, CacheTypeOK, Known, Jobs, Login, Id

\* In a steady step what was recent stays so.
LEMMA RecentStays ==
  ASSUME CacheInv, AccountInv, NEW w \in Worker, Steady(w), NEW a \in Int, Recent(a)
  PROVE  RecentNext(a)
<1>1. Settled' => Settled
  BY DEF Settled, Steady
<1>2. seen <= seen'
  BY AccountsAreNumbers DEF Steady, AccountInv
<1> QED
  BY <1>1, <1>2, AccountsAreNumbers DEF Recent, RecentNext, Steady

\* A thread that rests knows what it knew.
LEMMA OthersKeepAccounts ==
  ASSUME CacheInv, CacheInv', AccountInv, NEW w \in Worker, Steady(w), NEW v \in Worker \ {w}
  PROVE  AccountKnown(v)'
<1>1. pc'[v] = pc[v] /\ job'[v] = job[v] /\ generation <= generation' /\ seen <= seen'
      /\ seen \in Int /\ seen' \in Int
  BY AccountsAreNumbers DEF Steady, AccountInv
<1>2. job[v].gen = generation' => job[v].gen = generation
  BY <1>1, AccountsAreNumbers DEF CacheInv, CacheTypeOK
<1>3. AccountKnown(v) /\ job[v].tok \in Int
  BY AccountsAreNumbers DEF AccountInv
<1>4. ASSUME NEW a \in Int, a <= seen /\ (job[v].gen = generation => Recent(a))
      PROVE  a <= seen' /\ (job[v].gen = generation' => RecentNext(a))
  BY <1>1, <1>2, <1>4, RecentStays
<1>5. pc[v] = "keep" => \A g \in job[v].got : g[1][1] \in Int
  <2>1. pc[v] = "keep" => \A g \in job[v].got : g \in Versions
    BY DEF CacheInv, Known
  <2> QED
    BY <2>1, AccountsAreNumbers DEF Versions
<1>6. pc[v] = "swap" => job[v].epoch <= seen'
  BY <1>1, <1>3, AccountsAreNumbers DEF AccountKnown, Steady
<1>7. pc[v] \in {"catalogueArrives", "arrives"} =>
        job[v].tok <= seen' /\ (job[v].gen = generation' => RecentNext(job[v].tok))
  BY <1>3, <1>4 DEF AccountKnown
<1>8. pc[v] = "keep" =>
        \A g \in job[v].got : g[1][1] <= seen' /\ (job[v].gen = generation' => RecentNext(g[1][1]))
  BY <1>3, <1>4, <1>5 DEF AccountKnown
<1>9. OneAccount(job[v])
  BY <1>3 DEF AccountKnown
<1> QED
  BY <1>1, <1>6, <1>7, <1>8, <1>9 DEF AccountKnown, Recent, RecentNext, Settled, OneAccount

\* A steady step: what is left to show is what the cache holds and the thread knows.
LEMMA SteadyStep ==
  ASSUME CacheInv, CacheInv', AccountInv, NEW w \in Worker, Steady(w), CacheRecent', AccountKnown(w)'
  PROVE  AccountInv'
<1>1. \A v \in Worker : AccountKnown(v)'
  BY OthersKeepAccounts
<1>2. cacheEpoch' <= seen' /\ seen' <= login'
  BY AccountsAreNumbers DEF Steady, AccountInv
<1> QED
  BY <1>1, <1>2 DEF AccountInv

\* A cache that holds nothing more is as recent as it was.
LEMMA CacheStaysRecent ==
  ASSUME CacheInv, AccountInv, NEW w \in Worker, Steady(w), catalogue' = catalogue,
         \A id \in Id : entries'[id] # NoEntry /\ id[2] \notin Long => entries[id] # NoEntry
  PROVE  CacheRecent'
<1>1. catalogue # NoCatalogue => RecentNext(catalogue.lists)
  BY AccountsAreNumbers, RecentStays DEF AccountInv, CacheRecent
<1>2. ASSUME NEW id \in Id, entries'[id] # NoEntry, id[2] \notin Long PROVE RecentNext(id[1])
  BY <1>2, AccountsAreNumbers, RecentStays DEF AccountInv, CacheRecent
<1> QED
  BY <1>1, <1>2 DEF CacheRecent, Recent, RecentNext, Settled

\* A thread goes where little is claimed of it, beside the cache.
LEMMA UnclaimedMove ==
  ASSUME CacheInv, CacheInv', AccountInv, NEW w \in Worker, NEW to, NEW j,
         pc' = [pc EXCEPT ![w] = to], job' = [job EXCEPT ![w] = j], pc[w] # "reset",
         to \notin Claimed \cup {"reset"}, OneAccount(j),
         UNCHANGED <<login, cacheEpoch, cache>>, seen' \in {seen, login}
  PROVE  AccountInv'
<1>1. pc'[w] = to /\ job'[w] = j /\ \A v \in Worker \ {w} : pc'[v] = pc[v] /\ job'[v] = job[v]
  BY DEF CacheInv, CacheTypeOK
<1>2. Steady(w)
  BY <1>1, AccountsAreNumbers DEF Steady, cache
<1>3. CacheRecent'
  BY <1>2, CacheStaysRecent DEF cache
<1>4. AccountKnown(w)'
  BY <1>1 DEF AccountKnown, Claimed, OneAccount
<1> QED
  BY <1>2, <1>3, <1>4, SteadyStep

\* The empty job is of one account.
LEMMA NoJobIsOfOneAccount == OneAccount(NoJob) /\ \A tool \in Tools : OneAccount([NoJob EXCEPT !.tool = tool])
BY DEF OneAccount, NoJob, Of

\* A call that ends, or begins.
LEMMA EndsAreUnclaimed ==
  ASSUME CacheInv, CacheInv', AccountInv, NEW w \in Worker,
         \/ Begin(w) \/ CatalogueFails(w) \/ ReadHit(w) \/ ReadFilled(w) \/ WalkEnds(w)
         \/ MutateRefused(w) \/ NoInvalidation(w)
  PROVE  AccountInv'
<1>1. PICK to \in {"idle", "observe"},
             j \in {NoJob} \cup {[NoJob EXCEPT !.tool = tool] : tool \in Tools} :
        /\ pc' = [pc EXCEPT ![w] = to] /\ job' = [job EXCEPT ![w] = j]
        /\ pc[w] # "reset" /\ UNCHANGED <<login, cacheEpoch, cache>> /\ seen' \in {seen, login}
  BY DEF Begin, CatalogueFails, ReadHit, ReadFilled, WalkEnds, MutateRefused, NoInvalidation,
     Goto, graph, cache
<1>2. OneAccount(j) /\ to \notin Claimed \cup {"reset"}
  BY NoJobIsOfOneAccount DEF Claimed
<1> QED
  BY <1>1, <1>2, UnclaimedMove

\* A call that goes on with what it has.
LEMMA StepsAsideAreUnclaimed ==
  ASSUME CacheInv, CacheInv', AccountInv, NEW w \in Worker,
         \/ CatalogueMiss(w) \/ FetchCatalogue(w) \/ ReadMiss(w) \/ Fetch(w)
         \/ KeepEnds(w) \/ MutateToken(w)
  PROVE  AccountInv'
<1>1. OneAccount(job[w]) /\ job[w] \in Jobs /\ job = [job EXCEPT ![w] = job[w]]
  BY ThreadIsTyped DEF AccountInv, AccountKnown
<1> DEFINE moves(to, j) == /\ pc' = [pc EXCEPT ![w] = to] /\ job' = [job EXCEPT ![w] = j]
                           /\ pc[w] # "reset" /\ OneAccount(j)
                           /\ UNCHANGED <<login, cacheEpoch, cache>> /\ seen' \in {seen, login}
<1>2. CatalogueMiss(w) => moves("awaitCatalogue", job[w])
  BY <1>1 DEF CatalogueMiss, Goto, graph, cache
<1>3. FetchCatalogue(w) => moves("catalogueToken", [job[w] EXCEPT !.gen = generation])
  BY <1>1 DEF FetchCatalogue, Goto, graph, cache, OneAccount, Jobs
<1>4. ReadMiss(w) => moves("await", job[w])
  BY <1>1 DEF ReadMiss, Goto, graph, cache
<1>5. Fetch(w) => moves("chunk", [job[w] EXCEPT !.todo = Stale(w)])
  BY <1>1 DEF Fetch, Goto, graph, cache, OneAccount, Jobs, Stale
<1>6. KeepEnds(w) => moves("chunk", [job[w] EXCEPT !.gen = 0])
  BY <1>1 DEF KeepEnds, Goto, graph, cache, OneAccount, Jobs
<1>7. MutateToken(w) => moves("mutating", [job[w] EXCEPT !.tok = login])
  BY <1>1 DEF MutateToken, Goto, graph, cache, OneAccount, Jobs
<1>8. \A to \in {"awaitCatalogue", "catalogueToken", "await", "chunk", "mutating"} : \A j :
         moves(to, j) => AccountInv'
  BY UnclaimedMove DEF Claimed
<1> HIDE DEF moves
<1> QED
  BY <1>2, <1>3, <1>4, <1>5, <1>6, <1>7, <1>8

\* A call that takes a chunk, gives it back, changes one of its lists, or stops.
LEMMA ChunksAreUnclaimed ==
  ASSUME CacheInv, CacheInv', AccountInv, NEW w \in Worker,
         Chunk(w) \/ BatchRejected(w) \/ Mutate(w) \/ Continue(w) \/ ChunksEnd(w) \/ FetchFails(w)
  PROVE  AccountInv'
<1>1. /\ pc[w] # "reset" /\ UNCHANGED <<login, cacheEpoch, cache>> /\ seen' \in {seen, login}
  BY DEF Chunk, BatchRejected, Mutate, Mutated, Continue, ChunksEnd, FetchFails, Goto, graph
<1>2. \E to \in {"token", "chunk", "invalidate", "report", "continue", "walk"} : pc' = [pc EXCEPT ![w] = to]
  BY DEF Chunk, BatchRejected, Mutate, Mutated, Continue, ChunksEnd, FetchFails, Goto
<1>3. OneAccount(job[w]) /\ job \in [Worker -> Jobs] /\ pc \in [Worker -> Places]
  BY DEF AccountInv, AccountKnown, CacheInv, CacheTypeOK
<1>4. \A v \in Worker \ {w} : job'[v] = job[v]
  BY <1>3 DEF Chunk, BatchRejected, Mutate, Mutated, Continue, ChunksEnd, FetchFails
<1> DEFINE keeps == /\ job'[w].target = job[w].target /\ job'[w].lists = job[w].lists
                    /\ job'[w].todo \subseteq job[w].todo \cup job[w].chunk
                    /\ job'[w].chunk \subseteq job[w].chunk \cup job[w].todo \cup job[w].target
<1>5. ASSUME Chunk(w) PROVE keeps
  <2>1. PICK chunk \in SUBSET job[w].todo :
          job' = [job EXCEPT ![w].chunk = chunk, ![w].todo = @ \ chunk, ![w].gen = generation]
    BY <1>5 DEF Chunk
  <2>2. job'[w].target = job[w].target /\ job'[w].lists = job[w].lists
    BY <1>3, <2>1 DEF Jobs
  <2>3. job'[w].todo = job[w].todo \ chunk /\ job'[w].chunk = chunk
    BY <1>3, <2>1 DEF Jobs
  <2> QED
    BY <2>2, <2>3
<1>6. ASSUME Continue(w) PROVE keeps
  <2>1. PICK c \in job[w].walk :
          job' = [job EXCEPT ![w].got = {c}, ![w].walk = @ \ {c}, ![w].gen = generation]
    BY <1>6 DEF Continue
  <2> QED
    BY <1>3, <2>1 DEF Jobs
<1>7. ASSUME Mutate(w) PROVE keeps
  <2>1. PICK id \in job[w].target :
          job' = [job EXCEPT ![w].change = changes[id] + 1, ![w].chunk = {id}]
    BY <1>7 DEF Mutate, Mutated
  <2> QED
    BY <1>3, <2>1 DEF Jobs
<1>11. ASSUME BatchRejected(w) PROVE keeps
  BY <1>3, <1>11 DEF BatchRejected, Jobs
<1>12. ASSUME ChunksEnd(w) PROVE keeps
  <2>1. job' = [job EXCEPT ![w].stopped = (job[w].todo # {}), ![w].todo = {}]
    BY <1>12 DEF ChunksEnd
  <2>2. job'[w].target = job[w].target /\ job'[w].lists = job[w].lists
    BY <1>3, <2>1 DEF Jobs
  <2>3. job'[w].todo = {} /\ job'[w].chunk = job[w].chunk
    BY <1>3, <2>1 DEF Jobs
  <2> QED
    BY <2>2, <2>3
<1>13. ASSUME FetchFails(w) PROVE keeps
  <2>1. job' = [job EXCEPT ![w].stopped = TRUE, ![w].todo = {}, ![w].chunk = {},
                           ![w].tok = 0, ![w].gen = 0]
    BY <1>13 DEF FetchFails
  <2>2. job'[w].target = job[w].target /\ job'[w].lists = job[w].lists
    BY <1>3, <2>1 DEF Jobs
  <2>3. job'[w].todo = {} /\ job'[w].chunk = {}
    BY <1>3, <2>1 DEF Jobs
  <2> QED
    BY <2>2, <2>3
<1> HIDE DEF keeps
<1>10. keeps
  BY <1>5, <1>6, <1>7, <1>11, <1>12, <1>13
<1>8. OneAccount(job'[w])
  BY <1>3, <1>10 DEF OneAccount, keeps
<1>9. job' = [job EXCEPT ![w] = job'[w]]
  BY <1>3, <1>4 DEF CacheInv, CacheTypeOK
<1> QED
  BY <1>1, <1>2, <1>8, <1>9, UnclaimedMove DEF Claimed

\* What a call goes on to is of the account of its catalogue.
LEMMA WorkIsOfOneAccount ==
  ASSUME CacheInv, CacheInv', NEW w \in Worker, NEW lists \in Login, Work(w, lists)
  PROVE  /\ \E to \in {"mutate", "read"} : pc' = [pc EXCEPT ![w] = to]
         /\ \E j : job' = [job EXCEPT ![w] = j] /\ OneAccount(j)
<1>1. PICK l \in List :
        job' = [job EXCEPT ![w] = [NoJob EXCEPT
                  !.tool = job[w].tool, !.lists = lists,
                  !.batched = (job[w].tool = "sync"),
                  !.target = IF job[w].tool = "sync" THEN Of(lists) ELSE {<<lists, l>>}]]
  BY DEF Work
<1> DEFINE target == IF job[w].tool = "sync" THEN Of(lists) ELSE {<<lists, l>>}
           j == [NoJob EXCEPT !.tool = job[w].tool, !.lists = lists,
                              !.batched = (job[w].tool = "sync"), !.target = target]
<1>2. target \subseteq Of(lists)
  BY DEF Of
<1> HIDE DEF target
<1>3. OneAccount(j)
  BY <1>2 DEF OneAccount, NoJob
<1>4. job' = [job EXCEPT ![w] = j]
  BY <1>1 DEF target
<1> HIDE DEF j
<1> QED
  BY <1>3, <1>4 DEF Work

\* The catalogue is there.
LEMMA CatalogueIsTheAccounts ==
  ASSUME CacheInv, CacheInv', AccountInv, NEW w \in Worker, CatalogueHit(w) \/ CatalogueFilled(w)
  PROVE  AccountInv'
<1>1. catalogue.lists \in Login /\ Work(w, catalogue.lists) /\ pc[w] # "reset"
      /\ UNCHANGED <<login, cacheEpoch, cache, seen>>
  BY DEF CatalogueHit, CatalogueFilled, CacheInv, CacheTypeOK, graph
<1>2. PICK to, j :
        /\ to \in {"mutate", "read"} /\ pc' = [pc EXCEPT ![w] = to]
        /\ job' = [job EXCEPT ![w] = j] /\ OneAccount(j)
  BY <1>1, WorkIsOfOneAccount
<1> QED
  BY <1>1, <1>2, UnclaimedMove DEF Claimed

\* A token is of the login of the moment, which no epoch is beyond.
LEMMA TokensAreRecent ==
  ASSUME CacheInv, CacheInv', AccountInv, NEW w \in Worker,
         ObserveToken(w) \/ CatalogueToken(w) \/ Token(w)
  PROVE  AccountInv'
<1>1. /\ job \in [Worker -> Jobs] /\ pc \in [Worker -> Places] /\ OneAccount(job[w])
  BY DEF CacheInv, CacheTypeOK, AccountInv, AccountKnown
<1>2. /\ seen' = login /\ UNCHANGED <<login, cacheEpoch, cache>>
      /\ pc[w] \in {"observe", "catalogueToken", "token"}
      /\ pc'[w] \in {"swap", "catalogueArrives", "arrives"}
      /\ \A v \in Worker \ {w} : pc'[v] = pc[v] /\ job'[v] = job[v]
  BY <1>1 DEF ObserveToken, CatalogueToken, Token, Goto, graph, cache
<1>3. /\ OneAccount(job'[w])
      /\ pc'[w] = "swap" => job'[w].epoch = login
      /\ pc'[w] # "swap" => job'[w].tok = login
  BY <1>1 DEF ObserveToken, CatalogueToken, Token, Goto, OneAccount, Jobs
<1>4. Steady(w)
  BY <1>2, AccountsAreNumbers DEF Steady, cache
<1>5. CacheRecent'
  BY <1>2, <1>4, CacheStaysRecent DEF cache
<1>6. login <= seen' /\ cacheEpoch' <= login
  BY <1>2, AccountsAreNumbers DEF AccountInv
<1>7. AccountKnown(w)'
  BY <1>2, <1>3, <1>6 DEF AccountKnown, OneAccount, Recent, Settled
<1> QED
  BY <1>4, <1>5, <1>7, SteadyStep

\* What Graph answers is of the account of the token.
LEMMA AnswersAreRecent ==
  ASSUME CacheInv, CacheInv', AccountInv, NEW w \in Worker, Arrives(w)
  PROVE  AccountInv'
<1>1. PICK answered \in SUBSET job[w].chunk :
        /\ job[w].tok # job[w].lists => answered = {}
        /\ job' = [job EXCEPT ![w].got = {<<id, changes[id]>> : id \in answered},
                              ![w].chunk = {}, ![w].tok = 0]
  BY DEF Arrives
<1> DEFINE got == {<<id, changes[id]>> : id \in answered}
<1>2. /\ job \in [Worker -> Jobs] /\ pc \in [Worker -> Places] /\ AccountKnown(w)
  BY DEF CacheInv, CacheTypeOK, AccountInv
<1>3. \A g \in got : g[1][1] = job[w].tok
  <2>1. job[w].chunk \subseteq {job[w].lists} \X List
    BY <1>2 DEF AccountKnown, OneAccount, Of
  <2>2. \A id \in answered : id[1] = job[w].tok
    BY <1>1, <2>1
  <2> QED
    BY <2>2
<1> HIDE DEF got
<1>4. /\ UNCHANGED <<login, seen, cacheEpoch, cache>>
      /\ pc[w] = "arrives" /\ pc'[w] = "keep"
      /\ \A v \in Worker \ {w} : pc'[v] = pc[v] /\ job'[v] = job[v]
      /\ Settled' = Settled
  BY <1>1, <1>2 DEF Arrives, Goto, graph, cache, Settled
<1> DEFINE j == [[[job[w] EXCEPT !.got = got] EXCEPT !.chunk = {}] EXCEPT !.tok = 0]
<1>9. j.got = got /\ j.gen = job[w].gen
  BY <1>2 DEF Jobs
<1>10. j.target = job[w].target /\ j.lists = job[w].lists /\ j.todo = job[w].todo /\ j.chunk = {}
  BY <1>2 DEF Jobs
<1>11. job'[w] = j
  BY <1>1, <1>2 DEF got
<1> HIDE DEF j
<1>5. /\ OneAccount(job'[w]) /\ job'[w].got = got /\ job'[w].gen = job[w].gen
  BY <1>2, <1>9, <1>10, <1>11 DEF AccountKnown, OneAccount
<1>6. Steady(w)
  BY <1>4, AccountsAreNumbers DEF Steady, cache
<1>7. CacheRecent'
  BY <1>4, <1>6, CacheStaysRecent DEF cache
<1>8. AccountKnown(w)'
  BY <1>2, <1>3, <1>4, <1>5 DEF AccountKnown, OneAccount, Recent, cache
<1> QED
  BY <1>6, <1>7, <1>8, SteadyStep

\* What is put into the cache is recent, or a longer list's.
LEMMA StoreIsRecent ==
  ASSUME CacheInv, AccountInv, NEW w \in Worker, Steady(w),
         NEW id \in Id, NEW version, NEW state, NEW gen, Store(id, version, state, gen),
         id[2] \in Long \/ (gen = generation => Recent(id[1]))
  PROVE  CacheRecent'
<1>1. catalogue # NoCatalogue => RecentNext(catalogue.lists)
  BY AccountsAreNumbers, RecentStays DEF AccountInv, CacheRecent
<1>2. catalogue' = catalogue
  BY DEF Store
<1>3. ASSUME NEW i \in Id, entries'[i] # NoEntry, i[2] \notin Long
      PROVE  entries[i] # NoEntry \/ (i = id /\ gen = generation)
  BY <1>3 DEF Store
<1>4. ASSUME NEW i \in Id, entries'[i] # NoEntry, i[2] \notin Long PROVE RecentNext(i[1])
  BY <1>3, <1>4, AccountsAreNumbers, RecentStays DEF AccountInv, CacheRecent
<1> QED
  BY <1>1, <1>2, <1>4 DEF CacheRecent, Recent, RecentNext, Settled

\* A list of the chunk is kept, or waits for its rest.
LEMMA KeptListsAreRecent ==
  ASSUME CacheInv, CacheInv', AccountInv, NEW w \in Worker, KeepList(w) \/ KeepForWalk(w)
  PROVE  AccountInv'
<1>1. /\ job \in [Worker -> Jobs] /\ AccountKnown(w) /\ Known(w)
  BY DEF CacheInv, CacheTypeOK, AccountInv
<1>2. /\ UNCHANGED <<login, seen, cacheEpoch, generation, pc>> /\ pc[w] = "keep"
  BY DEF KeepList, KeepForWalk, Store, graph, cache
<1>3. \A v \in Worker \ {w} : job'[v] = job[v]
  BY <1>1 DEF KeepList, KeepForWalk
<1> DEFINE keeps == /\ job'[w].got \subseteq job[w].got /\ job'[w].gen = job[w].gen
                    /\ OneAccount(job'[w])
<1>4. keeps
  <2>1. ASSUME NEW g \in job[w].got, job' = [job EXCEPT ![w].got = @ \ {g}] PROVE keeps
    BY <1>1, <2>1 DEF AccountKnown, OneAccount, Jobs
  <2>2. ASSUME NEW g \in job[w].got,
               job' = [job EXCEPT ![w].got = @ \ {g},
                                  ![w].walk = @ \cup {<<g[1], g[2], job[w].gen>>}]
        PROVE  keeps
    BY <1>1, <2>2 DEF AccountKnown, OneAccount, Jobs
  <2> QED
    BY <2>1, <2>2 DEF KeepList, KeepForWalk
<1>5. Steady(w)
  BY <1>2, <1>3, AccountsAreNumbers DEF Steady
<1>6. ASSUME KeepList(w) PROVE CacheRecent'
  <2>1. PICK g \in job[w].got, state \in {"partial", "complete"} :
          Store(g[1], g[2], state, job[w].gen)
    BY <1>6 DEF KeepList
  <2>2. g[1] \in Id /\ (job[w].gen = generation => Recent(g[1][1]))
    BY <1>1, <1>2 DEF Known, AccountKnown, Versions
  <2> QED
    BY <1>5, <2>1, <2>2, StoreIsRecent
<1>7. KeepForWalk(w) => CacheRecent'
  BY <1>5, CacheStaysRecent DEF KeepForWalk, cache
<1>8. AccountKnown(w)'
  BY <1>1, <1>2, <1>4 DEF AccountKnown, OneAccount, Recent, Settled
<1> QED
  BY <1>5, <1>6, <1>7, <1>8, SteadyStep

\* So is the rest of a list, and what is left when the walk stops: the lists are long.
LEMMA WalksAreOfLongLists ==
  ASSUME CacheInv, CacheInv', AccountInv, NEW w \in Worker,
         WalkStopped(w) \/ \E state \in {"partial", "complete"} : Continued(w, state)
  PROVE  AccountInv'
<1>1. /\ job \in [Worker -> Jobs] /\ pc \in [Worker -> Places] /\ AccountKnown(w) /\ Known(w)
      /\ job[w].walk \subseteq FirstPages
  BY DEF CacheInv, CacheTypeOK, AccountInv, Jobs
<1>2. /\ UNCHANGED <<login, cacheEpoch, generation>> /\ seen' \in {seen, login}
      /\ pc[w] \in {"walk", "continue"} /\ pc'[w] = "walk"
      /\ \A v \in Worker \ {w} : pc'[v] = pc[v] /\ job'[v] = job[v]
  BY <1>1 DEF WalkStopped, Continued, Goto, Store, graph
<1>3. OneAccount(job'[w])
  BY <1>1 DEF WalkStopped, Continued, AccountKnown, OneAccount, Jobs
<1>4. Steady(w)
  BY <1>2, AccountsAreNumbers DEF Steady
<1> DEFINE stores == \E c \in FirstPages, state \in {"partial", "complete"}, gen \in Nat :
                       c[1][2] \in Long /\ Store(c[1], c[2], state, gen)
<1>5. stores
  <2>1. ASSUME WalkStopped(w) PROVE stores
    <3>1. PICK c \in job[w].walk : Store(c[1], c[2], "partial", c[3])
      BY <2>1 DEF WalkStopped
    <3>2. c \in FirstPages /\ c[3] \in Nat /\ c[1][2] \in Long
      BY <1>1 DEF Known, FirstPages
    <3> QED
      BY <3>1, <3>2
  <2>2. ASSUME NEW state \in {"partial", "complete"}, Continued(w, state) PROVE stores
    <3> DEFINE c == CHOOSE c \in job[w].got : TRUE
    <3>1. pc[w] = "continue" /\ Store(c[1], c[2], state, job[w].gen)
      BY <2>2 DEF Continued, Goto
    <3>2. c \in FirstPages /\ c[1][2] \in Long /\ job[w].gen \in Nat
      BY <1>1, <3>1 DEF Known, Jobs
    <3> HIDE DEF c
    <3> QED
      BY <3>1, <3>2
  <2> QED
    BY <2>1, <2>2
<1>6. CacheRecent'
  BY <1>4, <1>5, StoreIsRecent DEF FirstPages
<1>7. AccountKnown(w)'
  BY <1>2, <1>3 DEF AccountKnown, OneAccount
<1> QED
  BY <1>4, <1>6, <1>7, SteadyStep

\* A list is dropped.
LEMMA InvalidationsAreRecent ==
  ASSUME CacheInv, CacheInv', AccountInv, NEW w \in Worker, InvalidateAfter(w)
  PROVE  AccountInv'
<1>1. PICK id \in job[w].chunk : Invalidate(id)
  BY DEF InvalidateAfter
<1>2. /\ job \in [Worker -> Jobs] /\ pc \in [Worker -> Places] /\ entries \in [Id -> Entries]
  BY DEF CacheInv, CacheTypeOK
<1>3. /\ UNCHANGED <<login, cacheEpoch, seen, catalogue>> /\ generation' = generation + 1
      /\ pc[w] = "invalidate" /\ pc'[w] = "idle" /\ job'[w] = NoJob
      /\ \A v \in Worker \ {w} : pc'[v] = pc[v] /\ job'[v] = job[v]
  BY <1>1, <1>2 DEF InvalidateAfter, Invalidate, Goto
<1>4. Steady(w)
  BY <1>3, AccountsAreNumbers DEF Steady
<1>5. \A i \in Id : entries'[i] # NoEntry => entries[i] # NoEntry
  BY <1>1, <1>2 DEF Invalidate
<1>6. CacheRecent'
  BY <1>3, <1>4, <1>5, CacheStaysRecent
<1>7. AccountKnown(w)'
  BY <1>3, NoJobIsOfOneAccount DEF AccountKnown, OneAccount
<1> QED
  BY <1>4, <1>6, <1>7, SteadyStep

\* A catalogue that is let in is recent, and keeps lists of its account only.
LEMMA CataloguesAreRecent ==
  ASSUME CacheInv, CacheInv', AccountInv, NEW w \in Worker, CatalogueArrives(w)
  PROVE  AccountInv'
<1> DEFINE a == job[w].tok
<1>1. /\ pc \in [Worker -> Places] /\ job \in [Worker -> Jobs] /\ AccountKnown(w)
      /\ pc[w] = "catalogueArrives" /\ a \in Login /\ Work(w, a)
      /\ UNCHANGED <<login, seen, cacheEpoch>>
  BY DEF CacheInv, CacheTypeOK, AccountInv, Known, CatalogueArrives, graph
<1>2. PICK to, j :
        /\ to \in {"mutate", "read"} /\ pc' = [pc EXCEPT ![w] = to]
        /\ job' = [job EXCEPT ![w] = j] /\ OneAccount(j)
  BY <1>1, WorkIsOfOneAccount
<1>3. job'[w] = j /\ pc'[w] = to /\ \A v \in Worker \ {w} : pc'[v] = pc[v] /\ job'[v] = job[v]
  BY <1>1, <1>2
<1>4. generation <= generation'
  BY AccountsAreNumbers DEF CatalogueArrives, cache
<1>5. Steady(w)
  BY <1>1, <1>2, <1>3, <1>4 DEF Steady
<1>6. ASSUME job[w].gen = generation PROVE CacheRecent'
  <2>1. Recent(a)
    BY <1>1, <1>6 DEF AccountKnown
  <2>2. RecentNext(a)
    BY <1>5, <2>1, AccountsAreNumbers, RecentStays
  <2>3. /\ catalogue'.lists = a
        /\ \A id \in Id : entries'[id] # NoEntry => entries[id] # NoEntry
    BY <1>6 DEF CatalogueArrives
  <2>4. ASSUME NEW id \in Id, entries'[id] # NoEntry, id[2] \notin Long PROVE RecentNext(id[1])
    BY <1>5, <2>3, <2>4, AccountsAreNumbers, RecentStays DEF AccountInv, CacheRecent
  <2> HIDE DEF a
  <2> QED
    BY <2>2, <2>3, <2>4 DEF CacheRecent, Recent, RecentNext, Settled
<1>7. ASSUME job[w].gen # generation PROVE CacheRecent'
  BY <1>5, <1>7, CacheStaysRecent DEF CatalogueArrives, cache
<1>8. AccountKnown(w)'
  BY <1>2, <1>3 DEF AccountKnown, OneAccount
<1> QED
  BY <1>5, <1>6, <1>7, <1>8, SteadyStep

\* A cache that was reset holds nothing, and nothing is let in that was asked for before.
LEMMA ResetsAreRecent ==
  ASSUME CacheInv, CacheInv', AccountInv, NEW w \in Worker, ResetCache(w)
  PROVE  AccountInv'
<1>1. /\ pc \in [Worker -> Places] /\ pc[w] = "reset" /\ pc' = [pc EXCEPT ![w] = "catalogue"]
      /\ UNCHANGED <<job, login, seen, cacheEpoch>>
      /\ catalogue' = NoCatalogue /\ entries' = [id \in Id |-> NoEntry]
      /\ generation' = generation + 1
  BY DEF CacheInv, CacheTypeOK, ResetCache, Reset, Goto, graph
<1>2. CacheRecent'
  BY <1>1 DEF CacheRecent
<1>3. ASSUME NEW v \in Worker PROVE AccountKnown(v)'
  <2>1. job[v].gen # generation'
    BY <1>1, AccountsAreNumbers
  <2>2. pc'[v] \in Claimed => pc'[v] = pc[v]
    BY <1>1 DEF Claimed
  <2>3. AccountKnown(v)
    BY DEF AccountInv
  <2> QED
    BY <1>1, <2>1, <2>2, <2>3 DEF AccountKnown, OneAccount, Claimed
<1> QED
  BY <1>1, <1>2, <1>3 DEF AccountInv

\* The epoch moves: nothing is claimed until the cache is reset.
LEMMA SwapsAreRecent ==
  ASSUME CacheInv, CacheInv', AccountInv, NEW w \in Worker, SwapEpoch(w)
  PROVE  AccountInv'
<1> DEFINE j == [job[w] EXCEPT !.epoch = 0]
<1>1. /\ pc \in [Worker -> Places] /\ job \in [Worker -> Jobs] /\ AccountKnown(w) /\ pc[w] = "swap"
      /\ UNCHANGED <<login, seen, cache>> /\ cacheEpoch' = job[w].epoch
      /\ job' = [job EXCEPT ![w] = j]
      /\ pc'[w] = IF cacheEpoch # job[w].epoch THEN "reset" ELSE "catalogue"
      /\ \A v \in Worker \ {w} : pc'[v] = pc[v]
  BY ThreadIsTyped DEF CacheInv, CacheTypeOK, AccountInv, SwapEpoch, Goto, graph, cache
<1>2. cacheEpoch' <= seen' /\ seen' <= login'
  BY <1>1 DEF AccountKnown, AccountInv
<1>3. OneAccount(j)
  BY <1>1 DEF AccountKnown, OneAccount, Jobs
<1> HIDE DEF j
<1>4. job'[w] = j /\ \A v \in Worker \ {w} : job'[v] = job[v]
  BY <1>1
<1>5. Settled' => Settled /\ cacheEpoch' = cacheEpoch
  BY <1>1 DEF Settled
<1>6. \A a : Recent(a) => RecentNext(a)
  BY <1>1, <1>5 DEF Recent, RecentNext
<1>7. CacheRecent'
  BY <1>1, <1>6 DEF AccountInv, CacheRecent, cache, Recent, RecentNext, Settled
<1>8. AccountKnown(w)'
  BY <1>1, <1>3, <1>4 DEF AccountKnown, OneAccount
<1>9. ASSUME NEW v \in Worker \ {w} PROVE AccountKnown(v)'
  <2>1. AccountKnown(v) /\ pc'[v] = pc[v] /\ job'[v] = job[v] /\ generation' = generation /\ seen' = seen
    BY <1>1, <1>4 DEF AccountInv, cache
  <2> QED
    BY <1>6, <2>1 DEF AccountKnown, OneAccount, Recent, RecentNext, Settled
<1> QED
  BY <1>2, <1>7, <1>8, <1>9 DEF AccountInv

\* A login, and time: no thread moves.
LEMMA TheRestIsRecent ==
  ASSUME CacheInv, CacheInv', AccountInv,
         SignIn \/ CatalogueExpires \/ (\E id \in Id : EntryExpires(id)) \/ UNCHANGED vars
  PROVE  AccountInv'
<1>1. /\ UNCHANGED <<seen, cacheEpoch, generation, pc, job>> /\ login <= login'
  BY AccountsAreNumbers DEF SignIn, CatalogueExpires, EntryExpires, vars, graph, cache
<1>2. catalogue'.lists = catalogue.lists /\ (catalogue' # NoCatalogue => catalogue # NoCatalogue)
  BY DEF SignIn, CatalogueExpires, EntryExpires, vars, graph, cache, CacheInv, CacheTypeOK, NoCatalogue
<1>3. \A id \in Id : entries'[id] # NoEntry => entries[id] # NoEntry
  BY DEF SignIn, CatalogueExpires, EntryExpires, vars, graph, cache, CacheInv, CacheTypeOK, NoEntry, Entries
<1>4. CacheRecent'
  BY <1>1, <1>2, <1>3 DEF AccountInv, CacheRecent, Recent, Settled
<1>5. \A w \in Worker : AccountKnown(w)'
  BY <1>1 DEF AccountInv, AccountKnown, OneAccount, Recent, Settled
<1>6. cacheEpoch' <= seen' /\ seen' <= login'
  BY <1>1, AccountsAreNumbers DEF AccountInv, SignIn, CatalogueExpires, EntryExpires, vars, graph, cache
<1> QED
  BY <1>4, <1>5, <1>6 DEF AccountInv

\* A server that has just started holds nothing.
LEMMA InitIsRecent == Init => AccountInv
BY LoginsAssumption DEF Init, AccountInv, CacheRecent, AccountKnown, OneAccount, NoJob, Of, NoCatalogue

\* Every step keeps the invariant.
LEMMA NextIsRecent == CacheInv /\ CacheInv' /\ AccountInv /\ [Next]_vars => AccountInv'
<1> SUFFICES ASSUME CacheInv, CacheInv', AccountInv, [Next]_vars PROVE AccountInv'
  OBVIOUS
<1>1. ASSUME NEW w \in Worker, Refilling(w) PROVE AccountInv'
  BY <1>1, EndsAreUnclaimed, StepsAsideAreUnclaimed, ChunksAreUnclaimed, TokensAreRecent,
     AnswersAreRecent, KeptListsAreRecent, WalksAreOfLongLists, CataloguesAreRecent DEF Refilling
<1>2. ASSUME NEW w \in Worker,
             \/ Begin(w) \/ ObserveToken(w) \/ SwapEpoch(w) \/ ResetCache(w)
             \/ CatalogueHit(w) \/ CatalogueMiss(w) \/ CatalogueFilled(w) \/ FetchCatalogue(w)
      PROVE  AccountInv'
  BY <1>2, EndsAreUnclaimed, TokensAreRecent, SwapsAreRecent, ResetsAreRecent,
     CatalogueIsTheAccounts, StepsAsideAreUnclaimed
<1>3. ASSUME NEW w \in Worker,
             \/ ReadHit(w) \/ ReadMiss(w) \/ ReadFilled(w) \/ Fetch(w)
             \/ MutateToken(w) \/ Mutate(w) \/ MutateRefused(w)
             \/ InvalidateAfter(w) \/ NoInvalidation(w)
      PROVE  AccountInv'
  BY <1>3, EndsAreUnclaimed, StepsAsideAreUnclaimed, ChunksAreUnclaimed, InvalidationsAreRecent
<1> QED
  BY <1>1, <1>2, <1>3, TheRestIsRecent DEF Next

(***************************************************************************)
(* server.rs, observe_token: with the cache's epoch the provider's, and no *)
(* reset still to come, the catalogue and the one-page lists are of the    *)
(* account of that epoch, whatever was on its way in when the login came.  *)
(***************************************************************************)
THEOREM ResetHolds == Spec => []ResetCacheIsTheAccounts
<1>1. Spec => []CacheInv
  BY InitIsSafe, NextIsSafe, PTL DEF Spec
<1>2. Spec => []AccountInv
  BY <1>1, InitIsRecent, NextIsRecent, PTL DEF Spec
<1>3. CacheInv /\ AccountInv => ResetCacheIsTheAccounts
  BY AccountsAreNumbers DEF AccountInv, CacheRecent, Recent, Settled, ResetCacheIsTheAccounts
<1> QED
  BY <1>1, <1>2, <1>3, PTL
================================================================================
