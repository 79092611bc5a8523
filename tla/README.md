# Verification of microsoft-todo-mcp

`microsoft-todo-mcp` is an MCP server, in Rust, that lets an assistant read and
change the Microsoft To Do tasks of one account. This directory holds TLA+
specifications of its core, TLC configurations that check them on small
instances, and TLAPS proofs for every value of the constants. Paths like
`auth/mod.rs` are below `src/src/`.

What to read first: `TokenProvider.tla` and `TaskCache.tla` are where the
program is hardest, `TokenStore.tla` and `GraphGate.tla` are two protocols with
complete proofs, `WriteTools.tla` is what a user sees of it all.

## 1. The system

### Components, their state and their operations

| component | state | operations |
|---|---|---|
| token store, `auth/store.rs` | `token.json`, `.token.lock`, `token.json.tmp.*` in a directory shared by all processes | `observe`, `load`, `save_atomic(Login/Refresh)`, `delete`, `delete_if_unchanged` |
| token provider, `auth/mod.rs` | `ProviderState` under a mutex: cached access token, live scope, last failure, what was seen of the file, epoch | `token()` = notice the file, then `refresh_locked`; `invalidate()` after a 401; `status` |
| Entra client, `auth/entra.rs`, `auth/aadsts.rs` | none | the refresh and device-code forms, the classification of the refusals |
| device-code login, `auth/device_code.rs`, `cli/commands.rs` | none that outlives the command | poll for the grant, stamp a file, save it |
| Graph client, `graph/{mod,client,retry}.rs`, `sem.rs` | the semaphore, the one-shot `Prefer` flag, statistics; a `Budget` per tool call | `send` with retries, one 401 re-read, back-off; `send_get` |
| paging and batching, `graph/{paging,batch,tasks}.rs` | none | `get_collection`, `continue_collection`, `batch_get` |
| task cache, `cache.rs`, `server.rs` | catalogue, lists with TTL, generation, mailbox label under a read-write lock; `cache_epoch`; the `refill` mutex | `observe_token`, `catalogue`, `sync_lists`, `list_tasks`, `invalidate_list`, the resets |
| tools, `tools/*.rs` | search cursors are in the client's hands | dispatch, read tools, write tools, cursors |
| HTTP and MCP, `http.rs`, `mcp.rs` | four workers, a stop flag, a drain flag | accept, answer, respawn, drain |
| commands, `cli/commands.rs` | bearer file, signal flags | serve, login, logout, token, doctor, healthcheck |
| configuration, `config.rs` | the data directory | resolve the environment, prove that the directory can be written |
| domain functions, `domain/*.rs` | none | dates, due windows, list names, bodies |
| rendering, logging, errors | none | wording |

### How they interact

A tool call runs on one of the HTTP worker threads. `dispatch` asks the
provider for a token to learn the *epoch* (`observe_token`) and resets the cache
when the epoch has moved. A read tool then works from the catalogue and the
lists in the cache; what is missing it fetches, one thread at a time, under the
`refill` mutex, with `$batch` requests and page walks. A write tool sends its
mutations one after the other and invalidates the lists they touched. Every
request takes one unit of the call's budget, then a token, then a permit of the
semaphore. The lock order is refill, provider state, permit, cache
(`server.rs:6`).

The provider's truth is `token.json`, which other processes change at any time:
`login` and `logout`, and `doctor`, which refreshes like the server does. No lock
is held across a redeem on the network, so every answer of the token endpoint is
reconciled with whatever file is there by then.

Before any of that, `serve` resolves its configuration, settles the bearer of
its endpoint with whoever else does (`token`, another `serve`), and refreshes
once; `doctor` looks at the same things and says what is wrong with them. From
its first statement to its last a signal may come. An HTTP request passes the
guards of `http.rs`, then `mcp.rs` handles its messages one by one.

### What is hard

* **Interleaving of processes on `token.json`**: logins, logouts, and refreshes
  whose answer arrives after the file changed; a deletion of a dead token that
  must not hit a new login; an adopted file of another account.
* **Crashes and power cuts** between the system calls of a save; the flock's
  inode; leftovers of killed processes.
* **Interleaving of threads on the cache**: data fetched before a write or a
  login arrives after it; the epoch and the cache are two variables.
* **Requests whose outcome is unknown**, and retries of them.
* **Waiting**: the state mutex, the refill mutex and the flock are all held
  across slow operations, and a semaphore has no queue.
* **Budgets and deadlines** that run out in the middle of something: of a page,
  of a list of writes, of a drain.
* **Panics and signals**: a worker that ends, a tool that panics inside a batch, a
  signal during the boot.
* **What was seen and what is so**: a cursor, a mirror of a checklist, a cached task
  that makes a write unnecessary, a sync that was cut short.
* **Code that says one thing twice**: `doctor` and `serve`; the agenda, the search
  and the counts; the text written and the text read back.

### What makes each component correct

* store: operations atomic and durable; mutual exclusion; every operation ends.
* provider: no answer from an account that was replaced before the call began,
  nor with another token's grant; a refresh never undoes a logout or a login; a
  failure is remembered for its file only; the mutex is always given back.
* cache: it holds no list without a change the server itself has reported; after
  a reset, nothing of the account before; a fill always lets the next one in.
* Graph client: no permit lost, no waiter forgotten, no mutation stopped by its
  budget or repeated against the rules, every call ends.
* tools: every item of a call is reported once and as it was; what is called
  unchanged, or not found, was so; the pages of a search meet; a checklist that is
  returned is the server's.
* HTTP and commands: every message is answered; a worker that ends is replaced; a
  signal ends the process, with what it had taken answered or counted; all who
  settle a bearer have the same one; what stops `serve` is a finding of `doctor`, but
  for the bearer file and the address, which only `serve` tries; a refused login
  leaves no file, and an interrupted one none that was not vetted.
* domain: a task is due on the date its owner gave, in whatever zone it comes back;
  the agenda, the filters and the counts agree; a body comes back as written; a
  longer name never finds a list that a shorter one left out.

## 2. Modules

| module | models | of |
|---|---|---|
| `TokenFiles` | `token.json` as a value; the decisions of the store | `auth/store.rs` |
| `TokenProvider` | providers in processes and threads, login, logout, endpoint | `auth/mod.rs` |
| `AtomicTokenStore` | what the store promises: the abstract specification | `auth/store.rs` |
| `TokenStore` | the store, system call by system call | `auth/store.rs` |
| `TaskCache` | cache, epoch, fills, writes, logins | `server.rs`, `cache.rs`, `tools/write.rs` |
| `GraphGate` | the semaphore | `sem.rs` |
| `GraphCalls` | budgets, `send`, mutations, page walk, batch rounds, over the gate | `graph/*.rs`, `tools/write.rs` |
| `Grants` | scopes, the vetting of a grant, what an error of Entra means | `auth/mod.rs`, `auth/aadsts.rs`, `auth/entra.rs` |
| `DeviceLogin` | the poll loop of `login` and its save, over `Grants` | `auth/device_code.rs`, `cli/commands.rs` |
| `Startup` | `doctor`'s report and what stops `serve`, over `Grants` | `cli/commands.rs`, `config.rs` |
| `DataDir` | the write probe | `config.rs` |
| `AgreedBearer` | what settling a bearer promises: the abstract specification | `cli/commands.rs` |
| `BearerFile` | the bearer file, system call by system call | `cli/commands.rs` |
| `HttpPool` | `serve`: signals, boot, workers, supervisor, drain | `http.rs`, `cli/commands.rs` |
| `HttpRequests` | one HTTP request: guards, messages, panics | `http.rs`, `mcp.rs` |
| `SearchCursor` | a paged search over a cached list | `tools/read.rs`, `tools/cursor.rs`, `tools/render.rs` |
| `WriteTools` | the calls that write tasks, guards to report | `tools/write.rs`, `tools/guards.rs` |
| `Checklist` | `todo_manage_checklist` | `tools/write.rs` |
| `DueDates` | dates, due windows, sections of the agenda | `domain/datetime.rs`, `domain/filter.rs`, `tools/read.rs` |
| `ListNames` | how a name finds a list | `domain/resolve.rs`, `server.rs` |
| `Bodies` | HTML to text, and text to HTML | `domain/text.rs` |
| `MC...` | instances for TLC; `MCCommands` and `MCTools` put six components side by side, `MCTokenStore` two | |
| `TokenProviderProofs`, `TokenLedgerProofs`, `TokenStoreProofs`, `TaskCacheProofs`, `GraphProofs`, `CommandProofs`, `ToolProofs`, `ReadProofs` | theorems and their proofs | |

`TokenProvider` treats each store operation as one step. That is what
`AtomicTokenStore` says, and `TokenStore` is shown to implement it
(`ImplementsAtomicStore`, checked and proved); so is `BearerFile` to implement
`AgreedBearer` (`ImplementsAgreement`). `GraphCalls` extends `GraphGate`
and every step of it is a step of the gate or leaves the gate alone
(`CallsUseTheGate`, proved). `TaskCache` uses an idealised provider, one that
notices each login as it asks for a token; `TokenProvider` says where the code
falls short of that (`EpochSeparatesLogins`). `DeviceLogin` and `Startup` share the
policy of `Grants`, so that what a login saves is what a start accepts.
`WriteTools` has the catalogue, the cache and the loop of a call; its writes are one
step each, because what may come between a request and its invalidation is
`TaskCache`'s business, and what its retries may do is `GraphCalls`'.

**Side by side.** `MCCommands` and `MCTools` each hold six components that share no
state, and `MCTokenStore` two. The first step of a behaviour decides which of them runs,
and the others stay as they were: the state space is their sum, not their product, and
every property is about the variables of one of them. The conjunct that keeps the
others still (`PoolIdle`, `DateIdle`, ...) restricts what runs together, not what a
component may do.

### From the code to the models

**TokenProvider.** `pc` of a thread is where it is in `TokenProvider::token`: before
`observe`, between it and the load in `notice_token_file`, at the entry of
`refresh_locked`, before its load, at the endpoint, before
`delete_if_unchanged`, before `save_atomic`. `Holds` is the state mutex. A file is
identified by its stamp `obtained_at`; each file has its own, so the stamp also
stands for the `(mtime, len, inode)` that `observe` compares. `chain`, the login a
file descends from, is history: it stands for the account. An I/O error may strike
at any load, save, delete: those are the alternatives without a guard
(`LoadRefused`, `SaveRefused`, `DeleteSpared`, `NoticeReplaced`). A token is fresh,
inside its refresh margin or expired, a failure remembered or not; both change
by actions that may happen at any time. `doctor` is a process like the server: it
asks several times and then exits (`Crash`). Not modelled: what is only reported (status, counters, logs), and
the clock as such. A clock set back between two saves would order their stamps
wrongly, which is a hazard of its own (`auth/store.rs:218`).

**TokenStore.** One action is one system call. The lock belongs to an inode, not to
a name, so that an unlinked lock file would be visible. `survivors` is what the
name `token.json` may lead to after a power cut, until the directory is synced;
a file that was not synced may then be whole or torn. A failing `fsync`, which
the code ignores, is not modelled, nor is the text of the JSON.

**TaskCache.** What a list holds is the number of changes made to it so far, and
data is stale when it misses one. `generation`, `mailbox`, `catalogue`, `entries`,
`cacheEpoch` and `refill` are the code's; `job` holds the local variables of a
tool call. The TTL may pass at any time; which lists a put evicts is any set of
others. A list longer than a page keeps the version of its first page.
`reported` is history: the changes a tool has reported. A request of unknown outcome
is modelled as one that Graph carried out. A write that needs its list is a sync
followed by a write.

**GraphGate, GraphCalls.** The notify of a dropped permit is a step of its own,
after the increment, as in `Permit::drop`. `call` holds the `Budget` and the
locals of `send` and of the loop around it. The answer to a request is one of
a few kinds; a timeout, an I/O error, a 500 and a 502 are one kind ("broken"),
because `retryable` and the transport branch treat them alike. PATCH is treated
as POST is. A sleep holds nothing, and so is merged with the retry it leads to. The
deadline may pass at any time. `SkipMutation` is any item that sends nothing:
unresolved, refused, unchanged, after the deadline, or a checklist item of a
task that was not created. One page walk stands for the walks of a call; its budget and its
page limit are both `MaxPages`, as `Budget::for_tool` has it.

**BearerFile.** One action is one system call of `settle_bearer`; an inode and the
bearer written to it have one number. `read_to_string` is two reads: only the shared
lock keeps a process that fills the file from coming between them. The operator
may delete or replace the file, a process may be killed; `touched` is history,
since what the operator does ends the promise. In the terms of
`AgreedBearer`, what there is is the bearer in the file that the path leads to: the link of
a draft, or the filling of a blank file, generates one; a roll-back of what could not be
synced withdraws it; a return answers. No power cuts, and no `flock` that
fails (`read_bearer` then reads without it).

**HttpPool.** `booting` and `stopping` are `Shutdown`'s; the three actions that a
signal registers are three steps, because the main thread runs between them. A
worker is looking for a request, waiting for one, in one, or gone; it may be in one
for ever. `tiny_http` is external: `recv_timeout` gives a request, nothing or an error.

**HttpRequests.** A request is its method, path, headers and body as far as the
guards tell them apart; a message is its id and one of eight kinds. The JSON of the
responses is their id and code.

**Startup.** A machine is what `doctor` and `serve` can find: which variables are
rejected, the configured client and scope, the directory, the bearer file, whether
`serve` can listen on its address, what Entra and Graph would answer. `ServeExit` is the
verdict of `serve` on it. A bearer file is there, or can be created or filled; or it
cannot: it is no regular file, a dangling link, unreadable, absent where nothing can be
created (no directory, no permission, no hard links), or blank and read-only. `doctor`
asks for its metadata only, and so finds the first two of these. The instance has a
good machine and all that differ from it in one or two respects.

**DeviceLogin.** The clock counts seconds; a sleep or a poll may take longer than
asked. `told` and `lastPoll` are history. The save and the end of the command are two
steps: the rename of `save_atomic` is the last thing that can fail, and an interrupt may
come between it and the report, as it may anywhere.

**WriteTools.** `targets`, `report`, `warned` are the code's vectors; an item is what
`Resolved` and the arms of the loop make of it. Other clients and other calls of the
server change tasks at any time. `sent`, `applied` and `held` are history: what was
asked for, what was carried out, what each task has been since it was looked at.

**Checklist.** Names are compared without the blanks around them and without the case
of ASCII letters (`tools/write.rs:1019`); the copy is updated arm by arm as in the code,
and items are a set because their order is only shown.

**SearchCursor.** One list stands for the tasks of a search: its entry in the cache,
the generation and the mailbox label are `cache.rs`'s. A search is two steps, because
the code reads the generation after it has gathered the tasks. The clock counts in the
units of the cursor's lifetime.

**DueDates, ListNames, Bodies.** Operators for the code's functions; their actions
enumerate the inputs. A zone has one change of clocks, because `local_to_instant`
looks at one wall clock; a letter is folded to a letter; a body is a sequence of
tokens, each a character, the name of an entity, or a tag. A `<` by itself opens a tag,
as it does in the code, and takes the name of a tag right behind it; no token but a tag
spells the name of one.

## 3. Runs

| run | instance | checks |
|---|---|---|
| `two_processes` | server and `doctor`, one thread each, and symmetric; 3 stamps, 1 login, 2 scopes, foreign configurations | `TokensAreCurrent`, `NewLoginIsTried`, `GrantIsTheTokens`, `NoticedFileIsHeld`, `RefreshReplacesOlder`, `OnlyTheDeadIsDeleted` |
| `store` | two processes, 3 stamps, 2 lock inodes; and, side by side with them, two threads of one server, 3 stamps, 2 logins | `OneInside`, `NeverTorn`, `LiveTmpIsThere`, `ImplementsAtomicStore`, `OperationsEnd`, `MutexIsReleased` |
| `cache` | two threads, one short list, 2 accounts, 1 change | `CacheSeesOwnWrites`, `ResetCacheIsTheAccounts` |
| `cache_released` | two threads, a short and a long list, batches of one | `RefillIsReleased` |
| `commands` | six components side by side, below | 15 properties, below |
| `tools` | six components side by side, below | 10 properties, below |

In `commands`:

| component | instance | property | what it says |
|---|---|---|---|
| `BearerFile` | 2 processes, 2 attempts, 3 inodes, 2 touches | `BearersAgree` | whoever settled the bearer has the one in the file |
| | | `ImplementsAgreement` | one bearer, made once, taken back only unseen, and given to all |
| `HttpPool` | 2 workers, 1 respawn, 2 signals | `DrainedIsAnswered` | a clean stop leaves no request taken and not answered |
| | | `SignalEndsServe` | a signal ends the process, in whatever phase, whatever the workers do |
| | | `WorkersAreReplaced` | a worker that ended is replaced, or the process stops |
| `DeviceLogin` | 4 offers, late sleeps and polls | `PollsKeepTheInterval` | no poll before the interval asked for, none after the code's life |
| | | `OnlyVettedLoginsAreSaved` | a refused grant leaves `token.json` as it was, and an interrupt no file that was not vetted |
| `Startup` | every machine up to two respects from a good one | `CleanReportMeansServeStarts` | where `doctor` finds nothing, only the bearer file or the address can stop `serve` |
| `HttpRequests` | every guard, every kind of message, batches of up to 3 | `MessagesAreAnswered` | each message that is due an answer gets one, in order, under its id |
| `GraphCalls` | 2 threads, 1 permit, 2 attempts, 2 pages, 1 mutation | `TypeOK`, `PermitsAreConserved`, `NoPermitIsIdle`, `AllowanceStopsNoMutation`, `OnlyGatewaysRepeat`, `CallsEnd` | no permit lost or slept beside, no mutation stopped by its budget or repeated against the rules, every call ends |

In `tools`:

| component | instance | property | what it says |
|---|---|---|---|
| `SearchCursor` | 3 tasks, pages of 1 and 3, 2 writes, 1 change by others | `PagesMeet` | a walk to its end has shown each task once, in order |
| `WriteTools` | 2 tasks in 2 lists, one of them protected; 7 calls | `OutcomesAreAccounted` | each item is reported once, and as what was done |
| | | `UnchangedIsRecent` | what is called unchanged was so since the call looked |
| | | `NotFoundIsSo` | what is called not found had gone |
| `Checklist` | calls of up to 5 operations on 2 names and 2 ids | `ChecklistAfterIsTheServers` | the list returned is the server's, and the cache forgets what was written |
| `DueDates` | 7 zones, 3 dates, 3 moments | `DatesAreThoseMeant` | a date comes back as its owner gave it |
| | | `AgendaAgreesWithSearch` | agenda, filters and counts agree |
| `ListNames` | 512 catalogues of 3 names, queries of 3 letters | `MoreLettersNarrow` | a longer query finds nothing that a shorter one left out |
| `Bodies` | every text and page of up to 4 tokens | `NotesComeBack` | a body that was written is read back |
| | | `WritingBackChangesNothing` | the text shown of a body, written back, is shown again |

Runs that end in a counterexample, because the code does not do what its
documents or comments say (section 5): `login_overwritten`, `epoch_missed`,
`long_lists`, `catalogue_cut_short`, `probe_left`, `swallowed`.

The runs of invariants over components that may come to rest, a settled bearer, an ended
process, a used-up bound, say `CHECK_DEADLOCK FALSE`; what must go on is a liveness
property instead. The type invariants of the two token modules are proved, and no run
repeats them.

### Why these bounds

* Three stamps are a file, and two that replace it: a refresh, and a login or
  another refresh that overtakes it. The redeem loop adopts once, so a fourth
  file adds an error path only; `login_overwritten` and `epoch_missed` take four
  because they need a login *and* two refreshes. Epochs wrap at 2 so that the wrap
  happens.
* Two processes suffice for every race on the file: the code compares the file it
  redeemed with the one that is there, never three.
* Two threads on the cache are one that fetches and one that writes, or one that
  fetches and one that waits. One change per list is enough to be missing; two
  accounts are the one before a login and the one after it.
* In `cache` and in `long_lists`, lists of one page and longer ones are apart,
  because the promise fails for the longer ones.
* One permit and two threads make the gate contended at every request; two
  attempts have a first, a repeated and a last one; two pages have a nextLink.
  One mutation per call is the largest instance that is checked with liveness in a
  reasonable time; `AllowanceIsEnough` is proved for any number.
* Two processes at the bearer are one that creates and one that fills; two touches
  are a blank file, and another in its place while it is being filled. Two
  attempts have a retry and a last one. `BearersAgree` and
  `ImplementsAgreement` are proved for any number.
* One respawn and two workers have a pool that is whole, one that is replaced and one
  that collapses. Two signals are all that the handlers tell apart.
* The offers of a login are one with an interval of zero, which the loop raises to 1, one
  with a lifetime of zero, one that fits and one near the limit of 60 seconds. An interval
  that Entra leaves out is 5 (`auth/entra.rs:29`), which is among them.
* Two tasks in two lists have a call that succeeds for one and not for the other, a
  list that is fetched and one that is not, a wrong list argument, and a protected one.
* Three tasks and pages of one have a page that is cut, a second and a last one. Two
  writes are one before a page and one while it is made.
* The zones have a midnight that is left out, one that comes twice, a day that is
  left out, an offset of 45 minutes, and a change of clocks next to midnight.
* Four tokens have an entity that is escaped twice, a span with text behind it, and a
  blank between two characters. Both properties of bodies are proved for any length.

### Fairness, and why the code justifies it

* `store`, provider: weak fairness of the sections a thread runs with the state mutex.
  The redeem has time limits (connect 5 s, the whole request), each store
  operation is one bounded section under the flock, and the loop adopts once.
  Nothing is assumed of the threads that wait for the mutex.
* `store`, system calls: weak fairness of each process's system calls and strong fairness of
  `flock`, which the kernel serves in turn. Without the latter a process could be
  overtaken for ever.
* `cache_released`: weak fairness of the thread that holds the refill mutex; its
  requests have the time limits above.
* `commands`, calls: weak fairness of every thread, of the passing of each deadline, and of
  the end of a timed wait once the deadline has passed. The gate has no order,
  and none is assumed: a call that is always overtaken ends with its deadline.
* `commands`, pool: weak fairness of the main thread, whose steps all have a time limit, of
  the passing of the drain's five seconds, and of each signal handler once it has
  begun. Nothing is assumed of the workers: a request may take for ever.

## 4. Proofs

TLAPS checks these for any number of processes, threads, lists, accounts, stamps,
permits, attempts and mutations, and for any calls, messages, tasks, zones and names,
from the assumptions the modules name (`...Assumption`), all of which TLC evaluates in
the runs. They say what kind of value a constant is; two say more, of Graph: the items of
a checklist have ids of their own (`ChecklistsAssumption`), and the ids it gives to new
items are no other item's (`NewIdsAssumption`). `NoteAssumption` says that a user types a
tag character by character.

| module | theorems | argument |
|---|---|---|
| `TokenProviderProofs` | `TypeCorrect` | `TypeOK` is inductive as it stands |
| `TokenLedgerProofs` | `RefreshOnlyReplaces`, `OnlyTheDeadGoes` | `LedgerInv`, below |
| | `TokensStayCurrent`, `GrantsStayWithTokens`, `NoticedFileStaysHeld` | `HoldInv` over it |
| | `NewLoginsAreTried` | `FailInv` over both |
| `TokenStoreProofs` | `StoreTypeCorrect`, `MutualExclusion`, `NeverTornAlways`, `LiveTmpIsNeverSwept`, `StoreIsAtomic` | the lock invariant, then the files, then the refinement |
| `TaskCacheProofs` | `OwnWritesAreSeen` | `CacheInv`, below |
| | `ResetHolds` | `AccountInv` over it |
| `GraphProofs` | `CallsUseTheGate`, `CeilingHolds`, `NoWakeupIsLost`, `AllowanceIsEnough`, `NothingIsRepeated`, `GraphTypeCorrect` | `GateInv` and `CallsInv`, below |
| `CommandProofs` | `TheBearerIsAgreedOn`, `BearerTypes` | `BearerInv`, below |
| | `TheBearerIsOne` | the refinement of `AgreedBearer`, over `BearerInv` |
| | `PollsArePaced`, `SavedLoginsAreVetted` | `PaceInv`, `SaveInv` |
| | `CleanReportsHold` | `StartInv` |
| | `NothingIsDroppedSilently` | `DrainInv` |
| | `EveryMessageIsAnswered` | `RequestInv`, below |
| `ToolProofs` | `WritesAreAccounted`, `UnchangedIsSeldomOld`, `NotFoundIsNeverPartial` | `WriteInv`, below |
| | `ChecklistAfterIsRight` | `ChecklistInv`, below |
| `ReadProofs` | `PagesAlwaysMeet`, `WalksShowEachOnce` | `WalkInv`, below |
| | `DatesComeBack`, `AgendaAndSearchAgree`, `MoreLettersAlwaysNarrow` | the algorithms, below |
| | `NotesAlwaysComeBack`, `WritingBackIsHarmless` | recursion over a body, below |

**`LedgerInv`.** The code compares stamps only: it deletes a file "if unchanged"
and saves over one that is "not newer". That this is right needs an invariant over
every file there is, on disk, in the hands of a thread that redeems it, stamped by
a login and not saved: a stamp names one file (`StampsName`), none is later than
the clock, and the stamp a redeem was given is nobody else's. From it, equal
stamps are equal files, and a refresh's stamp is later than that of the file it
replaces. `OnlyTheDeadGoes` and `RefreshOnlyReplaces` then follow step by step.

**`HoldInv`.** The account of a token is no field of the provider: it follows from the
stamps. Every file known by the stamp the provider remembers, and every file that
was refreshed from that one, is of the chain of its token (`Holding`, `Lineage`); so
`is_rotation_of` may keep the token. A call that has looked at the file has then seen
the chain of the token it may answer with, because a token of another chain can only
come into the provider with a file that is written while the call runs. Each step
moves a provider in one of three ways (`Moves`): it is left alike, it follows a
rotation, or it holds what it has just written; and the invariant is shown for these.

**`FailInv`.** The failure and the file noticed are two fields, which any thread of the
process may bring up to date. The failure is about the file on disk, if that is the
one noticed; a thread that redeems, while the file noticed is on disk, redeems
that one; and a call beside it has seen what it redeems. The last two hold because no
other thread can notice anything while the mutex is held (`OneHolds`).

**The store.** `MutualExclusion` needs more than "the lock is held": every open
handle is on the inode that `.token.lock` names, because nothing unlinks it. With
that, one process at a time writes, so the temporary file of a save is there and
whole when it is renamed (`LiveTmpIsNeverSwept`), so `token.json` is whole and
synced (`NeverTornAlways`), so each system call maps to a step of
`AtomicTokenStore` or to none (`StoreIsAtomic`).

**`CacheInv`** is the argument of `generation`: whatever a thread has fetched, and not yet
put, has every change reported so far, as long as the generation is the one it read
before it asked. The step that reports a change drops the list and raises the
generation. So what is put under an unchanged generation misses nothing.
The pages of a longer list are exempt, for the reason in section 5.

**`AccountInv`** says the same of logins: the epoch of the cache never passes the one last
noticed; whatever is cached, or on its way with the current generation, belongs to an
account that has been noticed, and to none before the epoch of the cache, except
while a thread is between its swap of the epoch and its reset. The reset raises the
generation, and so sends away what is still on its way.

**`GateInv`** is the two properties of the gate with its types: each is preserved by
the arithmetic of one member joining or leaving a finite set. The point of
`NoPermitIsIdle` is who answers for a free permit: those woken, and those between
the increment and the notify. It is lost when a waiter may give up without
taking the mutex again.

**`CallsInv`** relates the budget to the attempts: what is left of a write's allowance,
and what the send under way has spent of it, covers the whole ladder of this
mutation and of all that follow. A send spends an attempt or the one 401, never more
than `MaxAttempts + 1`. `NothingIsRepeated` adds that no request that was carried
out without a word is sent again.

**`BearerInv`**: an exclusive `flock` excludes every other; a process that holds one knows
what the inode contains, because it read it under the lock; as long as the operator
stays away, the path leads to the file that a process has opened (`PathStays`); so what a process
has found is final (`FoundIsFinal`). The draft of a process is its own until it is linked.

**`TheBearerIsOne`** maps each system call to a step of `AgreedBearer` or to none
(`StepIsAgreed`). Most are none: what is done to a draft, or to a handle, changes neither
the bearer in the file that the path leads to nor what anyone was given. A link finds no
file, and a filler a blank one, so neither replaces a bearer (`Generate`). A draft that was
linked is not blank, so that nobody fills it or takes it back (`Published`). While a
process may still take back what it wrote, nobody has been given anything since the
operator last came: what anyone was given is final (`FoundIsFinal`), and this is not
(`Withdraw`). For the same reason a return gives what there is (`AnswerIsAgreed`).

**`PaceInv`** keeps the interval of the loop at what was asked for, or at the limit, and says
that a sleep ends an interval after the last poll at the earliest. **`SaveInv`**: the file
is untouched until it is saved, which only a vetted grant is; from then on it is the vetted
one, and the command can only report it or be interrupted. **`DrainInv`**: a worker the drain has come
past has ended, or it is among those counted as unfinished.

**`StartInv`**: what `doctor` has written down so far is what the machine it looked at
gives; a machine for which none of its checks fails passes each of the gates of `serve`,
gate by gate, but for the two that `doctor` does not try: the bearer file, where
it can be neither read nor created nor filled, and the address.

**`RequestInv`**: what is left of the body is its end, and the responses so far are those
to the messages before it: as many as there are messages with an answer due, each with
the id of its message, in their order. The place of an answer is the number of due
messages up to its own, which grows by one or by none with each message handled.

**`WriteInv`** is about what a call believes of tasks it does not hold. `held` is all that a
task has been since somebody may have looked; the entries fetched since then, the
snapshots of a sync, and what `targets` says of each item are true of some moment in
`held` (`EntrySound`, `SyncInv`, `TargetSound`), whatever others do meanwhile, because
`held` only grows while a call runs. The loop adds: each of the first `index - 1` items is
reported once, as untouched just when no request for it was sent, and as done only when
it was carried out (`Reported`), with each checklist item of a created task carried out or
warned of. None of the three properties is inductive without all of it.

**`ChecklistInv`**: the copy is the checklist of the server as long as nothing failed and
nobody else came in. It needs the ids: an item at the server has an id of its own, and
none that an item still to be added will get; otherwise the arm that patches a copy by
id changes two items.

**`WalkInv`**: a search walk that is not excused has shown just what comes before its
cursor, in the order of the tasks that match now and that did when it began; but only if
the cursor is up to date (`UpToDate`), since a write of this server makes both wrong at
once, and the generation is what tells. The page cut for its size is the beginning of
the whole page (`PageFollows`). The order is that of `Sorted`, which is proved to hold
each element of its set once and ascending (`SortedIsInOrder`), so `WalksShowEachOnce`
says of `PagesAlwaysMeet` what a reader wants to know: nothing twice, nothing missed.

**The algorithms.** An instant that `local_to_instant` finds has the wall clock looked
for, or one of the next few quarters (`LocalToInstantIsRight`), so it is on the date that
was given; and the least of a set of numbers, which all of this goes by, exists because
the natural numbers are well-founded (`LeastNatural`). The sections of the agenda, taken
one by one, are the due windows of the filter. A longer query is found only where the
query without its last letter is (`LessIsFoundByLonger`), tier by tier.

**Bodies.** `CollapseWhitespace` and `StripTags` are recursive functions over a text of any
length, the first from its beginning, the second from its end. That there are functions
with these equations is proved: what is asked for at a place depends on the places before
it, or after it, only, so that there is one up to any place (`AfterIsDefined`,
`FromIsDefined`). Induction over a length or a place is a statement
about a set of numbers (`Inductive`, from `LeastNatural`). From the last character to the first, the scan finds each escape whole,
and gives the character back (`StripUndoesEscape`), because an escape holds no `<` but that
of `<br>`. So `NotesAlwaysComeBack`. What the scan gives of any page is text without
tags (`StripGivesText`), what is collapsed is neat (`CollapseIsNeat`), and what is neat
collapses to itself (`NeatIsCollapsed`); so what is shown is a text that comes back exactly,
which is `WritingBackIsHarmless`.

**Model-checked only**: all liveness (`MutexIsReleased`, `OperationsEnd`,
`RefillIsReleased`, `CallsEnd`, `SignalEndsServe`, `WorkersAreReplaced`), which is beyond
this prover with fairness. Every safety invariant, action property and refinement of the
passing runs is stated by a theorem.

## 5. Where the code and its documents differ

Each of these has a run whose counterexample shows it; `PROJECT.json` has the details.

* **`login_overwritten`**: a login whose stamp is older than that of a concurrent
  refresh, because it waited to save, is replaced by the next refresh of the old
  account.
* **`epoch_missed`**: a login that lands after a call has noticed the old `token.json`
  (`auth/mod.rs:637`), and before the call loads the file (`auth/mod.rs:702`), is redeemed
  and saved by the provider itself. That leaves its epoch alone, and counts the file just
  written as the one seen, so that nothing notices the login later: the task cache of the
  old account stays until something else resets it.
* **`long_lists`**: the rest of a list of several pages is stored under a generation
  read after its first page was, so that a write in between is missing. A login in
  between has the same effect (`server.rs:578`): the first page of the account before is
  put after the reset. No tool reads it, because the new catalogue does not name the list.
* **`catalogue_cut_short`**: `catalogue()` drops the flag that says that the lists did not
  all fit the budget of a call (`server.rs:261`). A task in a list beyond them is then
  "not found", where the README says that the server looks in every list. `NotFoundIsSo`
  speaks of whole catalogues.
* **`probe_left`**: a process that ends between the creation and the removal of its
  write probe leaves it, and the next process of the same number, such as the one a
  container restarts, is told for good that its directory cannot be written.
* **`swallowed`**: what follows a script or a style span of a body is read as a tag, and
  is dropped up to the next `>`.

These were met while modelling, and have no run of their own:

* A 401 clears the remembered failure with the token (`auth/mod.rs:862`), so that a
  refused refresh is tried again before the 30 seconds of `SECURITY.md:81` have passed.
* A mutation carried out at a first attempt whose answer was lost, and refused at the
  next, leaves the cached list as it was (`tools/write.rs:117`), although `cache.rs:256`
  drops the list after every success or unknown outcome. `TaskCache` has the step
  (`Mutate` with the outcome "refused"), and counts such a change as not reported.
* A page that is retried may take the last request of the budget (`graph/retry.rs:60`),
  and the call then fails instead of being incomplete as `graph/paging.rs:46` has it.
* A refresh that loses its compare-and-swap adopts the file on disk, and raises the epoch
  only where a login wrote that file (`auth/mod.rs:846`). A login that another process
  has refreshed since is thus adopted under the old epoch, with the same effect as in
  `epoch_missed`.
* `observe_token` swaps the epoch and resets the cache in two steps, between which a
  second worker reads the cache of the account before (`server.rs:188`).
* A cursor is said not to survive a restart (`docs/design/m4-cache-read-tools.md:57`), but a new
  process counts its generations from the beginning again, so that an old cursor may
  be accepted by it. `PagesMeet` excuses a restart.
* A wall clock that comes twice is said to be the same local date either way
  (`domain/datetime.rs:58`). That is so in its own zone; in another one the two may
  lie on different dates. `GivenBack` leaves such answers of Graph out.
* `doctor` asks only for the metadata of the bearer file (`cli/commands.rs:897`). One that
  cannot be read, created (`cli/commands.rs:121`) or, being blank, filled stops `serve`
  with 2 and without a finding, and so does, with 1, an address that it cannot listen
  on (`http.rs:73`). `CleanReportMeansServeStarts` says that there is nothing else.

## 6. Not modelled, and why

* HTTP forms, JSON, error texts, statistics, logging, rendering, schemas: no
  state and no concurrency.
* Recurrence (`domain/recurrence.rs`), the score of a search, Unicode folding: conversions
  over data with many cases and no interaction, which the unit tests enumerate. A
  recurrence goes into a patch as the caller gave it, so that `WriteTools` has no step
  for it.
* `todo_get_task`, `token`, `healthcheck` and `login`'s output: one
  request or one read each, with nothing that the modelled tools do not have.
* Poisoned locks: the code turns each into a reset or into the inner value.
* Power cuts at the bearer file; a clock that is set back (`auth/store.rs:218`).

## 7. Plan

What a next step would add, the most useful first:

1. **`HttpPool` with the bodies of `HttpRequests`** instead of a worker that is busy.
2. **The recurrence of a task** against a reference definition.
