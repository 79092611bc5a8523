----------------------------- MODULE TokenProvider -----------------------------
(***************************************************************************)
(* auth/mod.rs: the token providers of the processes that share one        *)
(* token.json (the server, `doctor`), the `login` and `logout` commands    *)
(* that replace and remove the file under them, and the token endpoint.    *)
(*                                                                         *)
(* One action is one section of code that no other actor can split: a      *)
(* section under the provider's state mutex that neither reads the disk    *)
(* twice nor goes on the network, or one operation of auth/store.rs, which *)
(* runs under the exclusive flock (TokenStore.tla shows why that is one    *)
(* step). Between two actions any other process, or any other thread that  *)
(* the mutex lets through, may run.                                        *)
(*                                                                         *)
(* Time is what the code compares it with: the cached token is "fresh"     *)
(* (more than REFRESH_SKEW from its end), "ending" or "expired", and a     *)
(* failure is remembered until REFRESH_FAILURE_BACKOFF has elapsed. Both   *)
(* pass by actions that may happen at any moment.                          *)
(***************************************************************************)
EXTENDS TokenFiles

CONSTANTS Provider,   \* processes with a provider of their own
          Thread,     \* threads that ask for a token
          Owner,      \* the process a thread belongs to
          Configured, \* does a login have the configuration of the processes?
          EpochWrap,  \* epochs are counted modulo this: 2^64 in the code
          MaxStamp,   \* bound on the clock reads that stamp a file
          MaxLogins   \* bound on the files that no refresh wrote

ASSUME OwnerAssumption    == Owner \in [Thread -> Provider]
ASSUME EpochWrapAssumption  == EpochWrap \in Nat \ {0}
ASSUME ConfiguredAssumption == Configured \subseteq BOOLEAN
ASSUME MaxStampAssumption == MaxStamp \in Nat \ {0}
ASSUME MaxLoginsAssumption == MaxLogins \in Nat
ASSUME ScopeAssumption    == "none" \notin Scope

VARIABLES
  disk,      \* token.json
  stamp,     \* the last clock reading that went into a file
  logins,    \* the number of files so far that no refresh wrote
  pending,   \* files of logins that have stamped them and not yet saved them
  st,        \* ProviderState of each process
  pc,        \* where each thread is in TokenProvider::token
  noted,     \* what the thread's observe() saw, between it and its load()
  base,      \* the file the thread is redeeming
  minted,    \* what the redeem returned: the stamp and scope of the new file
  tries,     \* the attempts of the redeem loop that have begun
  answer,    \* what the call returned
  during     \* history: the chains token.json belonged to since the call began

localVars == <<noted, base, minted, tries>>
vars == <<disk, stamp, logins, pending, st, pc, localVars, answer, during>>

Stamp   == 0 .. MaxStamp
Epoch   == 0 .. EpochWrap - 1
Unknown == -1     \* FileSeen::Unknown
Quiet   == -1     \* no failure is remembered

(***************************************************************************)
(* `scope` of a token is history: what was granted with that very token.   *)
(* The provider keeps what it believes in live_scope.                      *)
(***************************************************************************)
Age     == {"fresh", "ending", "expired"}
Token   == [chain: Nat, scope: Scope \cup {"none"}, age: Age]
NoToken == [chain |-> 0, scope |-> "none", age |-> "expired"]
Minted  == [at: Nat, scope: Scope \cup {"none"}]
Nothing == [at |-> 0, scope |-> "none"]

ProviderState ==
  [cached: Token, live_scope: Scope \cup {"none"}, obtained_at: Nat,
   last_failure: Nat \cup {Quiet}, file_seen: Nat \cup {Unknown}, epoch: Epoch]

Fresh == [cached |-> NoToken, live_scope |-> "none", obtained_at |-> 0,
          last_failure |-> Quiet, file_seen |-> Unknown, epoch |-> 0]

Answer   == [kind: {"none", "token", "remembered", "error"}, chain: Nat,
             granted: Scope \cup {"none"}, scope: Scope \cup {"none"}, epoch: Epoch]
NoAnswer == [kind |-> "none", chain |-> 0, granted |-> "none",
             scope |-> "none", epoch |-> 0]

PC == {"idle", "notice", "noticeLoad", "enter", "load", "redeem", "delete",
       "save", "done"}

--------------------------------------------------------------------------------
(***************************************************************************)
(* The state mutex: held from the observe to the end of the load inside    *)
(* notice_token_file, and from the load to the return of refresh_locked.   *)
(***************************************************************************)
Holds(t) == pc[t] \in {"noticeLoad", "load", "redeem", "delete", "save"}
Free(p)  == \A t \in Thread : Owner[t] = p => ~Holds(t)

Goto(t, from, to) == pc[t] = from /\ pc' = [pc EXCEPT ![t] = to]

NextEpoch(s) == (s.epoch + 1) % EpochWrap

\* Wrong: what failed in the account before still counts.
ResetKeepsFailure(s, seen) ==
  [Fresh EXCEPT !.last_failure = s.last_failure, !.file_seen = seen,
                !.epoch = NextEpoch(s)]

\* reset_state_for_file
Reset(s, seen) == [Fresh EXCEPT !.file_seen = seen, !.epoch = NextEpoch(s)]

\* The token.json changes; the calls under way have now seen its chain too.
DiskBecomes(f) ==
  /\ disk' = f
  /\ during' = [t \in Thread |-> IF pc[t] = "idle" THEN during[t]
                                 ELSE during[t] \cup {f.chain}]

\* What a call gives back, from the state s it leaves behind. The grant is
\* computed from live_scope, not from the token.
TokenOf(s) == [kind |-> "token", chain |-> s.cached.chain,
               granted |-> s.cached.scope, scope |-> s.live_scope,
               epoch |-> s.epoch]
Refusal(s) == [NoAnswer EXCEPT !.kind = "remembered", !.chain = s.last_failure,
                               !.epoch = s.epoch]
Failed(s)  == [NoAnswer EXCEPT !.kind = "error", !.epoch = s.epoch]

\* A failure does not hide a token that is still valid.
CachedOr(s, other) == IF s.cached.age # "expired" THEN TokenOf(s) ELSE other

Return(t, a) ==
  /\ pc' = [pc EXCEPT ![t] = "done"]
  /\ answer' = [answer EXCEPT ![t] = a]
  /\ noted' = [noted EXCEPT ![t] = 0]
  /\ base' = [base EXCEPT ![t] = NoFile]
  /\ minted' = [minted EXCEPT ![t] = Nothing]
  /\ tries' = [tries EXCEPT ![t] = 0]

--------------------------------------------------------------------------------
(***************************************************************************)
(* TokenProvider::token                                                    *)
(***************************************************************************)
Begin(t) ==
  /\ Goto(t, "idle", "notice")
  /\ during' = [during EXCEPT ![t] = {disk.chain}]
  /\ UNCHANGED <<disk, stamp, logins, pending, st, localVars, answer>>

\* Wrong: a token that is fresh is not worth a look at the disk.
NoticeOnlyIfStale(t) ==
  LET p == Owner[t] IN
  /\ Free(p)
  /\ st[p].file_seen \in {Unknown, Observe(disk)} \/ st[p].cached.age = "fresh"
  /\ st' = [st EXCEPT ![p].file_seen = IF @ = Unknown THEN Observe(disk) ELSE @]
  /\ Goto(t, "notice", "enter")
  /\ UNCHANGED <<disk, stamp, logins, pending, localVars, answer, during>>

\* notice_token_file, up to the load it may need.
NoticeSame(t) ==
  LET p == Owner[t] IN
  /\ Free(p)
  /\ st[p].file_seen \in {Unknown, Observe(disk)}
  /\ st' = [st EXCEPT ![p].file_seen = Observe(disk)]
  /\ Goto(t, "notice", "enter")
  /\ UNCHANGED <<disk, stamp, logins, pending, localVars, answer, during>>

NoticeAbsent(t) ==
  LET p == Owner[t] IN
  /\ Free(p)
  /\ st[p].file_seen \notin {Unknown, Observe(disk)}
  /\ disk = NoFile
  /\ st' = [st EXCEPT ![p] = Reset(@, Observe(disk))]
  /\ Goto(t, "notice", "enter")
  /\ UNCHANGED <<disk, stamp, logins, pending, localVars, answer, during>>

NoticeChanged(t) ==
  LET p == Owner[t] IN
  /\ Free(p)
  /\ st[p].file_seen \notin {Unknown, Observe(disk)}
  /\ disk # NoFile
  /\ noted' = [noted EXCEPT ![t] = Observe(disk)]
  /\ Goto(t, "notice", "noticeLoad")
  /\ UNCHANGED <<disk, stamp, logins, pending, st, base, minted, tries, answer, during>>

\* Wrong: any grant will do.
IsRotationOfAnyGrant(f, s) == f.by = "refresh" /\ f.from = s.obtained_at /\ f.ours

\* Another process refreshed the very file this provider last knew, with the
\* same configuration and the same granted scope.
IsRotationOf(f, s) ==
  /\ f.by = "refresh"
  /\ f.from = s.obtained_at
  /\ f.ours
  /\ f.scope = s.live_scope

NoticeRotated(t) ==
  LET p == Owner[t] IN
  /\ IsRotationOf(disk, st[p])
  /\ st' = [st EXCEPT ![p].obtained_at = disk.at,
                      ![p].last_failure = Quiet,
                      ![p].file_seen = noted[t]]
  /\ Goto(t, "noticeLoad", "enter")
  /\ noted' = [noted EXCEPT ![t] = 0]
  /\ UNCHANGED <<disk, stamp, logins, pending, base, minted, tries, answer, during>>

\* Any other file, or a load that fails: the state starts again.
NoticeReplaced(t) ==
  LET p == Owner[t] IN
  /\ st' = [st EXCEPT ![p] = Reset(@, noted[t])]
  /\ Goto(t, "noticeLoad", "enter")
  /\ noted' = [noted EXCEPT ![t] = 0]
  /\ UNCHANGED <<disk, stamp, logins, pending, base, minted, tries, answer, during>>

\* refresh_locked, up to its load: answer from memory when that is allowed.
FastPath(s) == s.cached.age = "fresh"
InBackoff(s) == s.last_failure # Quiet

AnswerFromCache(t) ==
  LET p == Owner[t] IN
  /\ pc[t] = "enter" /\ Free(p)
  /\ FastPath(st[p])
  /\ Return(t, TokenOf(st[p]))
  /\ UNCHANGED <<disk, stamp, logins, pending, st, during>>

AnswerFromFailure(t) ==
  LET p == Owner[t] IN
  /\ pc[t] = "enter" /\ Free(p)
  /\ ~FastPath(st[p]) /\ InBackoff(st[p])
  /\ Return(t, CachedOr(st[p], Refusal(st[p])))
  /\ UNCHANGED <<disk, stamp, logins, pending, st, during>>

MustRefresh(t) ==
  LET p == Owner[t] IN
  /\ Free(p)
  /\ ~FastPath(st[p]) /\ ~InBackoff(st[p])
  /\ Goto(t, "enter", "load")
  /\ UNCHANGED <<disk, stamp, logins, pending, st, localVars, answer, during>>

\* store::load and check_file.
Load(t) ==
  /\ Readable(disk) /\ disk.ours
  /\ base' = [base EXCEPT ![t] = disk]
  /\ tries' = [tries EXCEPT ![t] = 1]
  /\ Goto(t, "load", "redeem")
  /\ UNCHANGED <<disk, stamp, logins, pending, st, noted, minted, answer, during>>

\* Wrong: a thread that waits for the file to come back, mutex in hand.
LoadWaits(t) == pc[t] = "load" /\ ~Readable(disk) /\ UNCHANGED vars

\* The file is gone, unreadable, another configuration's, or the read failed.
LoadRefused(t) ==
  /\ pc[t] = "load"
  /\ Return(t, Failed(st[Owner[t]]))
  /\ UNCHANGED <<disk, stamp, logins, pending, st, during>>

--------------------------------------------------------------------------------
(***************************************************************************)
(* The token endpoint answers. Nothing is locked but the state mutex.      *)
(***************************************************************************)
RedeemGrants(t) ==
  /\ stamp < MaxStamp
  /\ stamp' = stamp + 1
  /\ \E s \in Scope : minted' = [minted EXCEPT ![t] = [at |-> stamp', scope |-> s]]
  /\ Goto(t, "redeem", "save")
  /\ UNCHANGED <<disk, logins, pending, st, noted, base, tries, answer, during>>

\* vet_grant refuses what was granted: nothing is saved, nothing remembered.
RedeemForbidden(t) ==
  /\ pc[t] = "redeem"
  /\ Return(t, Failed(st[Owner[t]]))
  /\ UNCHANGED <<disk, stamp, logins, pending, st, during>>

\* The endpoint cannot be reached, or refuses for a reason that may pass.
RedeemFails(t) ==
  LET p == Owner[t] IN
  /\ pc[t] = "redeem"
  /\ st' = [st EXCEPT ![p].last_failure = base[t].chain]
  /\ Return(t, CachedOr(st[p], Failed(st[p])))
  /\ UNCHANGED <<disk, stamp, logins, pending, during>>

\* The endpoint says this refresh token can never be used again.
RedeemDead(t) ==
  /\ Goto(t, "redeem", "delete")
  /\ UNCHANGED <<disk, stamp, logins, pending, st, localVars, answer, during>>

\* delete_if_unchanged removed the file: the remembered failure is about a
\* token.json that is no longer there.
DeleteDead(t) ==
  LET p == Owner[t] IN
  /\ pc[t] = "delete"
  /\ Unchanged(disk, base[t])
  /\ DiskBecomes(NoFile)
  /\ st' = [st EXCEPT ![p] = [Reset(@, Observe(NoFile)) EXCEPT !.last_failure = 0]]
  /\ Return(t, Failed(st'[p]))
  /\ UNCHANGED <<stamp, logins, pending>>

\* Another file is there by now, or none, or the delete failed.
DeleteSpared(t) ==
  LET p == Owner[t] IN
  /\ pc[t] = "delete"
  /\ st' = [st EXCEPT ![p].last_failure = base[t].chain]
  /\ Return(t, CachedOr(st[p], Failed(st[p])))
  /\ UNCHANGED <<disk, stamp, logins, pending, during>>

--------------------------------------------------------------------------------
(***************************************************************************)
(* save_atomic(Refresh), and what the loop does with its outcome.          *)
(***************************************************************************)
FreshToken(f) == [chain |-> f.chain, scope |-> f.scope, age |-> "fresh"]

\* Wrong: the grant believed in is not the one of the token just cached.
WroteButKeptGrant(s, f) ==
  [s EXCEPT !.cached = FreshToken(f), !.obtained_at = f.at,
            !.last_failure = Quiet, !.file_seen = Observe(f),
            !.live_scope = IF s.cached = NoToken THEN f.scope ELSE @]

\* The outcome Wrote: what the provider knows is the file it just wrote.
Wrote(s, f) ==
  [s EXCEPT !.cached = FreshToken(f), !.obtained_at = f.at,
            !.last_failure = Quiet, !.file_seen = Observe(f),
            !.live_scope = f.scope]

SaveWrites(t) ==
  LET p == Owner[t]
      f == RotatedFile(base[t], minted[t].at, minted[t].scope)
  IN
  /\ pc[t] = "save"
  /\ Readable(disk) /\ ~DiskWins(disk, base[t])
  /\ DiskBecomes(f)
  /\ st' = [st EXCEPT ![p] = Wrote(@, f)]
  /\ Return(t, TokenOf(st'[p]))
  /\ UNCHANGED <<stamp, logins, pending>>

\* for _attempt in 0..2
AttemptLeft(n) == n < 2

\* The bump for a file that a login wrote.
Bump(s, f) == IF f.by = "refresh" THEN s ELSE [s EXCEPT !.epoch = NextEpoch(s)]

SaveAdopts(t) ==
  LET p == Owner[t] IN
  /\ Readable(disk) /\ DiskWins(disk, base[t])
  /\ AttemptLeft(tries[t]) /\ disk.ours
  /\ st' = [st EXCEPT ![p] = Bump(@, disk)]
  /\ base' = [base EXCEPT ![t] = disk]
  /\ minted' = [minted EXCEPT ![t] = Nothing]
  /\ tries' = [tries EXCEPT ![t] = @ + 1]
  /\ Goto(t, "save", "redeem")
  /\ UNCHANGED <<disk, stamp, logins, pending, noted, answer, during>>

\* The file adopted is another configuration's, or the second one in a row.
AdoptRefused(t) ==
  LET p == Owner[t] IN
  /\ pc[t] = "save"
  /\ Readable(disk) /\ DiskWins(disk, base[t])
  /\ ~AttemptLeft(tries[t]) \/ ~disk.ours
  /\ st' = [st EXCEPT ![p] = Bump(@, disk)]
  /\ Return(t, Failed(st'[p]))
  /\ UNCHANGED <<disk, stamp, logins, pending, during>>

\* No file to replace, one this build cannot read, or a write that failed.
SaveRefused(t) ==
  /\ pc[t] = "save"
  /\ Return(t, Failed(st[Owner[t]]))
  /\ UNCHANGED <<disk, stamp, logins, pending, st, during>>

--------------------------------------------------------------------------------
(***************************************************************************)
(* The caller is done with its answer; a 401 from Graph sends it through   *)
(* invalidate() first.                                                     *)
(***************************************************************************)
Forget(t) ==
  /\ Goto(t, "done", "idle")
  /\ answer' = [answer EXCEPT ![t] = NoAnswer]
  /\ during' = [during EXCEPT ![t] = {}]
  /\ UNCHANGED <<disk, stamp, logins, pending, localVars>>

Finish(t) == Forget(t) /\ UNCHANGED st

Invalidate(t) ==
  LET p == Owner[t] IN
  /\ answer[t].kind = "token"
  /\ Free(p)
  /\ st' = [st EXCEPT ![p].cached = NoToken, ![p].last_failure = Quiet]
  /\ Forget(t)

(***************************************************************************)
(* Time, and the end of a process.                                         *)
(***************************************************************************)
Older(age) == IF age = "fresh" THEN "ending" ELSE "expired"

TokenAges(p) ==
  /\ st[p].cached.age # "expired"
  /\ st' = [st EXCEPT ![p].cached.age = Older(@)]
  /\ UNCHANGED <<disk, stamp, logins, pending, pc, localVars, answer, during>>

BackoffElapses(p) ==
  /\ InBackoff(st[p])
  /\ st' = [st EXCEPT ![p].last_failure = Quiet]
  /\ UNCHANGED <<disk, stamp, logins, pending, pc, localVars, answer, during>>

\* A crash or an exit: a later process of that name starts from nothing.
Crash(p) ==
  LET gone == {t \in Thread : Owner[t] = p} IN
  /\ st' = [st EXCEPT ![p] = Fresh]
  /\ pc' = [t \in Thread |-> IF t \in gone THEN "idle" ELSE pc[t]]
  /\ noted' = [t \in Thread |-> IF t \in gone THEN 0 ELSE noted[t]]
  /\ base' = [t \in Thread |-> IF t \in gone THEN NoFile ELSE base[t]]
  /\ minted' = [t \in Thread |-> IF t \in gone THEN Nothing ELSE minted[t]]
  /\ tries' = [t \in Thread |-> IF t \in gone THEN 0 ELSE tries[t]]
  /\ answer' = [t \in Thread |-> IF t \in gone THEN NoAnswer ELSE answer[t]]
  /\ during' = [t \in Thread |-> IF t \in gone THEN {} ELSE during[t]]
  /\ UNCHANGED <<disk, stamp, logins, pending>>

--------------------------------------------------------------------------------
(***************************************************************************)
(* login stamps its file, then saves it unconditionally; logout removes    *)
(* whatever is there. A newer build may leave a file this one cannot read. *)
(***************************************************************************)
LoginStamps ==
  /\ stamp < MaxStamp /\ logins < MaxLogins
  /\ stamp' = stamp + 1
  /\ logins' = logins + 1
  /\ \E s \in Scope, ours \in Configured :
       pending' = pending \cup {LoginFile(stamp', s, ours)}
  /\ UNCHANGED <<disk, st, pc, localVars, answer, during>>

LoginSaves ==
  /\ \E f \in pending : DiskBecomes(f) /\ pending' = pending \ {f}
  /\ UNCHANGED <<stamp, logins, st, pc, localVars, answer>>

Logout ==
  /\ disk # NoFile
  /\ DiskBecomes(NoFile)
  /\ UNCHANGED <<stamp, logins, pending, st, pc, localVars, answer>>

NewerBuildSaves ==
  /\ stamp < MaxStamp /\ logins < MaxLogins
  /\ stamp' = stamp + 1
  /\ logins' = logins + 1
  /\ DiskBecomes(UnreadableFile(stamp'))
  /\ UNCHANGED <<pending, st, pc, localVars, answer>>

--------------------------------------------------------------------------------
Init ==
  /\ stamp = 1
  /\ disk \in {NoFile} \cup {LoginFile(1, s, TRUE) : s \in Scope}
  /\ logins = 0
  /\ pending = {}
  /\ st = [p \in Provider |-> Fresh]
  /\ pc = [t \in Thread |-> "idle"]
  /\ noted = [t \in Thread |-> 0]
  /\ base = [t \in Thread |-> NoFile]
  /\ minted = [t \in Thread |-> Nothing]
  /\ tries = [t \in Thread |-> 0]
  /\ answer = [t \in Thread |-> NoAnswer]
  /\ during = [t \in Thread |-> {}]

\* The sections that run under the state mutex once it is taken.
Section(t) ==
  \/ NoticeRotated(t) \/ NoticeReplaced(t)
  \/ Load(t) \/ LoadRefused(t)
  \/ RedeemGrants(t) \/ RedeemForbidden(t) \/ RedeemFails(t) \/ RedeemDead(t)
  \/ DeleteDead(t) \/ DeleteSpared(t)
  \/ SaveWrites(t) \/ SaveAdopts(t) \/ AdoptRefused(t) \/ SaveRefused(t)

Call(t) ==
  \/ Begin(t)
  \/ NoticeSame(t) \/ NoticeAbsent(t) \/ NoticeChanged(t)
  \/ AnswerFromCache(t) \/ AnswerFromFailure(t) \/ MustRefresh(t)
  \/ Section(t)
  \/ Finish(t) \/ Invalidate(t)

Next ==
  \/ \E t \in Thread : Call(t)
  \/ \E p \in Provider : TokenAges(p) \/ BackoffElapses(p) \/ Crash(p)
  \/ LoginStamps \/ LoginSaves \/ Logout \/ NewerBuildSaves

Spec == Init /\ [][Next]_vars

--------------------------------------------------------------------------------
(***************************************************************************)
(* Properties                                                              *)
(***************************************************************************)

(***************************************************************************)
(* The types. With them: a thread keeps a file and a minted token only     *)
(* while it is redeeming and saving.                                       *)
(***************************************************************************)
TypeOK ==
  /\ disk \in File
  /\ stamp \in Stamp
  /\ logins \in 0 .. MaxLogins
  /\ pending \subseteq File
  /\ st \in [Provider -> ProviderState]
  /\ pc \in [Thread -> PC]
  /\ noted \in [Thread -> Nat]
  /\ base \in [Thread -> File]
  /\ minted \in [Thread -> Minted]
  /\ tries \in [Thread -> 0 .. 2]
  /\ answer \in [Thread -> Answer]
  /\ during \in [Thread -> SUBSET Nat]

(***************************************************************************)
(* A token that a call returns belongs to a login that was on disk while   *)
(* the call ran. So a call that begins after a login or a logout has       *)
(* finished never gives back the token of the account that was there       *)
(* before, in any process, whatever the other threads had under way.       *)
(***************************************************************************)
TokensAreCurrent ==
  \A t \in Thread : answer[t].kind = "token" => answer[t].chain \in during[t]

(***************************************************************************)
(* README.md: "a new `login` retries immediately". A refusal remembered    *)
(* from an earlier call answers a later one only if the file refused, or   *)
(* no file at all, was there during that call: never while only a newer    *)
(* login was.                                                              *)
(***************************************************************************)
NewLoginIsTried ==
  \A t \in Thread :
    answer[t].kind = "remembered" => \/ answer[t].chain \in during[t]
                                    \/ NoFile.chain \in during[t]

(***************************************************************************)
(* A token is handed out with the grant it was issued with, though the     *)
(* grant is kept apart from the token, forgotten apart from it, and other  *)
(* processes refresh the file with grants of their own.                    *)
(***************************************************************************)
GrantIsTheTokens ==
  \A t \in Thread : answer[t].kind = "token" => answer[t].scope = answer[t].granted

(***************************************************************************)
(* A provider that holds a token and has noticed the file now on disk      *)
(* holds a token of that file's chain, and believes in the grant that      *)
(* file records.                                                           *)
(***************************************************************************)
NoticedFileIsHeld ==
  \A p \in Provider :
    st[p].cached # NoToken /\ st[p].file_seen = Observe(disk) =>
      /\ st[p].cached.chain = disk.chain
      /\ st[p].live_scope = disk.scope

(***************************************************************************)
(* save_atomic, "A refresh only ever REPLACES a token.json it can read":   *)
(* a refresh's file replaces one that was there, that this build could     *)
(* read and that is older than it. It never brings token.json back after   *)
(* a logout and never overwrites a file of a newer build.                  *)
(***************************************************************************)
RefreshReplacesOlder ==
  [][disk' # disk /\ disk'.by = "refresh" => Readable(disk) /\ disk.at < disk'.at]_disk

(***************************************************************************)
(* token.json goes away only because the user logged out, or because the   *)
(* endpoint refused for ever the refresh token in that very file: never a  *)
(* login that landed while the refusal was under way, nor a file nobody    *)
(* here can read.                                                          *)
(***************************************************************************)
OnlyTheDeadIsDeleted ==
  [][disk # NoFile /\ disk' = NoFile =>
       Logout \/ \E t \in Thread : DeleteDead(t) /\ base[t] = disk]_vars

(***************************************************************************)
(* store.rs: "a user who just typed a device code must win                 *)
(* unconditionally". No refresh moves token.json from one chain to another.*)
(***************************************************************************)
LoginWins ==
  [][disk' # disk /\ disk'.by = "refresh" => disk'.chain = disk.chain]_disk

(***************************************************************************)
(* SECURITY.md: a login "is a replacement and resets state". Tokens of two *)
(* chains are never handed out under the same epoch, by which the task     *)
(* cache tells that the account may have changed. A login that lands       *)
(* between the notice of a call and its load is redeemed without one.      *)
(***************************************************************************)
EpochSeparatesLogins ==
  \A t, u \in Thread :
    /\ Owner[t] = Owner[u]
    /\ answer[t].kind = "token" /\ answer[u].kind = "token"
    /\ answer[t].epoch = answer[u].epoch
    => answer[t].chain = answer[u].chain

(***************************************************************************)
(* A thread that holds the state mutex gives it back: the redeem always    *)
(* ends (its HTTP client has time limits), each store operation holds the  *)
(* flock for one bounded section, and the loop adopts at most once. The    *)
(* scheduler runs the thread that holds the mutex; nothing is assumed of   *)
(* the threads that wait for it.                                           *)
(***************************************************************************)
Fairness == \A t \in Thread : WF_vars(Section(t))
FairSpec == Spec /\ Fairness

MutexIsReleased == \A t \in Thread : Holds(t) ~> ~Holds(t)

================================================================================
