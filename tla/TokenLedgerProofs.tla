--------------------------- MODULE TokenLedgerProofs ---------------------------
(***************************************************************************)
(* What the stamps in token.json are good for. A refresh replaces an older *)
(* file, and the file that a dead refresh token takes with it is the very  *)
(* one that was redeemed. A provider that keeps its token across another   *)
(* process's refresh keeps one of the same chain and grant. A failure that *)
(* is remembered is about a file that was there while the call ran.        *)
(***************************************************************************)
EXTENDS TokenProviderProofs

KnownFiles == {disk} \cup {base[t] : t \in Thread}

(***************************************************************************)
(* The stamps that somebody has read: those of the files known, of the     *)
(* files these name, and of those the providers remember. The others are   *)
(* still to come: of a login that has not saved its file, or of a refresh. *)
(***************************************************************************)
Used(n) ==
  \/ \E f \in KnownFiles : n \in {f.at, f.from}
  \/ \E t \in Thread : n = noted[t]
  \/ \E p \in Provider : n \in {st[p].obtained_at, st[p].file_seen}

Ledger ==
  /\ \A n \in Int : Used(n) => n <= stamp
  /\ \A f \in pending : /\ f.by = "device_code" /\ f.from = 0
                        /\ f.at \in 1 .. stamp /\ ~Used(f.at)
  /\ \A t \in Thread : pc[t] = "save" =>
       minted[t].at \in 1 .. stamp /\ ~Used(minted[t].at) /\ base[t].at < minted[t].at
  /\ \A f, g \in pending : f.at = g.at => f = g
  /\ \A f \in pending, t \in Thread : pc[t] = "save" => f.at # minted[t].at
  /\ \A t, u \in Thread :
       pc[t] = "save" /\ pc[u] = "save" /\ minted[t].at = minted[u].at => t = u

(***************************************************************************)
(* A stamp names one file.                                                 *)
(***************************************************************************)
StampsName ==
  /\ \A f, g \in KnownFiles : f.at = g.at => f = g
  /\ \A f \in KnownFiles : f.at = 0 => f = NoFile
  /\ \A t \in Thread : pc[t] \in {"redeem", "delete", "save"} => Readable(base[t])

LedgerInv == Ledger /\ StampsName

LEMMA KnownAreFiles ==
  ASSUME TypeOK
  PROVE  /\ \A f \in KnownFiles : f \in File /\ f.at \in Nat /\ f.from \in Nat
         /\ \A p \in Provider : st[p].obtained_at \in Nat /\ st[p].file_seen \in Nat \cup {Unknown}
         /\ \A t \in Thread : noted[t] \in Nat /\ minted[t].at \in Nat /\ base[t] \in KnownFiles
         /\ \A f \in pending : f.at \in Nat
         /\ \A n : Used(n) => n \in Int
         /\ stamp \in Nat /\ disk \in KnownFiles
<1>1. \A f \in KnownFiles : f \in File /\ f.at \in Nat /\ f.from \in Nat
  BY DEF TypeOK, KnownFiles, File
<1>2. \A p \in Provider : st[p].obtained_at \in Nat /\ st[p].file_seen \in Nat \cup {Unknown}
  BY DEF TypeOK, ProviderState
<1>3. \A t \in Thread : noted[t] \in Nat /\ minted[t].at \in Nat /\ base[t] \in KnownFiles
  BY DEF TypeOK, KnownFiles, Minted
<1>4. \A f \in pending : f.at \in Nat
  BY DEF TypeOK, File
<1>5. stamp \in Nat /\ disk \in KnownFiles
  BY MaxStampAssumption DEF TypeOK, Stamp, KnownFiles
<1> QED
  BY <1>1, <1>2, <1>3, <1>4, <1>5 DEF Used, Unknown

LEMMA LedgerInit == Init => LedgerInv
<1> SUFFICES ASSUME Init PROVE LedgerInv
  OBVIOUS
<1> USE DEF NoFile, LoginFile
<1>1. \A f \in KnownFiles : f = NoFile \/ f = disk
  BY DEF Init, KnownFiles
<1>2. disk.at \in {0, 1} /\ disk.from = 0 /\ (disk.at = 0 => disk = NoFile)
  BY DEF Init
<1>3. \A n \in Int : Used(n) => n <= 1
  <2>1. \A p \in Provider : st[p].obtained_at = 0 /\ st[p].file_seen = -1
    BY DEF Init, Fresh, Unknown
  <2>2. \A t \in Thread : noted[t] = 0
    BY DEF Init
  <2> QED
    BY <1>1, <1>2, <2>1, <2>2 DEF Used
<1>4. Ledger
  BY <1>3 DEF Init, Ledger
<1>5. \A f, g \in KnownFiles : f.at = g.at => f = g
  <2>1. NoFile.at = 0
    OBVIOUS
  <2> QED
    BY <1>1, <1>2, <2>1
<1>6. StampsName
  BY <1>1, <1>2, <1>5 DEF Init, StampsName
<1> QED
  BY <1>4, <1>6 DEF LedgerInv

(***************************************************************************)
(* The steps that give no stamp and save no file.                          *)
(***************************************************************************)
LEMMA LedgerKept ==
  ASSUME TypeOK, LedgerInv, UNCHANGED stamp, pending' \subseteq pending,
         \A n : Used(n)' => Used(n) \/ n <= 0,
         KnownFiles' \subseteq KnownFiles \cup {NoFile},
         \A t \in Thread : pc'[t] = "save" => pc[t] = "save" /\ minted'[t] = minted[t] /\ base'[t] = base[t],
         \A t \in Thread : pc'[t] \in {"redeem", "delete", "save"} => Readable(base'[t])
  PROVE  LedgerInv'
<1>1. \A n \in Int : Used(n)' => n <= stamp
  BY KnownAreFiles DEF LedgerInv, Ledger
<1>2. \A f \in pending' : /\ f.by = "device_code" /\ f.from = 0
                          /\ f.at \in 1 .. stamp /\ ~Used(f.at)'
  BY KnownAreFiles DEF LedgerInv, Ledger
<1>3. ASSUME NEW t \in Thread, pc'[t] = "save"
      PROVE  /\ minted'[t].at \in 1 .. stamp /\ ~Used(minted[t].at)'
             /\ base'[t].at < minted'[t].at
             /\ pc[t] = "save" /\ minted'[t] = minted[t]
  <2>1. pc[t] = "save" /\ minted'[t] = minted[t] /\ base'[t] = base[t]
    BY <1>3
  <2>2. minted[t].at \in 1 .. stamp /\ ~Used(minted[t].at) /\ base[t].at < minted[t].at
    BY <2>1 DEF LedgerInv, Ledger
  <2>3. \A n \in 1 .. stamp : Used(n)' => Used(n)
    BY KnownAreFiles
  <2> QED
    BY <2>1, <2>2, <2>3
<1>4. Ledger'
  BY <1>1, <1>2, <1>3 DEF LedgerInv, Ledger
<1>5. StampsName'
  <2>1. NoFile.at = 0
    BY DEF NoFile
  <2>2. \A f \in KnownFiles' : f \in KnownFiles \/ f = NoFile
    OBVIOUS
  <2>3. \A f \in KnownFiles' : f.at = 0 => f = NoFile
    BY <2>2 DEF LedgerInv, StampsName
  <2>4. \A f, g \in KnownFiles' : f.at = g.at => f = g
    BY <2>1, <2>2, <2>3 DEF LedgerInv, StampsName
  <2> QED
    BY <2>3, <2>4 DEF StampsName
<1> QED
  BY <1>4, <1>5 DEF LedgerInv

LEMMA LedgerFrame ==
  ASSUME TypeOK, LedgerInv, UNCHANGED stamp, pending' \subseteq pending,
         disk' \in {disk, NoFile},
         \A t \in Thread : base'[t] \in {base[t], disk, NoFile},
         \A t \in Thread : noted'[t] \in {noted[t], disk.at, 0},
         \A p \in Provider : st'[p].obtained_at \in {st[p].obtained_at, disk.at, 0},
         \A p \in Provider :
           \/ st'[p].file_seen \in {st[p].file_seen, disk.at, 0, Unknown}
           \/ \E t \in Thread : st'[p].file_seen = noted[t],
         \A t \in Thread : pc'[t] = "save" => pc[t] = "save" /\ minted'[t] = minted[t] /\ base'[t] = base[t],
         \A t \in Thread : pc'[t] \in {"redeem", "delete", "save"} =>
           \/ pc[t] \in {"redeem", "delete", "save"} /\ base'[t] = base[t]
           \/ Readable(base'[t])
  PROVE  LedgerInv'
<1>1. KnownFiles' \subseteq KnownFiles \cup {NoFile}
  BY DEF KnownFiles
<1>2. NoFile.at = 0 /\ NoFile.from = 0
  BY DEF NoFile
<1>3. Used(disk.at)
  BY KnownAreFiles DEF Used
<1>4. ASSUME NEW n, Used(n)' PROVE Used(n) \/ n <= 0
  <2>1. CASE \E f \in KnownFiles' : n \in {f.at, f.from}
    BY <1>1, <1>2, <2>1 DEF Used
  <2>2. CASE \E t \in Thread : n = noted'[t]
    BY <1>3, <2>2 DEF Used
  <2>3. CASE \E p \in Provider : n = st'[p].obtained_at
    BY <1>3, <2>3 DEF Used
  <2>4. CASE \E p \in Provider : n = st'[p].file_seen
    BY <1>3, <2>4 DEF Used, Unknown
  <2> QED
    BY <1>4, <2>1, <2>2, <2>3, <2>4 DEF Used
<1>5. \A t \in Thread : pc'[t] \in {"redeem", "delete", "save"} => Readable(base'[t])
  BY DEF LedgerInv, StampsName
<1> QED
  BY <1>1, <1>4, <1>5, LedgerKept

--------------------------------------------------------------------------------
(***************************************************************************)
(* Steps that read stamps, or forget them.                                 *)
(***************************************************************************)
LEMMA ResetStamps ==
  /\ Fresh.obtained_at = 0 /\ Fresh.file_seen = Unknown
  /\ \A s, n : Reset(s, n).obtained_at = 0 /\ Reset(s, n).file_seen = n
BY DEF Fresh, Reset

LEMMA ReturnFrame ==
  ASSUME TypeOK, NEW t \in Thread, NEW a, Return(t, a)
  PROVE  \A u \in Thread :
           /\ base'[u] \in {base[u], NoFile} /\ noted'[u] \in {noted[u], 0}
           /\ pc'[u] # "done" => /\ pc'[u] = pc[u] /\ base'[u] = base[u]
                                /\ minted'[u] = minted[u] /\ noted'[u] = noted[u]
BY DEF TypeOK, Return

LEMMA GotoFrame ==
  ASSUME TypeOK, NEW t \in Thread, NEW from, NEW to, Goto(t, from, to)
  PROVE  /\ pc[t] = from /\ pc'[t] = to
         /\ \A u \in Thread : u # t => pc'[u] = pc[u]
BY DEF TypeOK, Goto

LEMMA LedgerNotice ==
  ASSUME TypeOK, LedgerInv, NEW t \in Thread,
         \/ Begin(t) \/ NoticeSame(t) \/ NoticeAbsent(t) \/ NoticeChanged(t)
         \/ NoticeRotated(t) \/ NoticeReplaced(t) \/ MustRefresh(t)
  PROVE  LedgerInv'
<1>1. UNCHANGED <<disk, stamp, pending, base, minted>>
  BY DEF Begin, NoticeSame, NoticeAbsent, NoticeChanged, NoticeRotated, NoticeReplaced,
         MustRefresh, localVars
<1>2. \A u \in Thread : pc'[u] \in {"redeem", "delete", "save"} => pc'[u] = pc[u]
  BY GotoFrame DEF Begin, NoticeSame, NoticeAbsent, NoticeChanged, NoticeRotated, NoticeReplaced,
                   MustRefresh
<1>3. \A u \in Thread : noted'[u] \in {noted[u], disk.at, 0}
  BY DEF Begin, NoticeSame, NoticeAbsent, NoticeChanged, NoticeRotated, NoticeReplaced,
         MustRefresh, localVars, TypeOK, Observe
<1>4. \A p \in Provider :
        /\ st'[p].obtained_at \in {st[p].obtained_at, disk.at, 0}
        /\ st'[p].file_seen \in {st[p].file_seen, disk.at, noted[t]}
  <2>1. CASE NoticeRotated(t)
    BY <2>1 DEF NoticeRotated, TypeOK, ProviderState
  <2>2. CASE NoticeReplaced(t)
    BY <2>2, ResetStamps DEF NoticeReplaced, TypeOK
  <2>3. CASE NoticeAbsent(t)
    BY <2>3, ResetStamps DEF NoticeAbsent, TypeOK, Observe
  <2>4. CASE NoticeSame(t)
    BY <2>4 DEF NoticeSame, TypeOK, ProviderState, Observe
  <2>5. CASE Begin(t) \/ NoticeChanged(t) \/ MustRefresh(t)
    BY <2>5 DEF Begin, NoticeChanged, MustRefresh
  <2> QED
    BY <2>1, <2>2, <2>3, <2>4, <2>5
<1> QED
  BY <1>1, <1>2, <1>3, <1>4, LedgerFrame

LEMMA LedgerReturn ==
  ASSUME TypeOK, LedgerInv, NEW t \in Thread, NEW a, Return(t, a),
         UNCHANGED <<stamp, pending>>, disk' \in {disk, NoFile},
         \A p \in Provider : /\ st'[p].obtained_at \in {st[p].obtained_at, 0}
                             /\ st'[p].file_seen \in {st[p].file_seen, 0}
  PROVE  LedgerInv'
<1>1. \A u \in Thread : pc'[u] \in {"redeem", "delete", "save"} =>
        pc'[u] = pc[u] /\ base'[u] = base[u] /\ minted'[u] = minted[u]
  BY ReturnFrame
<1>2. \A u \in Thread : base'[u] \in {base[u], NoFile} /\ noted'[u] \in {noted[u], 0}
  BY ReturnFrame
<1> QED
  BY <1>1, <1>2, LedgerFrame

LEMMA LedgerRefresh ==
  ASSUME TypeOK, LedgerInv, NEW t \in Thread,
         \/ AnswerFromCache(t) \/ AnswerFromFailure(t) \/ LoadRefused(t)
         \/ RedeemForbidden(t) \/ RedeemFails(t) \/ DeleteDead(t) \/ DeleteSpared(t)
         \/ AdoptRefused(t) \/ SaveRefused(t)
  PROVE  LedgerInv'
<1>1. \E a : Return(t, a)
  BY DEF AnswerFromCache, AnswerFromFailure, LoadRefused, RedeemForbidden, RedeemFails,
         DeleteDead, DeleteSpared, AdoptRefused, SaveRefused
<1>2. UNCHANGED <<stamp, pending>> /\ disk' \in {disk, NoFile}
  BY DEF AnswerFromCache, AnswerFromFailure, LoadRefused, RedeemForbidden, RedeemFails,
         DeleteDead, DeleteSpared, AdoptRefused, SaveRefused, DiskBecomes
<1>3. \A p \in Provider : /\ st'[p].obtained_at \in {st[p].obtained_at, 0}
                          /\ st'[p].file_seen \in {st[p].file_seen, 0}
  <2>1. CASE DeleteDead(t)
    <3> DEFINE r(p) == Reset(st[p], Observe(NoFile))
               s(p) == [r(p) EXCEPT !.last_failure = 0]
    <3>1. \A p \in Provider : s(p).obtained_at = 0 /\ s(p).file_seen = 0
      BY DEF Reset, Fresh, Observe, NoFile
    <3>2. st' = [st EXCEPT ![Owner[t]] = s(Owner[t])]
      BY <2>1 DEF DeleteDead
    <3> HIDE DEF s
    <3> QED
      BY <3>1, <3>2 DEF TypeOK
  <2>2. CASE RedeemFails(t) \/ DeleteSpared(t)
    BY <2>2 DEF RedeemFails, DeleteSpared, TypeOK, ProviderState
  <2>3. CASE AdoptRefused(t)
    BY <2>3 DEF AdoptRefused, Bump, TypeOK, ProviderState
  <2>4. CASE UNCHANGED st
    BY <2>4
  <2> QED
    BY <2>1, <2>2, <2>3, <2>4 DEF AnswerFromCache, AnswerFromFailure, LoadRefused,
         RedeemForbidden, SaveRefused
<1> QED
  BY <1>1, <1>2, <1>3, LedgerReturn

LEMMA LedgerRedeem ==
  ASSUME TypeOK, LedgerInv, NEW t \in Thread,
         Load(t) \/ RedeemDead(t) \/ SaveAdopts(t)
  PROVE  LedgerInv'
<1>1. UNCHANGED <<disk, stamp, pending, noted>>
  BY DEF Load, RedeemDead, SaveAdopts, localVars
<1>2. \A u \in Thread : base'[u] \in {base[u], disk}
  BY DEF Load, RedeemDead, SaveAdopts, localVars, TypeOK
<1>3. \A u \in Thread : u # t => pc'[u] = pc[u] /\ base'[u] = base[u] /\ minted'[u] = minted[u]
  BY GotoFrame DEF Load, RedeemDead, SaveAdopts, localVars, TypeOK
<1>4. /\ pc'[t] \in {"redeem", "delete"}
      /\ \/ pc[t] = "redeem" /\ base'[t] = base[t]
         \/ Readable(base'[t])
  BY GotoFrame DEF Load, RedeemDead, SaveAdopts, localVars, TypeOK
<1>5. \A p \in Provider : /\ st'[p].obtained_at = st[p].obtained_at
                          /\ st'[p].file_seen = st[p].file_seen
  BY DEF Load, RedeemDead, SaveAdopts, Bump, TypeOK, ProviderState
<1> QED
  BY <1>1, <1>2, <1>3, <1>4, <1>5, LedgerFrame

LEMMA LedgerAfterwards ==
  ASSUME TypeOK, LedgerInv, NEW t \in Thread, Finish(t) \/ Invalidate(t)
  PROVE  LedgerInv'
<1>1. Forget(t)
  BY DEF Finish, Invalidate
<1>2. UNCHANGED <<disk, stamp, pending, noted, base, minted>>
  BY <1>1 DEF Forget, localVars
<1>3. \A u \in Thread : pc'[u] \in {"redeem", "delete", "save"} => pc'[u] = pc[u]
  BY <1>1, GotoFrame DEF Forget
<1>4. \A p \in Provider : /\ st'[p].obtained_at \in {st[p].obtained_at, 0}
                          /\ st'[p].file_seen \in {st[p].file_seen, Unknown}
  BY DEF Finish, Invalidate, TypeOK, ProviderState
<1> QED
  BY <1>2, <1>3, <1>4, LedgerFrame

LEMMA LedgerProcess ==
  ASSUME TypeOK, LedgerInv, NEW p \in Provider,
         TokenAges(p) \/ BackoffElapses(p) \/ Crash(p)
  PROVE  LedgerInv'
<1>1. UNCHANGED <<disk, stamp, pending>>
  BY DEF TokenAges, BackoffElapses, Crash
<1>2. \A u \in Thread : base'[u] \in {base[u], NoFile} /\ noted'[u] \in {noted[u], 0}
  BY DEF TokenAges, BackoffElapses, Crash, localVars, TypeOK
<1>3. \A u \in Thread : pc'[u] # "idle" =>
        pc'[u] = pc[u] /\ base'[u] = base[u] /\ minted'[u] = minted[u]
  BY DEF TokenAges, BackoffElapses, Crash, localVars, TypeOK
<1>4. \A q \in Provider : /\ st'[q].obtained_at \in {st[q].obtained_at, 0}
                          /\ st'[q].file_seen \in {st[q].file_seen, Unknown}
  <2>1. CASE TokenAges(p)
    <3> DEFINE g == [st[p].cached EXCEPT !.age = Older(@)]
               s == [st[p] EXCEPT !.cached = g]
    <3>1. st' = [st EXCEPT ![p] = s]
      BY <2>1 DEF TokenAges, TypeOK, ProviderState, Token
    <3>2. s.obtained_at = st[p].obtained_at /\ s.file_seen = st[p].file_seen
      BY DEF TypeOK, ProviderState
    <3> HIDE DEF s
    <3> QED
      BY <3>1, <3>2 DEF TypeOK
  <2>2. CASE BackoffElapses(p)
    BY <2>2 DEF BackoffElapses, TypeOK, ProviderState
  <2>3. CASE Crash(p)
    BY <2>3 DEF Crash, Fresh, TypeOK
  <2> QED
    BY <2>1, <2>2, <2>3
<1> QED
  BY <1>1, <1>2, <1>3, <1>4, LedgerFrame

LEMMA LedgerLogout ==
  ASSUME TypeOK, LedgerInv, Logout
  PROVE  LedgerInv'
<1>1. UNCHANGED <<stamp, pending, pc, noted, base, minted, st>> /\ disk' = NoFile
  BY DEF Logout, localVars, DiskBecomes
<1> QED
  BY <1>1, LedgerFrame

--------------------------------------------------------------------------------
(***************************************************************************)
(* Steps that give a stamp: to a minted token, to the file of a login.     *)
(***************************************************************************)
LEMMA LedgerGrant ==
  ASSUME TypeOK, LedgerInv, NEW t \in Thread, RedeemGrants(t)
  PROVE  LedgerInv'
<1>1. UNCHANGED <<disk, pending, st, noted, base>> /\ stamp' = stamp + 1
  BY DEF RedeemGrants
<1>2. /\ pc[t] = "redeem" /\ minted'[t].at = stamp + 1
      /\ \A u \in Thread : u # t => pc'[u] = pc[u] /\ minted'[u] = minted[u]
  BY GotoFrame DEF RedeemGrants, TypeOK
<1>3. \A n : Used(n)' <=> Used(n)
  BY <1>1 DEF Used, KnownFiles
<1>4. stamp \in Nat /\ ~Used(stamp + 1) /\ base[t].at < stamp + 1 /\ base[t].at \in Nat
  <2>1. Used(base[t].at) /\ base[t].at \in Nat
    BY KnownAreFiles DEF Used
  <2> QED
    BY <2>1, KnownAreFiles DEF LedgerInv, Ledger
<1>5. \A n \in Int : Used(n)' => n <= stamp'
  BY <1>1, <1>3, <1>4 DEF LedgerInv, Ledger
<1>6. \A f \in pending' : /\ f.by = "device_code" /\ f.from = 0
                          /\ f.at \in 1 .. stamp' /\ ~Used(f.at)'
  BY <1>1, <1>3, <1>4 DEF LedgerInv, Ledger
<1>7. ASSUME NEW u \in Thread, pc'[u] = "save"
      PROVE  minted'[u].at \in 1 .. stamp' /\ ~Used(minted[u].at)' /\ base'[u].at < minted'[u].at
  <2>1. CASE u = t
    BY <1>1, <1>2, <1>3, <1>4, <2>1
  <2>2. CASE u # t
    BY <1>1, <1>2, <1>3, <1>4, <1>7, <2>2 DEF LedgerInv, Ledger
  <2> QED
    BY <2>1, <2>2
<1>8. \A f \in pending', u \in Thread : pc'[u] = "save" => f.at # minted'[u].at
  BY <1>1, <1>2, <1>4 DEF LedgerInv, Ledger
<1>9. \A u, v \in Thread :
        pc'[u] = "save" /\ pc'[v] = "save" /\ minted'[u].at = minted'[v].at => u = v
  BY <1>2, <1>4 DEF LedgerInv, Ledger
<1>10. StampsName'
  BY <1>1, <1>2 DEF LedgerInv, StampsName, KnownFiles
<1> QED
  BY <1>1, <1>5, <1>6, <1>7, <1>8, <1>9, <1>10 DEF LedgerInv, Ledger

LEMMA LedgerLogin ==
  ASSUME TypeOK, LedgerInv, LoginStamps
  PROVE  LedgerInv'
<1>1. UNCHANGED <<disk, pc, minted, st, noted, base>> /\ stamp' = stamp + 1
  BY DEF LoginStamps, localVars
<1>2. PICK f : pending' = pending \cup {f} /\ f.at = stamp + 1 /\ f.by = "device_code" /\ f.from = 0
  <2>1. PICK s \in Scope, ours \in Configured : pending' = pending \cup {LoginFile(stamp', s, ours)}
    BY DEF LoginStamps
  <2> DEFINE f == LoginFile(stamp', s, ours)
  <2>2. f.at = stamp' /\ f.by = "device_code" /\ f.from = 0
    BY DEF LoginFile
  <2> HIDE DEF f
  <2> QED
    BY <1>1, <2>1, <2>2 DEF f
<1>3. \A n : Used(n)' <=> Used(n)
  BY <1>1 DEF Used, KnownFiles
<1>4. stamp \in Nat /\ ~Used(stamp + 1)
  BY KnownAreFiles DEF LedgerInv, Ledger
<1>5. \A n \in Int : Used(n)' => n <= stamp'
  BY <1>1, <1>3, <1>4 DEF LedgerInv, Ledger
<1>6. \A g \in pending' : /\ g.by = "device_code" /\ g.from = 0
                          /\ g.at \in 1 .. stamp' /\ ~Used(g.at)'
  BY <1>1, <1>2, <1>3, <1>4 DEF LedgerInv, Ledger
<1>7. \A u \in Thread : pc'[u] = "save" =>
        minted'[u].at \in 1 .. stamp' /\ ~Used(minted[u].at)' /\ base'[u].at < minted'[u].at
  BY <1>1, <1>3, <1>4 DEF LedgerInv, Ledger
<1>8. \A g, h \in pending' : g.at = h.at => g = h
  BY <1>2, <1>4 DEF LedgerInv, Ledger
<1>9. \A g \in pending', u \in Thread : pc'[u] = "save" => g.at # minted'[u].at
  BY <1>1, <1>2, <1>4 DEF LedgerInv, Ledger
<1>10. StampsName'
  BY <1>1 DEF LedgerInv, StampsName, KnownFiles
<1> QED
  BY <1>1, <1>5, <1>6, <1>7, <1>8, <1>9, <1>10 DEF LedgerInv, Ledger

--------------------------------------------------------------------------------
(***************************************************************************)
(* Steps that save a file whose stamp nobody has read yet.                 *)
(***************************************************************************)
LEMMA LedgerSaves ==
  ASSUME TypeOK, LedgerInv, stamp' \in {stamp, stamp + 1},
         NEW f, disk' = f, f.at \in 1 .. stamp', ~Used(f.at),
         pending' \subseteq pending, \A g \in pending' : g.at # f.at,
         \A n : Used(n)' => Used(n) \/ n <= 0 \/ n = f.at,
         \A u \in Thread : base'[u] \in {base[u], NoFile},
         \A u \in Thread : pc'[u] \in {"redeem", "delete", "save"} =>
           pc'[u] = pc[u] /\ base'[u] = base[u] /\ minted'[u] = minted[u],
         \A u \in Thread : pc'[u] = "save" => minted[u].at # f.at
  PROVE  LedgerInv'
<1>0. stamp \in Nat /\ stamp' \in Nat /\ f.at \in Nat
  BY KnownAreFiles
<1>1. \A n \in Int : Used(n)' => n <= stamp'
  BY <1>0 DEF LedgerInv, Ledger
<1>2. \A g \in pending' : /\ g.by = "device_code" /\ g.from = 0
                          /\ g.at \in 1 .. stamp' /\ ~Used(g.at)'
  BY <1>0 DEF LedgerInv, Ledger
<1>3. ASSUME NEW u \in Thread, pc'[u] = "save"
      PROVE  minted'[u].at \in 1 .. stamp' /\ ~Used(minted[u].at)' /\ base'[u].at < minted'[u].at
  <2>1. pc[u] = "save" /\ base'[u] = base[u] /\ minted'[u] = minted[u] /\ minted[u].at # f.at
    BY <1>3
  <2>2. minted[u].at \in 1 .. stamp /\ ~Used(minted[u].at) /\ base[u].at < minted[u].at
    BY <2>1 DEF LedgerInv, Ledger
  <2>3. \A n \in 1 .. stamp : Used(n)' => Used(n) \/ n = f.at
    BY <1>0
  <2>4. ~Used(minted[u].at)'
    BY <2>1, <2>2, <2>3
  <2> QED
    BY <1>0, <2>1, <2>2, <2>4
<1>4. Ledger'
  BY <1>1, <1>2, <1>3 DEF LedgerInv, Ledger
<1>5. StampsName'
  <2>1. \A g \in KnownFiles' : g = f \/ g = NoFile \/ g \in KnownFiles
    BY DEF KnownFiles
  <2>2. NoFile.at = 0
    BY DEF NoFile
  <2>3. \A g \in KnownFiles : g.at # f.at
    BY DEF Used
  <2>4. \A g, h \in KnownFiles' : g.at = h.at => g = h
    BY <1>0, <2>1, <2>2, <2>3 DEF LedgerInv, StampsName
  <2>5. \A g \in KnownFiles' : g.at = 0 => g = NoFile
    BY <1>0, <2>1, <2>2 DEF LedgerInv, StampsName
  <2>6. \A u \in Thread : pc'[u] \in {"redeem", "delete", "save"} => Readable(base'[u])
    BY DEF LedgerInv, StampsName
  <2> QED
    BY <2>4, <2>5, <2>6 DEF StampsName
<1> QED
  BY <1>4, <1>5 DEF LedgerInv

LEMMA LedgerLoginSaves ==
  ASSUME TypeOK, LedgerInv, LoginSaves
  PROVE  LedgerInv'
<1>1. PICK f \in pending : disk' = f /\ pending' = pending \ {f}
  BY DEF LoginSaves, DiskBecomes
<1>2. UNCHANGED <<stamp, pc, noted, base, minted, st>>
  BY DEF LoginSaves, localVars
<1>3. f.at \in 1 .. stamp /\ ~Used(f.at) /\ f.from = 0
  BY DEF LedgerInv, Ledger
<1>4. \A g \in pending' : g.at # f.at
  BY <1>1 DEF LedgerInv, Ledger
<1>5. \A u \in Thread : pc'[u] = "save" => minted[u].at # f.at
  BY <1>2 DEF LedgerInv, Ledger
<1>6. \A n : Used(n)' => Used(n) \/ n <= 0 \/ n = f.at
  BY <1>1, <1>2, <1>3 DEF Used, KnownFiles
<1> QED
  BY <1>1, <1>2, <1>3, <1>4, <1>5, <1>6, LedgerSaves

LEMMA LedgerNewerBuild ==
  ASSUME TypeOK, LedgerInv, NewerBuildSaves
  PROVE  LedgerInv'
<1> DEFINE f == UnreadableFile(stamp')
<1>1. disk' = f /\ stamp' = stamp + 1
  BY DEF NewerBuildSaves, DiskBecomes
<1>2. f.at = stamp + 1 /\ f.from = 0
  BY <1>1 DEF UnreadableFile, NoFile
<1> HIDE DEF f
<1>3. UNCHANGED <<pending, pc, noted, base, minted, st>>
  BY DEF NewerBuildSaves, localVars
<1>4. stamp \in Nat /\ ~Used(f.at) /\ f.at \in 1 .. stamp'
  BY <1>1, <1>2, KnownAreFiles DEF LedgerInv, Ledger
<1>5. \A g \in pending' : g.at # f.at
  BY <1>2, <1>3, <1>4 DEF LedgerInv, Ledger
<1>6. \A u \in Thread : pc'[u] = "save" => minted[u].at # f.at
  BY <1>2, <1>3, <1>4 DEF LedgerInv, Ledger
<1>7. \A n : Used(n)' => Used(n) \/ n <= 0 \/ n = f.at
  BY <1>1, <1>2, <1>3 DEF Used, KnownFiles
<1> QED
  BY <1>1, <1>3, <1>4, <1>5, <1>6, <1>7, LedgerSaves

LEMMA LedgerRefreshSaves ==
  ASSUME TypeOK, LedgerInv, NEW t \in Thread, SaveWrites(t)
  PROVE  LedgerInv'
<1> DEFINE f == RotatedFile(base[t], minted[t].at, minted[t].scope)
           a == TokenOf(st'[Owner[t]])
<1>1. disk' = f /\ UNCHANGED <<stamp, pending>> /\ pc[t] = "save" /\ Return(t, a)
  BY DEF SaveWrites, DiskBecomes
<1>2. f.at = minted[t].at /\ f.from = base[t].at
  BY DEF RotatedFile, TypeOK, File
<1>3. \A p \in Provider : /\ st'[p].obtained_at \in {st[p].obtained_at, f.at}
                          /\ st'[p].file_seen \in {st[p].file_seen, f.at}
  <2> DEFINE s == Wrote(st[Owner[t]], f)
  <2>1. s.obtained_at = f.at /\ s.file_seen = f.at
    BY OwnerAssumption DEF Wrote, Observe, TypeOK, ProviderState
  <2>2. st' = [st EXCEPT ![Owner[t]] = s]
    BY OwnerAssumption DEF SaveWrites, TypeOK
  <2> HIDE DEF s
  <2> QED
    BY <2>1, <2>2 DEF TypeOK
<1> HIDE DEF f, a
<1>4. f.at \in 1 .. stamp /\ ~Used(f.at) /\ Used(base[t].at)
  BY <1>1, <1>2, KnownAreFiles DEF LedgerInv, Ledger, Used
<1>5. \A g \in pending' : g.at # f.at
  BY <1>1, <1>2 DEF LedgerInv, Ledger
<1>6. \A u \in Thread :
        /\ base'[u] \in {base[u], NoFile} /\ noted'[u] \in {noted[u], 0}
        /\ pc'[u] # "done" => pc'[u] = pc[u] /\ base'[u] = base[u] /\ minted'[u] = minted[u]
        /\ pc'[t] = "done"
  BY <1>1, ReturnFrame DEF Return, TypeOK
<1>7. \A u \in Thread : pc'[u] = "save" => minted[u].at # f.at
  BY <1>1, <1>2, <1>6 DEF LedgerInv, Ledger
<1>8. ASSUME NEW n, Used(n)' PROVE Used(n) \/ n <= 0 \/ n = f.at
  <2>1. NoFile.at = 0 /\ NoFile.from = 0
    BY DEF NoFile
  <2>2. \A g \in KnownFiles' : g = f \/ g = NoFile \/ g \in KnownFiles
    BY <1>1, <1>6 DEF KnownFiles
  <2>3. CASE \E g \in KnownFiles' : n \in {g.at, g.from}
    BY <1>2, <1>4, <2>1, <2>2, <2>3 DEF Used
  <2>4. CASE \E u \in Thread : n = noted'[u]
    BY <1>6, <2>4 DEF Used
  <2>5. CASE \E p \in Provider : n \in {st'[p].obtained_at, st'[p].file_seen}
    BY <1>3, <2>5 DEF Used
  <2> QED
    BY <1>8, <2>3, <2>4, <2>5 DEF Used
<1> QED
  BY <1>1, <1>4, <1>5, <1>6, <1>7, <1>8, LedgerSaves

LEMMA LedgerStep == TypeOK /\ LedgerInv /\ [Next]_vars => LedgerInv'
<1> SUFFICES ASSUME TypeOK, LedgerInv, [Next]_vars PROVE LedgerInv'
  OBVIOUS
<1>1. CASE \E t \in Thread : Call(t)
  BY <1>1, LedgerNotice, LedgerRefresh, LedgerRedeem, LedgerGrant, LedgerRefreshSaves,
     LedgerAfterwards DEF Call, Section
<1>2. CASE \E p \in Provider : TokenAges(p) \/ BackoffElapses(p) \/ Crash(p)
  BY <1>2, LedgerProcess
<1>3. CASE LoginStamps \/ LoginSaves \/ Logout \/ NewerBuildSaves
  BY <1>3, LedgerLogin, LedgerLoginSaves, LedgerLogout, LedgerNewerBuild
<1>4. CASE UNCHANGED vars
  BY <1>4 DEF vars, localVars, LedgerInv, Ledger, StampsName, Used, KnownFiles
<1> QED
  BY <1>1, <1>2, <1>3, <1>4 DEF Next

--------------------------------------------------------------------------------
(***************************************************************************)
(* A refresh writes its file only over one that this build reads and that  *)
(* is older: never where a logout left nothing.                            *)
(***************************************************************************)
LEMMA DiskChanges ==
  ASSUME TypeOK, [Next]_vars, disk' # disk
  PROVE  \/ \E t \in Thread : DeleteDead(t) \/ SaveWrites(t)
         \/ LoginSaves \/ Logout \/ NewerBuildSaves
BY DEF Next, Call, Section, Begin, NoticeSame, NoticeAbsent, NoticeChanged, NoticeRotated,
       NoticeReplaced, AnswerFromCache, AnswerFromFailure, MustRefresh, Load, LoadRefused,
       RedeemGrants, RedeemForbidden, RedeemFails, RedeemDead, DeleteSpared, SaveAdopts,
       AdoptRefused, SaveRefused, Finish, Invalidate, Forget, TokenAges, BackoffElapses, Crash,
       LoginStamps, vars

LEMMA ReplacesOlderStep ==
  TypeOK /\ LedgerInv /\ [Next]_vars =>
    [disk' # disk /\ disk'.by = "refresh" => Readable(disk) /\ disk.at < disk'.at]_disk
<1> SUFFICES ASSUME TypeOK, LedgerInv, [Next]_vars, disk' # disk, disk'.by = "refresh"
             PROVE  Readable(disk) /\ disk.at < disk'.at
  OBVIOUS
<1>1. CASE \E t \in Thread : SaveWrites(t)
  <2>1. PICK t \in Thread : SaveWrites(t)
    BY <1>1
  <2>2. pc[t] = "save" /\ Readable(disk) /\ ~(disk.at > base[t].at) /\ disk'.at = minted[t].at
    BY <2>1 DEF SaveWrites, DiskWins, DiskBecomes, RotatedFile, TypeOK, File
  <2>3. disk.at \in Nat /\ base[t].at \in Nat /\ minted[t].at \in Nat
    BY KnownAreFiles
  <2>4. base[t].at < minted[t].at
    BY <2>2 DEF LedgerInv, Ledger
  <2> QED
    BY <2>2, <2>3, <2>4
<1>2. CASE LoginSaves
  BY <1>2 DEF LoginSaves, DiskBecomes, LedgerInv, Ledger
<1>3. CASE NewerBuildSaves
  BY <1>3 DEF NewerBuildSaves, DiskBecomes, UnreadableFile, NoFile
<1>4. CASE Logout \/ \E t \in Thread : DeleteDead(t)
  <2>1. disk' = NoFile
    BY <1>4 DEF Logout, DeleteDead, DiskBecomes
  <2> QED
    BY <2>1 DEF NoFile
<1> QED
  BY <1>1, <1>2, <1>3, <1>4, DiskChanges

THEOREM RefreshOnlyReplaces == Spec => RefreshReplacesOlder
<1>1. TypeOK /\ LedgerInv /\ [Next]_vars => (TypeOK /\ LedgerInv)'
  BY TypeStep, LedgerStep
<1> QED
  BY <1>1, TypeInit, LedgerInit, ReplacesOlderStep, PTL DEF Spec, RefreshReplacesOlder

(***************************************************************************)
(* token.json goes away by logout, or with the very refresh token that the *)
(* endpoint refused for ever. The stamps are compared, not the files: that *)
(* is enough because a stamp names one file.                               *)
(***************************************************************************)
LEMMA OnlyTheDeadStep ==
  TypeOK /\ LedgerInv /\ [Next]_vars =>
    [disk # NoFile /\ disk' = NoFile =>
       Logout \/ \E t \in Thread : DeleteDead(t) /\ base[t] = disk]_vars
<1> SUFFICES ASSUME TypeOK, LedgerInv, [Next]_vars, disk # NoFile, disk' = NoFile
             PROVE  Logout \/ \E t \in Thread : DeleteDead(t) /\ base[t] = disk
  OBVIOUS
<1>1. ASSUME NEW t \in Thread, DeleteDead(t) PROVE base[t] = disk
  <2>1. disk.at = base[t].at
    BY <1>1 DEF DeleteDead, Unchanged
  <2> QED
    BY <2>1, KnownAreFiles DEF LedgerInv, StampsName
<1>2. ASSUME NEW t \in Thread, SaveWrites(t) PROVE FALSE
  <2>1. disk' = RotatedFile(base[t], minted[t].at, minted[t].scope) /\ base[t] \in File
    BY <1>2 DEF SaveWrites, DiskBecomes, TypeOK
  <2>2. disk'.by = "refresh"
    BY <2>1 DEF RotatedFile, File
  <2> QED
    BY <2>2 DEF NoFile
<1>3. ~LoginSaves
  BY DEF LoginSaves, DiskBecomes, LedgerInv, Ledger, NoFile
<1>4. ~NewerBuildSaves
  BY DEF NewerBuildSaves, DiskBecomes, UnreadableFile, NoFile
<1> QED
  BY <1>1, <1>2, <1>3, <1>4, DiskChanges

THEOREM OnlyTheDeadGoes == Spec => OnlyTheDeadIsDeleted
<1>1. TypeOK /\ LedgerInv /\ [Next]_vars => (TypeOK /\ LedgerInv)'
  BY TypeStep, LedgerStep
<1> QED
  BY <1>1, TypeInit, LedgerInit, OnlyTheDeadStep, PTL DEF Spec, OnlyTheDeadIsDeleted
--------------------------------------------------------------------------------
(***************************************************************************)
(* What a provider holds. The chain of its token is that of every file     *)
(* known by the stamp it remembers, or refreshed from that file; and of    *)
(* the file on disk, if that is the one it has noticed.                    *)
(***************************************************************************)
Lineage ==
  /\ \A f, g \in KnownFiles : f.by = "refresh" /\ f.from = g.at => f.chain = g.chain
  /\ \A f \in KnownFiles : f.by = "refresh" => f.from # 0

Holding(s) ==
  /\ s.obtained_at # 0 /\ s.file_seen \notin {0, Unknown}
  /\ s.cached.scope = s.live_scope
  /\ \A f \in KnownFiles : f.at = s.obtained_at => f.chain = s.cached.chain
  /\ \A f \in KnownFiles : f.by = "refresh" /\ f.from = s.obtained_at => f.chain = s.cached.chain
  /\ disk.at = s.file_seen => disk.chain = s.cached.chain /\ disk.scope = s.live_scope

Redeeming == {"redeem", "delete", "save"}
Noticed   == {"enter", "load"} \cup Redeeming

\* What is so of a call, and of the answer it returned.
Calling(t) ==
  LET s == st[Owner[t]] IN
  /\ pc[t] # "idle" => disk.chain \in during[t]
  /\ pc[t] = "noticeLoad" => noted[t] # 0
  /\ pc[t] \in Noticed /\ s.cached # NoToken => s.cached.chain \in during[t]
  /\ pc[t] # "done" => answer[t].kind = "none"
  /\ answer[t].kind = "token" =>
       answer[t].chain \in during[t] /\ answer[t].scope = answer[t].granted

HoldInv ==
  /\ Lineage
  /\ \A p \in Provider : st[p].cached # NoToken => Holding(st[p])
  /\ \A t \in Thread : Calling(t)

\* The same after the step.
HoldingNext(s) ==
  /\ s.obtained_at # 0 /\ s.file_seen \notin {0, Unknown}
  /\ s.cached.scope = s.live_scope
  /\ \A f \in KnownFiles' : f.at = s.obtained_at => f.chain = s.cached.chain
  /\ \A f \in KnownFiles' : f.by = "refresh" /\ f.from = s.obtained_at => f.chain = s.cached.chain
  /\ disk'.at = s.file_seen => disk'.chain = s.cached.chain /\ disk'.scope = s.live_scope

(***************************************************************************)
(* What token.json becomes: it stays, it goes, or it is a file by a stamp  *)
(* nobody has read, of the chain of the file it was refreshed from.        *)
(***************************************************************************)
NewFile(f) ==
  /\ f.at # 0 /\ ~Used(f.at)
  /\ f.by = "refresh" => \E g \in KnownFiles : g.at # 0 /\ f.from = g.at /\ f.chain = g.chain

FilesMove ==
  /\ disk' \in {disk, NoFile} \/ NewFile(disk')
  /\ \A t \in Thread : base'[t] \in {base[t], disk, NoFile}

\* What becomes of a provider that holds a token afterwards.
Alike(r, s) ==
  /\ s.cached # NoToken
  /\ r.cached.chain = s.cached.chain /\ r.cached.scope = s.cached.scope
  /\ r.live_scope = s.live_scope /\ r.obtained_at = s.obtained_at /\ r.file_seen = s.file_seen

Rotated(r, s) ==
  /\ s.cached # NoToken /\ disk' = disk /\ IsRotationOf(disk, s)
  /\ r.cached = s.cached /\ r.live_scope = s.live_scope
  /\ r.obtained_at = disk.at /\ r.file_seen \notin {0, Unknown}

Written(r) ==
  /\ disk'.at # 0 /\ ~Used(disk'.at) /\ disk'.by = "refresh" /\ NewFile(disk')
  /\ r.cached.chain = disk'.chain /\ r.cached.scope = disk'.scope /\ r.live_scope = disk'.scope
  /\ r.obtained_at = disk'.at /\ r.file_seen = disk'.at

Moves(r, s) == r.cached # NoToken => Alike(r, s) \/ Rotated(r, s) \/ Written(r)

--------------------------------------------------------------------------------
\* The files known afterwards.
LEMMA KnownThen ==
  ASSUME FilesMove
  PROVE  \A f \in KnownFiles' : f \in KnownFiles \/ f = NoFile \/ (f = disk' /\ NewFile(f))
BY DEF FilesMove, KnownFiles

LEMMA LineageKept ==
  ASSUME TypeOK, LedgerInv, Lineage, FilesMove
  PROVE  Lineage'
<1>1. NoFile.at = 0 /\ NoFile.by # "refresh"
  BY DEF NoFile
<1>2. ASSUME NEW f \in KnownFiles', f.by = "refresh" PROVE f.from # 0
  BY <1>1, <1>2, KnownThen DEF Lineage, NewFile
<1>3. ASSUME NEW f \in KnownFiles', NEW g \in KnownFiles', f.by = "refresh", f.from = g.at
      PROVE  f.chain = g.chain
  <2>1. f.from # 0 /\ g # NoFile
    BY <1>1, <1>2, <1>3
  <2>3. CASE g \in KnownFiles
    <3>1. CASE f \in KnownFiles
      BY <1>3, <2>3, <3>1 DEF Lineage
    <3>2. CASE NewFile(f)
      <4>1. PICK h \in KnownFiles : f.from = h.at /\ f.chain = h.chain
        BY <1>3, <3>2 DEF NewFile
      <4> QED
        BY <1>3, <2>3, <4>1 DEF LedgerInv, StampsName
    <3> QED
      BY <1>1, <1>3, <3>1, <3>2, KnownThen
  <2>4. CASE g = disk' /\ NewFile(g)
    <3>1. ~Used(f.from)
      BY <1>3, <2>4 DEF NewFile
    <3>2. f \notin KnownFiles
      BY <3>1 DEF Used
    <3>3. NewFile(f)
      BY <1>1, <1>3, <3>2, KnownThen
    <3>4. PICK h \in KnownFiles : f.from = h.at
      BY <1>3, <3>3 DEF NewFile
    <3> QED
      BY <3>1, <3>4 DEF Used
  <2> QED
    BY <2>1, <2>3, <2>4, KnownThen
<1> QED
  BY <1>2, <1>3 DEF Lineage

LEMMA HoldingKept ==
  ASSUME TypeOK, TypeOK', LedgerInv, HoldInv, FilesMove, NEW p \in Provider, NEW r,
         r.cached # NoToken, Moves(r, st[p])
  PROVE  HoldingNext(r)
<1> DEFINE s == st[p]
<1>1. NoFile.at = 0 /\ NoFile.by # "refresh"
  BY DEF NoFile
<1>2. Used(s.obtained_at) /\ Used(s.file_seen)
  BY DEF Used
<1>3. s.cached # NoToken => Holding(s)
  BY DEF HoldInv
<1>4. Lineage /\ LedgerInv /\ StampsName /\ disk \in KnownFiles
  BY KnownAreFiles DEF HoldInv, LedgerInv
<1> HIDE DEF s
<1>5. CASE Alike(r, s)
  <2>1. Holding(s)
    BY <1>3, <1>5 DEF Alike
  <2>2. \A f \in KnownFiles' : f.at = s.obtained_at => f.chain = s.cached.chain
    BY <1>1, <1>2, <2>1, KnownThen DEF Holding, NewFile
  <2>3. ASSUME NEW f \in KnownFiles', f.by = "refresh", f.from = s.obtained_at
        PROVE  f.chain = s.cached.chain
    <3>1. CASE f \in KnownFiles
      BY <2>1, <2>3, <3>1 DEF Holding
    <3>2. CASE NewFile(f)
      <4>1. PICK g \in KnownFiles : f.from = g.at /\ f.chain = g.chain
        BY <2>3, <3>2 DEF NewFile
      <4> QED
        BY <2>1, <2>3, <4>1 DEF Holding
    <3> QED
      BY <1>1, <2>3, <3>1, <3>2, KnownThen
  <2>4. disk'.at = s.file_seen => disk'.chain = s.cached.chain /\ disk'.scope = s.live_scope
    BY <1>1, <1>2, <2>1 DEF FilesMove, NewFile, Holding
  <2> QED
    BY <1>5, <2>1, <2>2, <2>3, <2>4 DEF Alike, Holding, HoldingNext
<1>6. CASE Rotated(r, s)
  <2>1. Holding(s) /\ disk' = disk
    BY <1>3, <1>6 DEF Rotated
  <2>2. disk.by = "refresh" /\ disk.from = s.obtained_at /\ disk.scope = s.live_scope
    BY <1>6 DEF Rotated, IsRotationOf
  <2>3. disk.chain = s.cached.chain
    BY <1>4, <2>1, <2>2 DEF Holding
  <2>4. disk.at # 0 /\ ~NewFile(disk)
    BY <1>1, <1>4, <2>2 DEF StampsName, NewFile, Used
  <2>5. \A f \in KnownFiles' : f \in KnownFiles \/ f = NoFile
    BY <2>1, <2>4, KnownThen
  <2>6. \A f \in KnownFiles' : f.at = disk.at => f.chain = disk.chain
    BY <1>1, <1>4, <2>4, <2>5 DEF StampsName
  <2>7. \A f \in KnownFiles' : f.by = "refresh" /\ f.from = disk.at => f.chain = disk.chain
    BY <1>1, <1>4, <2>5 DEF Lineage
  <2> QED
    BY <1>6, <2>1, <2>2, <2>3, <2>4, <2>6, <2>7 DEF Rotated, Holding, HoldingNext
<1>7. CASE Written(r)
  <2>1. \A f \in KnownFiles : f.at # disk'.at /\ f.from # disk'.at
    BY <1>7 DEF Written, Used
  <2>2. disk'.from # disk'.at
    BY <1>7, <2>1 DEF Written, NewFile
  <2>3. \A f \in KnownFiles' : f = disk' \/ f = NoFile \/ f \in KnownFiles
    BY KnownThen
  <2>4. disk'.at \notin {0, Unknown}
    BY <1>7 DEF Written, TypeOK, File, Unknown
  <2> QED
    BY <1>1, <1>7, <2>1, <2>2, <2>3, <2>4 DEF Written, HoldingNext
<1> QED
  BY <1>5, <1>6, <1>7 DEF Moves, s

--------------------------------------------------------------------------------
(***************************************************************************)
(* Every step moves the file and the providers in one of these ways.       *)
(***************************************************************************)
LEMMA RefreshIsNew ==
  ASSUME TypeOK, LedgerInv, NEW t \in Thread, SaveWrites(t)
  PROVE  /\ NewFile(disk') /\ disk'.by = "refresh"
         /\ disk' = RotatedFile(base[t], minted[t].at, minted[t].scope)
<1>1. /\ pc[t] = "save" /\ base[t] \in File /\ base[t] \in KnownFiles
      /\ disk' = RotatedFile(base[t], minted[t].at, minted[t].scope)
  BY KnownAreFiles DEF SaveWrites, DiskBecomes, TypeOK
<1>2. /\ disk'.at = minted[t].at /\ disk'.from = base[t].at /\ disk'.chain = base[t].chain
      /\ disk'.by = "refresh"
  BY <1>1 DEF RotatedFile, File
<1>3. minted[t].at # 0 /\ ~Used(minted[t].at)
  BY <1>1 DEF LedgerInv, Ledger
<1>4. base[t].at # 0
  <2>1. Readable(base[t]) /\ ~Readable(NoFile)
    BY <1>1 DEF LedgerInv, StampsName, Readable, NoFile
  <2> QED
    BY <1>1, <2>1 DEF LedgerInv, StampsName
<1> QED
  BY <1>1, <1>2, <1>3, <1>4 DEF NewFile

LEMMA StepMovesFiles ==
  ASSUME TypeOK, LedgerInv, [Next]_vars
  PROVE  FilesMove
<1>1. disk' \in {disk, NoFile} \/ NewFile(disk')
  <2>1. CASE \E t \in Thread : SaveWrites(t)
    BY <2>1, RefreshIsNew
  <2>2. CASE LoginSaves
    BY <2>2 DEF LoginSaves, DiskBecomes, LedgerInv, Ledger, NewFile
  <2>3. CASE NewerBuildSaves
    <3>1. disk'.at = stamp + 1 /\ disk'.by # "refresh"
      BY <2>3 DEF NewerBuildSaves, DiskBecomes, UnreadableFile, NoFile
    <3> QED
      BY <3>1, KnownAreFiles DEF LedgerInv, Ledger, NewFile
  <2>4. CASE Logout \/ \E t \in Thread : DeleteDead(t)
    BY <2>4 DEF Logout, DeleteDead, DiskBecomes
  <2> QED
    BY <2>1, <2>2, <2>3, <2>4, DiskChanges
<1>2. ASSUME NEW t \in Thread, NEW u \in Thread, Call(u) PROVE base'[t] \in {base[t], disk, NoFile}
  <2>1. CASE \E a : Return(u, a)
    BY <2>1, ReturnFrame
  <2>2. CASE Load(u) \/ SaveAdopts(u)
    BY <2>2 DEF Load, SaveAdopts, TypeOK
  <2>3. CASE UNCHANGED base
    BY <2>3
  <2> QED
    BY <1>2, <2>1, <2>2, <2>3
       DEF Call, Section, Begin, NoticeSame, NoticeAbsent, NoticeChanged, NoticeRotated,
           NoticeReplaced, AnswerFromCache, AnswerFromFailure, MustRefresh, LoadRefused,
           RedeemGrants, RedeemForbidden, RedeemFails, RedeemDead, DeleteDead, DeleteSpared,
           SaveWrites, AdoptRefused, SaveRefused, Finish, Invalidate, Forget, localVars
<1>3. ASSUME NEW t \in Thread, [Next]_vars, ~\E u \in Thread : Call(u)
      PROVE  base'[t] \in {base[t], disk, NoFile}
  BY <1>3 DEF Next, TokenAges, BackoffElapses, Crash, LoginStamps, LoginSaves, Logout,
              NewerBuildSaves, vars, localVars
<1> QED
  BY <1>1, <1>2, <1>3 DEF FilesMove

LEMMA ForgottenMoves ==
  /\ Fresh.cached = NoToken
  /\ \A s, n : Reset(s, n).cached = NoToken
BY DEF Fresh, Reset

LEMMA NoticesMove ==
  ASSUME TypeOK, LedgerInv, HoldInv, NEW q \in Provider, NEW t \in Thread,
         NoticeSame(t) \/ NoticeAbsent(t) \/ NoticeRotated(t) \/ NoticeReplaced(t)
  PROVE  Moves(st'[q], st[q])
<1> DEFINE p == Owner[t]
<1>1. p \in Provider /\ st[p] \in ProviderState /\ st \in [Provider -> ProviderState]
      /\ (st[p].cached # NoToken => Holding(st[p]))
  BY OwnerAssumption DEF TypeOK, HoldInv
<1>2. CASE q # p
  BY <1>1, <1>2 DEF NoticeSame, NoticeAbsent, NoticeRotated, NoticeReplaced, Moves, Alike
<1>3. CASE q = p /\ NoticeSame(t)
  <2>1. st'[p].file_seen = Observe(disk) /\ st'[p].cached = st[p].cached
        /\ st'[p].live_scope = st[p].live_scope /\ st'[p].obtained_at = st[p].obtained_at
        /\ st[p].file_seen \in {Unknown, Observe(disk)}
    BY <1>1, <1>3 DEF NoticeSame, ProviderState
  <2> QED
    BY <1>1, <1>3, <2>1 DEF Holding, Moves, Alike
<1>4. CASE q = p /\ (NoticeAbsent(t) \/ NoticeReplaced(t))
  BY <1>1, <1>4, ForgottenMoves DEF NoticeAbsent, NoticeReplaced, Moves
<1>5. CASE q = p /\ NoticeRotated(t)
  <2>1. /\ st'[p].file_seen = noted[t] /\ st'[p].cached = st[p].cached
        /\ st'[p].live_scope = st[p].live_scope /\ st'[p].obtained_at = disk.at
        /\ IsRotationOf(disk, st[p]) /\ disk' = disk
    BY <1>1, <1>5 DEF NoticeRotated, ProviderState
  <2>2. noted[t] \notin {0, Unknown}
    BY <1>5, KnownAreFiles DEF HoldInv, Calling, NoticeRotated, Goto, Unknown
  <2> QED
    BY <1>5, <2>1, <2>2 DEF Moves, Rotated
<1> QED
  BY <1>2, <1>3, <1>4, <1>5

LEMMA AnswersMove ==
  ASSUME TypeOK, NEW q \in Provider, NEW t \in Thread,
         \/ RedeemFails(t) \/ DeleteSpared(t) \/ DeleteDead(t) \/ SaveAdopts(t) \/ AdoptRefused(t)
         \/ Finish(t) \/ Invalidate(t)
  PROVE  Moves(st'[q], st[q])
<1> DEFINE p == Owner[t]
<1>1. p \in Provider /\ st[p] \in ProviderState /\ st \in [Provider -> ProviderState]
  BY OwnerAssumption DEF TypeOK
<1>2. CASE RedeemFails(t) \/ DeleteSpared(t) \/ SaveAdopts(t) \/ AdoptRefused(t)
  BY <1>1, <1>2 DEF RedeemFails, DeleteSpared, SaveAdopts, AdoptRefused, Bump, ProviderState, Moves, Alike
<1>3. CASE DeleteDead(t)
  <2> DEFINE e == Reset(st[p], Observe(NoFile))
             s == [e EXCEPT !.last_failure = 0]
  <2>1. s.cached = NoToken
    BY DEF Reset, Fresh
  <2>2. st' = [st EXCEPT ![p] = s]
    BY <1>3 DEF DeleteDead
  <2> HIDE DEF s
  <2> QED
    BY <1>1, <2>1, <2>2 DEF Moves, Alike
<1>4. CASE Finish(t) \/ Invalidate(t)
  BY <1>1, <1>4, ForgottenMoves DEF Finish, Invalidate, ProviderState, Moves, Alike
<1> QED
  BY <1>2, <1>3, <1>4

LEMMA SaveMoves ==
  ASSUME TypeOK, LedgerInv, NEW q \in Provider, NEW t \in Thread, SaveWrites(t)
  PROVE  Moves(st'[q], st[q])
<1> DEFINE p == Owner[t]
           f == RotatedFile(base[t], minted[t].at, minted[t].scope)
           s == Wrote(st[p], f)
<1>1. p \in Provider /\ st[p] \in ProviderState /\ st \in [Provider -> ProviderState]
  BY OwnerAssumption DEF TypeOK
<1>2. disk' = f /\ NewFile(f) /\ f.by = "refresh"
  BY RefreshIsNew
<1>3. st' = [st EXCEPT ![p] = s]
  BY <1>1 DEF SaveWrites
<1> HIDE DEF f
<1>4. /\ s.cached.chain = f.chain /\ s.cached.scope = f.scope /\ s.live_scope = f.scope
      /\ s.obtained_at = f.at /\ s.file_seen = f.at
  BY <1>1 DEF Wrote, FreshToken, Observe, ProviderState
<1> HIDE DEF s
<1>5. Written(s)
  BY <1>2, <1>4 DEF Written, NewFile
<1> QED
  BY <1>1, <1>3, <1>5 DEF Moves, Alike

LEMMA ProcessesMove ==
  ASSUME TypeOK, NEW q \in Provider, NEW p \in Provider,
         TokenAges(p) \/ BackoffElapses(p) \/ Crash(p)
  PROVE  Moves(st'[q], st[q])
<1>1. st[p] \in ProviderState /\ st \in [Provider -> ProviderState]
  BY DEF TypeOK
<1>2. CASE TokenAges(p)
  <2> DEFINE g == [st[p].cached EXCEPT !.age = Older(@)]
             s == [st[p] EXCEPT !.cached = g]
  <2>1. st' = [st EXCEPT ![p] = s]
    BY <1>1, <1>2 DEF TokenAges, ProviderState, Token
  <2>2. g.chain = st[p].cached.chain /\ g.scope = st[p].cached.scope
    BY <1>1 DEF ProviderState, Token
  <2>3. st[p].cached # NoToken
    BY <1>2 DEF TokenAges, NoToken
  <2> HIDE DEF g
  <2>4. /\ s.cached = g /\ s.live_scope = st[p].live_scope
        /\ s.obtained_at = st[p].obtained_at /\ s.file_seen = st[p].file_seen
    BY <1>1 DEF ProviderState
  <2> HIDE DEF s
  <2> QED
    BY <1>1, <2>1, <2>2, <2>3, <2>4 DEF Moves, Alike
<1>3. CASE BackoffElapses(p)
  BY <1>1, <1>3 DEF BackoffElapses, ProviderState, Moves, Alike
<1>4. CASE Crash(p)
  BY <1>1, <1>4, ForgottenMoves DEF Crash, Moves, Alike
<1> QED
  BY <1>2, <1>3, <1>4

LEMMA StepMoves ==
  ASSUME TypeOK, LedgerInv, HoldInv, [Next]_vars, NEW q \in Provider
  PROVE  Moves(st'[q], st[q])
<1>1. CASE UNCHANGED st
  BY <1>1 DEF Moves, Alike
<1> QED
  BY <1>1, NoticesMove, AnswersMove, SaveMoves, ProcessesMove
     DEF Next, Call, Section, Begin, NoticeChanged, AnswerFromCache, AnswerFromFailure, MustRefresh,
         Load, LoadRefused, RedeemGrants, RedeemForbidden, RedeemDead, SaveRefused,
         LoginStamps, LoginSaves, Logout, NewerBuildSaves, vars

--------------------------------------------------------------------------------
(***************************************************************************)
(* Calls: what becomes of the token a call may answer with.                *)
(***************************************************************************)
LEMMA CallingKept ==
  ASSUME HoldInv, NEW t \in Thread, Moves(st'[Owner[t]], st[Owner[t]]),
         pc[t] # "idle" => during[t] \subseteq during'[t],
         pc'[t] # "idle" => disk'.chain \in during'[t],
         pc'[t] = "noticeLoad" => noted'[t] # 0,
         pc'[t] \in Noticed => pc[t] \in Noticed,
         pc[t] = "done" => pc'[t] = "done",
         answer'[t] = answer[t]
  PROVE  Calling(t)'
<1> DEFINE r == st'[Owner[t]]
           s == st[Owner[t]]
<1>1. Calling(t)
  BY DEF HoldInv
<1>2. ASSUME pc'[t] \in Noticed, r.cached # NoToken PROVE r.cached.chain \in during'[t]
  <2>1. pc[t] # "idle" /\ pc'[t] # "idle" /\ (s.cached # NoToken => s.cached.chain \in during[t])
    BY <1>1, <1>2 DEF Calling, Noticed, Redeeming
  <2>2. Alike(r, s) \/ Rotated(r, s) \/ Written(r)
    BY <1>2 DEF Moves
  <2> QED
    BY <2>1, <2>2 DEF Alike, Rotated, Written
<1>3. pc'[t] # "done" => answer'[t].kind = "none"
  BY <1>1 DEF Calling
<1>4. answer'[t].kind = "token" =>
        answer'[t].chain \in during'[t] /\ answer'[t].scope = answer'[t].granted
  BY <1>1 DEF Calling
<1> QED
  BY <1>2, <1>3, <1>4 DEF Calling

LEMMA CallingGone ==
  ASSUME NEW t \in Thread, pc'[t] = "idle", answer'[t] = NoAnswer
  PROVE  Calling(t)'
BY DEF Calling, NoAnswer, Noticed, Redeeming

LEMMA CallingAnswered ==
  ASSUME NEW t \in Thread, pc'[t] = "done", disk'.chain \in during'[t],
         answer'[t].kind = "token" =>
           answer'[t].chain \in during'[t] /\ answer'[t].scope = answer'[t].granted
  PROVE  Calling(t)'
BY DEF Calling, Noticed, Redeeming

\* An answer from the cache, by a call that has noticed the file.
LEMMA CachedIsCurrent ==
  ASSUME TypeOK, HoldInv, NEW t \in Thread, pc[t] \in Noticed, NEW a,
         a = CachedOr(st[Owner[t]], Refusal(st[Owner[t]])) \/
         a = CachedOr(st[Owner[t]], Failed(st[Owner[t]]))
  PROVE  a.kind = "token" => a.chain \in during[t] /\ a.scope = a.granted
<1> DEFINE s == st[Owner[t]]
<1>1. Owner[t] \in Provider
  BY OwnerAssumption
<1>2. CASE s.cached.age # "expired"
  <2>1. s.cached # NoToken
    BY <1>2 DEF NoToken
  <2>2. s.cached.chain \in during[t] /\ s.cached.scope = s.live_scope
    BY <1>1, <2>1 DEF HoldInv, Calling, Holding
  <2> QED
    BY <1>2, <2>2 DEF CachedOr, TokenOf
<1>3. CASE s.cached.age = "expired"
  BY <1>3 DEF CachedOr, Refusal, Failed, NoAnswer
<1> QED
  BY <1>2, <1>3

LEMMA CallingNoticed ==
  ASSUME TypeOK, LedgerInv, HoldInv, NEW t \in Thread,
         NoticeSame(t) \/ NoticeAbsent(t) \/ NoticeRotated(t) \/ NoticeReplaced(t)
  PROVE  Calling(t)'
<1> DEFINE p == Owner[t]
<1>1. /\ p \in Provider /\ st[p] \in ProviderState /\ st \in [Provider -> ProviderState]
      /\ (st[p].cached # NoToken => Holding(st[p]))
      /\ pc \in [Thread -> PC] /\ Calling(t) /\ disk \in KnownFiles
  BY OwnerAssumption, KnownAreFiles DEF TypeOK, HoldInv
<1>2. /\ pc'[t] = "enter" /\ answer' = answer /\ during' = during /\ disk' = disk
      /\ pc[t] \in {"notice", "noticeLoad"}
  BY <1>1 DEF NoticeSame, NoticeAbsent, NoticeRotated, NoticeReplaced, Goto
<1>3. st'[p].cached # NoToken => st'[p].cached.chain = disk.chain
  <2>1. CASE NoticeSame(t)
    <3>1. st'[p].cached = st[p].cached /\ st[p].file_seen \in {Unknown, disk.at}
      BY <1>1, <2>1 DEF NoticeSame, ProviderState, Observe
    <3> QED
      BY <1>1, <3>1 DEF Holding
  <2>2. CASE NoticeAbsent(t) \/ NoticeReplaced(t)
    BY <1>1, <2>2, ForgottenMoves DEF NoticeAbsent, NoticeReplaced
  <2>3. CASE NoticeRotated(t)
    <3>1. st'[p].cached = st[p].cached /\ disk.by = "refresh" /\ disk.from = st[p].obtained_at
      BY <1>1, <2>3 DEF NoticeRotated, IsRotationOf, ProviderState
    <3> QED
      BY <1>1, <3>1 DEF Holding
  <2> QED
    BY <2>1, <2>2, <2>3
<1>4. disk.chain \in during[t] /\ answer[t].kind = "none"
  BY <1>1, <1>2 DEF Calling
<1> QED
  BY <1>2, <1>3, <1>4 DEF Calling

LEMMA CallingReturned ==
  ASSUME TypeOK, LedgerInv, HoldInv, NEW t \in Thread,
         \/ AnswerFromCache(t) \/ AnswerFromFailure(t) \/ LoadRefused(t) \/ RedeemForbidden(t)
         \/ RedeemFails(t) \/ DeleteDead(t) \/ DeleteSpared(t) \/ SaveWrites(t)
         \/ AdoptRefused(t) \/ SaveRefused(t)
  PROVE  Calling(t)'
<1> DEFINE p == Owner[t]
<1>1. /\ p \in Provider /\ st[p] \in ProviderState /\ st \in [Provider -> ProviderState]
      /\ pc \in [Thread -> PC] /\ Calling(t)
      /\ answer \in [Thread -> Answer] /\ during \in [Thread -> SUBSET Nat]
  BY OwnerAssumption DEF TypeOK, HoldInv
<1>2. pc[t] \in Noticed /\ pc'[t] = "done" /\ disk.chain \in during[t]
  <2>1. pc[t] \in Noticed
    BY DEF AnswerFromCache, AnswerFromFailure, LoadRefused, RedeemForbidden, RedeemFails,
           DeleteDead, DeleteSpared, SaveWrites, AdoptRefused, SaveRefused, Noticed, Redeeming
  <2>2. pc'[t] = "done"
    BY <1>1 DEF AnswerFromCache, AnswerFromFailure, LoadRefused, RedeemForbidden, RedeemFails,
           DeleteDead, DeleteSpared, SaveWrites, AdoptRefused, SaveRefused, Return
  <2> QED
    BY <1>1, <2>1, <2>2 DEF Calling, Noticed, Redeeming
<1>3. \A s : Failed(s).kind = "error"
  BY DEF Failed, NoAnswer
<1>4. CASE AnswerFromCache(t) \/ AnswerFromFailure(t) \/ RedeemFails(t) \/ DeleteSpared(t)
  <2>1. \/ answer'[t] = CachedOr(st[p], Refusal(st[p])) \/ answer'[t] = CachedOr(st[p], Failed(st[p]))
    BY <1>1, <1>4
       DEF AnswerFromCache, AnswerFromFailure, RedeemFails, DeleteSpared, Return, CachedOr, FastPath
  <2>2. disk' = disk /\ during' = during
    BY <1>4 DEF AnswerFromCache, AnswerFromFailure, RedeemFails, DeleteSpared
  <2> QED
    BY <1>2, <2>1, <2>2, CachedIsCurrent, CallingAnswered
<1>5. CASE LoadRefused(t) \/ RedeemForbidden(t) \/ AdoptRefused(t) \/ SaveRefused(t)
  <2>1. answer'[t].kind = "error" /\ disk' = disk /\ during' = during
    BY <1>1, <1>3, <1>5 DEF LoadRefused, RedeemForbidden, AdoptRefused, SaveRefused, Return
  <2> QED
    BY <1>2, <2>1, CallingAnswered
<1>6. CASE DeleteDead(t)
  <2>1. answer'[t].kind = "error" /\ disk'.chain \in during'[t]
    BY <1>1, <1>2, <1>3, <1>6 DEF DeleteDead, Return, DiskBecomes, Noticed, Redeeming
  <2> QED
    BY <1>2, <2>1, CallingAnswered
<1>7. CASE SaveWrites(t)
  <2> DEFINE f == RotatedFile(base[t], minted[t].at, minted[t].scope)
             s == Wrote(st[p], f)
  <2>1. disk' = f /\ disk'.chain \in during'[t]
    BY <1>1, <1>2, <1>7 DEF SaveWrites, DiskBecomes, Noticed, Redeeming
  <2>2. st'[p] = s /\ answer'[t] = TokenOf(st'[p])
    BY <1>1, <1>7 DEF SaveWrites, Return
  <2> HIDE DEF f
  <2>3. s.cached.chain = f.chain /\ s.cached.scope = s.live_scope
    BY <1>1 DEF Wrote, FreshToken, ProviderState
  <2> HIDE DEF s
  <2>4. answer'[t].chain \in during'[t] /\ answer'[t].scope = answer'[t].granted
    BY <2>1, <2>2, <2>3 DEF TokenOf
  <2> QED
    BY <1>2, <2>1, <2>4, CallingAnswered
<1> QED
  BY <1>4, <1>5, <1>6, <1>7

\* The threads whose call the step is not.
LEMMA OthersWait ==
  ASSUME TypeOK, HoldInv, NEW t \in Thread, [Next]_vars, ~Call(t)
  PROVE  \/ pc'[t] = "idle" /\ answer'[t] = NoAnswer
         \/ /\ pc'[t] = pc[t] /\ answer'[t] = answer[t] /\ noted'[t] = noted[t]
            /\ pc[t] # "idle" => during[t] \subseteq during'[t] /\ disk'.chain \in during'[t]
<1>1. /\ pc \in [Thread -> PC] /\ answer \in [Thread -> Answer]
      /\ noted \in [Thread -> Nat] /\ during \in [Thread -> SUBSET Nat]
      /\ (pc[t] # "idle" => disk.chain \in during[t])
  BY DEF TypeOK, HoldInv, Calling
<1>2. ASSUME NEW u \in Thread, Call(u), t # u
      PROVE  /\ pc'[t] = pc[t] /\ answer'[t] = answer[t] /\ noted'[t] = noted[t]
             /\ pc[t] # "idle" => during[t] \subseteq during'[t] /\ disk'.chain \in during'[t]
  <2>1. pc'[t] = pc[t]
    BY <1>1, <1>2
       DEF Call, Section, Begin, NoticeSame, NoticeAbsent, NoticeChanged, NoticeRotated,
           NoticeReplaced, AnswerFromCache, AnswerFromFailure, MustRefresh, Load, LoadRefused,
           RedeemGrants, RedeemForbidden, RedeemFails, RedeemDead, DeleteDead, DeleteSpared,
           SaveWrites, SaveAdopts, AdoptRefused, SaveRefused, Finish, Invalidate, Forget,
           Return, Goto
  <2>2. answer'[t] = answer[t]
    BY <1>1, <1>2
       DEF Call, Section, Begin, NoticeSame, NoticeAbsent, NoticeChanged, NoticeRotated,
           NoticeReplaced, AnswerFromCache, AnswerFromFailure, MustRefresh, Load, LoadRefused,
           RedeemGrants, RedeemForbidden, RedeemFails, RedeemDead, DeleteDead, DeleteSpared,
           SaveWrites, SaveAdopts, AdoptRefused, SaveRefused, Finish, Invalidate, Forget,
           Return
  <2>3. noted'[t] = noted[t]
    BY <1>1, <1>2
       DEF Call, Section, Begin, NoticeSame, NoticeAbsent, NoticeChanged, NoticeRotated,
           NoticeReplaced, AnswerFromCache, AnswerFromFailure, MustRefresh, Load, LoadRefused,
           RedeemGrants, RedeemForbidden, RedeemFails, RedeemDead, DeleteDead, DeleteSpared,
           SaveWrites, SaveAdopts, AdoptRefused, SaveRefused, Finish, Invalidate, Forget,
           Return, localVars
  <2>4. CASE DeleteDead(u) \/ SaveWrites(u)
    <3>1. during'[t] = IF pc[t] = "idle" THEN during[t] ELSE during[t] \cup {disk'.chain}
      BY <1>1, <2>4 DEF DeleteDead, SaveWrites, DiskBecomes
    <3> QED
      BY <2>1, <2>2, <2>3, <3>1
  <2>5. CASE ~(DeleteDead(u) \/ SaveWrites(u))
    <3>1. disk' = disk /\ during'[t] = during[t]
      BY <1>1, <1>2, <2>5
       DEF Call, Section, Begin, NoticeSame, NoticeAbsent, NoticeChanged, NoticeRotated,
           NoticeReplaced, AnswerFromCache, AnswerFromFailure, MustRefresh, Load, LoadRefused,
           RedeemGrants, RedeemForbidden, RedeemFails, RedeemDead, DeleteSpared,
           SaveAdopts, AdoptRefused, SaveRefused, Finish, Invalidate, Forget
    <3> QED
      BY <1>1, <2>1, <2>2, <2>3, <3>1
  <2> QED
    BY <2>4, <2>5
<1>3. CASE \E p \in Provider : TokenAges(p) \/ BackoffElapses(p) \/ Crash(p)
  BY <1>1, <1>3 DEF TokenAges, BackoffElapses, Crash, localVars
<1>4. CASE LoginStamps \/ UNCHANGED vars
  BY <1>1, <1>4 DEF LoginStamps, vars, localVars
<1>5. CASE LoginSaves \/ Logout \/ NewerBuildSaves
  <2>1. /\ pc' = pc /\ answer' = answer /\ noted' = noted
        /\ during'[t] = IF pc[t] = "idle" THEN during[t] ELSE during[t] \cup {disk'.chain}
    BY <1>5 DEF LoginSaves, Logout, NewerBuildSaves, DiskBecomes, localVars
  <2> QED
    BY <2>1
<1> QED
  BY <1>2, <1>3, <1>4, <1>5 DEF Next

LEMMA CallingStep ==
  ASSUME TypeOK, LedgerInv, HoldInv, [Next]_vars, NEW t \in Thread
  PROVE  Calling(t)'
<1>1. Owner[t] \in Provider /\ Moves(st'[Owner[t]], st[Owner[t]])
  BY OwnerAssumption, StepMoves
<1>2. CASE ~Call(t)
  <2>1. CASE pc'[t] = "idle" /\ answer'[t] = NoAnswer
    BY <2>1, CallingGone
  <2>2. CASE /\ pc'[t] = pc[t] /\ answer'[t] = answer[t] /\ noted'[t] = noted[t]
             /\ pc[t] # "idle" => during[t] \subseteq during'[t] /\ disk'.chain \in during'[t]
    <3>1. pc'[t] = "noticeLoad" => noted'[t] # 0
      BY <2>2 DEF HoldInv, Calling
    <3> QED
      BY <1>1, <2>2, <3>1, CallingKept
  <2> QED
    BY <1>2, <2>1, <2>2, OthersWait
<1>3. CASE Finish(t) \/ Invalidate(t)
  <2>1. pc'[t] = "idle" /\ answer'[t] = NoAnswer
    BY <1>3 DEF Finish, Invalidate, Forget, Goto, TypeOK
  <2> QED
    BY <2>1, CallingGone
<1>4. CASE Begin(t)
  <2>1. /\ pc[t] = "idle" /\ pc'[t] = "notice" /\ during'[t] = {disk.chain} /\ disk' = disk
        /\ answer' = answer
    BY <1>4 DEF Begin, Goto, TypeOK
  <2> QED
    BY <1>1, <2>1, CallingKept DEF Noticed, Redeeming
<1>5. CASE NoticeChanged(t)
  <2>1. /\ pc[t] = "notice" /\ pc'[t] = "noticeLoad" /\ during' = during /\ disk' = disk
        /\ answer' = answer /\ noted'[t] = disk.at
    BY <1>5 DEF NoticeChanged, Goto, TypeOK, Observe
  <2>2. disk.at # 0
    BY <1>5, KnownAreFiles DEF NoticeChanged, LedgerInv, StampsName
  <2>3. disk.chain \in during[t]
    BY <2>1 DEF HoldInv, Calling
  <2> QED
    BY <1>1, <2>1, <2>2, <2>3, CallingKept DEF Noticed, Redeeming
<1>6. CASE MustRefresh(t) \/ Load(t) \/ RedeemGrants(t) \/ RedeemDead(t) \/ SaveAdopts(t)
  <2>1. /\ pc[t] \in Noticed /\ pc'[t] \in Noticed /\ during' = during /\ disk' = disk
        /\ answer' = answer
    BY <1>6 DEF MustRefresh, Load, RedeemGrants, RedeemDead, SaveAdopts, Goto, TypeOK,
                Noticed, Redeeming
  <2>2. disk.chain \in during[t] /\ pc'[t] # "noticeLoad" /\ pc[t] # "done"
    BY <2>1 DEF HoldInv, Calling, Noticed, Redeeming
  <2> QED
    BY <1>1, <2>1, <2>2, CallingKept
<1> QED
  BY <1>2, <1>3, <1>4, <1>5, <1>6, CallingNoticed, CallingReturned DEF Call, Section

--------------------------------------------------------------------------------
LEMMA HoldInit ==
  ASSUME Init
  PROVE  HoldInv
<1>1. /\ \A t \in Thread : base[t] = NoFile /\ pc[t] = "idle" /\ answer[t] = NoAnswer
      /\ disk.by # "refresh" /\ NoFile.by # "refresh"
  BY DEF Init, NoFile, LoginFile
<1>2. \A p \in Provider : st[p].cached = NoToken
  BY ForgottenMoves DEF Init
<1>3. Lineage
  BY <1>1 DEF Lineage, KnownFiles
<1>4. \A t \in Thread : Calling(t)
  BY <1>1 DEF Calling, NoAnswer, Noticed, Redeeming
<1> QED
  BY <1>2, <1>3, <1>4 DEF HoldInv

LEMMA HoldStep ==
  ASSUME TypeOK, TypeOK', LedgerInv, HoldInv, [Next]_vars
  PROVE  HoldInv'
<1>1. FilesMove
  BY StepMovesFiles
<1>2. Lineage'
  BY <1>1, LineageKept DEF HoldInv
<1>3. ASSUME NEW p \in Provider, (st[p].cached # NoToken)'
      PROVE  Holding(st[p])'
  <2>1. HoldingNext(st'[p])
    BY <1>1, <1>3, StepMoves, HoldingKept
  <2> QED
    BY <2>1 DEF Holding, HoldingNext
<1>4. \A t \in Thread : Calling(t)'
  BY CallingStep
<1> QED
  BY <1>2, <1>3, <1>4 DEF HoldInv

LEMMA HoldAlways == Spec => [](TypeOK /\ LedgerInv /\ HoldInv)
<1>1. Init => TypeOK /\ LedgerInv /\ HoldInv
  BY TypeInit, LedgerInit, HoldInit
<1>2. TypeOK /\ LedgerInv /\ HoldInv /\ [Next]_vars => (TypeOK /\ LedgerInv /\ HoldInv)'
  BY TypeStep, LedgerStep, HoldStep
<1> QED
  BY <1>1, <1>2, PTL DEF Spec

(***************************************************************************)
(* auth/mod.rs, notice_token_file and reset_state_for_file: no call gives  *)
(* back a token of an account whose file was gone before the call began.   *)
(***************************************************************************)
THEOREM TokensStayCurrent == Spec => []TokensAreCurrent
<1>1. HoldInv => TokensAreCurrent
  BY DEF HoldInv, Calling, TokensAreCurrent
<1> QED
  BY <1>1, HoldAlways, PTL

(***************************************************************************)
(* auth/mod.rs, live_scope: whatever was noticed, forgotten or rotated in  *)
(* between, a token is handed out with the grant it was issued with.       *)
(***************************************************************************)
THEOREM GrantsStayWithTokens == Spec => []GrantIsTheTokens
<1>1. HoldInv => GrantIsTheTokens
  BY DEF HoldInv, Calling, GrantIsTheTokens
<1> QED
  BY <1>1, HoldAlways, PTL

(***************************************************************************)
(* auth/mod.rs, is_rotation_of: a token kept across another process's      *)
(* refresh belongs to the chain, and to the grant, of the file on disk.    *)
(***************************************************************************)
THEOREM NoticedFileStaysHeld == Spec => []NoticedFileIsHeld
<1>1. HoldInv => NoticedFileIsHeld
  BY DEF HoldInv, Holding, NoticedFileIsHeld, Observe
<1> QED
  BY <1>1, HoldAlways, PTL

--------------------------------------------------------------------------------
(***************************************************************************)
(* What a provider remembers of a failure: it is about the file that is on *)
(* disk, if that is the one it has noticed, and about one that was there   *)
(* during every call that may still be answered with it.                   *)
(***************************************************************************)
Refused(n, seen) == n \in seen \/ NoFile.chain \in seen

Failing(p) ==
  /\ st[p].last_failure # Quiet /\ st[p].file_seen = disk.at =>
       st[p].last_failure = disk.chain \/ disk = NoFile
  /\ st[p].file_seen = Unknown => st[p].last_failure = Quiet

Trying(t) ==
  LET s == st[Owner[t]] IN
  /\ pc[t] \in Redeeming /\ s.file_seen = disk.at => base[t] = disk \/ disk = NoFile
  /\ pc[t] \in Noticed => /\ s.file_seen # Unknown
                          /\ s.last_failure # Quiet => Refused(s.last_failure, during[t])
  /\ answer[t].kind = "remembered" => Refused(answer[t].chain, during[t])

\* A call that has noticed the file, beside one of its process that redeems.
Beside ==
  \A t, u \in Thread : Owner[u] = Owner[t] /\ pc[t] \in Noticed /\ pc[u] \in Redeeming =>
    base[u].chain \in during[t]

\* The state mutex.
OneHolds == \A t, u \in Thread : Owner[u] = Owner[t] /\ Holds(t) /\ Holds(u) => t = u

FailInv ==
  /\ \A p \in Provider : Failing(p)
  /\ \A t \in Thread : Trying(t)
  /\ Beside
  /\ OneHolds

--------------------------------------------------------------------------------
\* How a thread comes to hold the mutex, to have noticed the file, to redeem.
Notices(t) == NoticeSame(t) \/ NoticeAbsent(t) \/ NoticeRotated(t) \/ NoticeReplaced(t)

LEMMA ThreadsMove ==
  ASSUME TypeOK, HoldInv, NEW t \in Thread, [Next]_vars
  PROVE  /\ pc'[t] \in Noticed => pc[t] \in Noticed \/ Notices(t)
         /\ pc'[t] \in Redeeming => \/ pc[t] \in Redeeming /\ base'[t] = base[t]
                                    \/ base'[t] = disk /\ disk' = disk
         /\ pc[t] # "idle" => pc'[t] = "idle" \/ during[t] \subseteq during'[t]
<1>1. pc \in [Thread -> PC] /\ base \in [Thread -> File] /\ during \in [Thread -> SUBSET Nat]
  BY DEF TypeOK
<1>2. CASE Call(t)
  <2>1. CASE Notices(t)
    BY <1>1, <2>1 DEF Notices, NoticeSame, NoticeAbsent, NoticeRotated, NoticeReplaced, Goto,
                      Redeeming
  <2>2. CASE Begin(t) \/ NoticeChanged(t) \/ Finish(t) \/ Invalidate(t)
    BY <1>1, <2>2 DEF Begin, NoticeChanged, Finish, Invalidate, Forget, Goto, Noticed, Redeeming
  <2>3. CASE \/ AnswerFromCache(t) \/ AnswerFromFailure(t) \/ LoadRefused(t) \/ RedeemForbidden(t)
             \/ RedeemFails(t) \/ DeleteSpared(t) \/ AdoptRefused(t) \/ SaveRefused(t)
    BY <1>1, <2>3 DEF AnswerFromCache, AnswerFromFailure, LoadRefused, RedeemForbidden,
                      RedeemFails, DeleteSpared, AdoptRefused, SaveRefused, Return,
                      Noticed, Redeeming
  <2>4. CASE DeleteDead(t) \/ SaveWrites(t)
    BY <1>1, <2>4 DEF DeleteDead, SaveWrites, Return, DiskBecomes, Noticed, Redeeming
  <2>5. CASE Load(t) \/ SaveAdopts(t)
    BY <1>1, <2>5 DEF Load, SaveAdopts, Goto, Noticed, Redeeming
  <2>6. CASE MustRefresh(t) \/ RedeemGrants(t) \/ RedeemDead(t)
    BY <1>1, <2>6 DEF MustRefresh, RedeemGrants, RedeemDead, Goto, Noticed, Redeeming, localVars
  <2> QED
    BY <1>2, <2>1, <2>2, <2>3, <2>4, <2>5, <2>6 DEF Call, Section, Notices
<1>3. CASE ~Call(t)
  <2>1. pc'[t] = "idle" \/ base'[t] = base[t]
    <3>1. ASSUME NEW u \in Thread, Call(u), t # u PROVE base'[t] = base[t]
      BY <1>1, <3>1
         DEF Call, Section, Begin, NoticeSame, NoticeAbsent, NoticeChanged, NoticeRotated,
             NoticeReplaced, AnswerFromCache, AnswerFromFailure, MustRefresh, Load, LoadRefused,
             RedeemGrants, RedeemForbidden, RedeemFails, RedeemDead, DeleteDead, DeleteSpared,
             SaveWrites, SaveAdopts, AdoptRefused, SaveRefused, Finish, Invalidate, Forget,
             Return, localVars
    <3> QED
      BY <1>1, <1>3, <3>1 DEF Next, TokenAges, BackoffElapses, Crash, LoginStamps, LoginSaves,
                              Logout, NewerBuildSaves, vars, localVars
  <2> QED
    BY <1>3, <2>1, OthersWait DEF Noticed, Redeeming
<1> QED
  BY <1>2, <1>3

LEMMA OneHoldsStep ==
  ASSUME TypeOK, HoldInv, OneHolds, [Next]_vars
  PROVE  OneHolds'
<1>1. ASSUME NEW t \in Thread, Holds(t)', ~Holds(t)
      PROVE  Free(Owner[t]) /\ \A u \in Thread : u # t => pc'[u] = pc[u]
  <2>1. Call(t)
    <3>1. pc'[t] # pc[t] /\ pc'[t] # "idle"
      BY <1>1 DEF Holds
    <3> QED
      BY <3>1, OthersWait
  <2>2. NoticeChanged(t) \/ MustRefresh(t)
    BY <1>1, <2>1
       DEF Call, Section, Begin, NoticeSame, NoticeAbsent, NoticeRotated, NoticeReplaced,
           AnswerFromCache, AnswerFromFailure, Load, LoadRefused, RedeemGrants, RedeemForbidden,
           RedeemFails, RedeemDead, DeleteDead, DeleteSpared, SaveWrites, SaveAdopts,
           AdoptRefused, SaveRefused, Finish, Invalidate, Forget, Return, Goto, Holds, TypeOK
  <2> QED
    BY <2>2 DEF NoticeChanged, MustRefresh, Goto, TypeOK
<1> SUFFICES ASSUME NEW t \in Thread, NEW u \in Thread, Owner[u] = Owner[t],
                    Holds(t)', Holds(u)', t # u
             PROVE  FALSE
  BY DEF OneHolds
<1>2. ~Holds(t) \/ ~Holds(u)
  BY DEF OneHolds
<1> QED
  BY <1>1, <1>2 DEF Free, Holds

LEMMA BesideStep ==
  ASSUME TypeOK, HoldInv, HoldInv', Beside, OneHolds, [Next]_vars
  PROVE  Beside'
<1> SUFFICES ASSUME NEW t \in Thread, NEW u \in Thread, Owner[u] = Owner[t],
                    pc'[t] \in Noticed, pc'[u] \in Redeeming
             PROVE  base'[u].chain \in during'[t]
  BY DEF Beside, Noticed, Redeeming
<1>1. CASE base'[u] = disk /\ disk' = disk
  <2>1. disk'.chain \in during'[t]
    BY DEF HoldInv, Calling, Noticed, Redeeming
  <2> QED
    BY <1>1, <2>1
<1>2. CASE pc[u] \in Redeeming /\ base'[u] = base[u] /\ pc[t] \in Noticed
  <2>1. pc[t] # "idle" /\ pc'[t] # "idle"
    BY <1>2 DEF Noticed, Redeeming
  <2> QED
    BY <1>2, <2>1, ThreadsMove DEF Beside
<1>3. CASE pc[u] \in Redeeming /\ Notices(t)
  <2>1. Holds(u)
    BY <1>3 DEF Holds, Redeeming
  <2>2. CASE NoticeSame(t) \/ NoticeAbsent(t)
    BY <2>1, <2>2 DEF NoticeSame, NoticeAbsent, Free
  <2>3. CASE NoticeRotated(t) \/ NoticeReplaced(t)
    BY <1>3, <2>1, <2>3 DEF NoticeRotated, NoticeReplaced, Goto, Holds, OneHolds, Redeeming
  <2> QED
    BY <1>3, <2>2, <2>3 DEF Notices
<1> QED
  BY <1>1, <1>2, <1>3, ThreadsMove

--------------------------------------------------------------------------------
(***************************************************************************)
(* What becomes of a provider's failure: it stays while the file noticed   *)
(* stays; it is forgotten, with the file only when no call has noticed it; *)
(* it is about the file a thread was redeeming; it is met by the notice of *)
(* the file on disk; or the file has just been deleted for it.             *)
(***************************************************************************)
Stays(r, s) == r.last_failure = s.last_failure /\ r.file_seen = s.file_seen

Forgotten(r, s, q) ==
  /\ r.last_failure = Quiet
  /\ r.file_seen = Unknown => \/ s.file_seen = Unknown
                              \/ \A t \in Thread : Owner[t] = q => pc'[t] \notin Noticed

FailsAt(r, s, q) ==
  /\ \E t \in Thread : Owner[t] = q /\ pc[t] \in Redeeming /\ r.last_failure = base[t].chain
  /\ r.file_seen = s.file_seen /\ disk' = disk

Met(r, s) ==
  /\ r.last_failure = s.last_failure /\ s.file_seen \in {Unknown, disk.at}
  /\ r.file_seen = disk.at /\ disk' = disk

Died(r) == r.last_failure = NoFile.chain /\ r.file_seen # Unknown /\ disk' = NoFile

FailureMoves(r, s, q) ==
  Stays(r, s) \/ Forgotten(r, s, q) \/ FailsAt(r, s, q) \/ Met(r, s) \/ Died(r)

\* The file noticed changes under the mutex, or is forgotten by its process.
SeenKept(r, s, q) ==
  \/ r.file_seen \in {s.file_seen, Unknown}
  \/ \A t \in Thread : Owner[t] = q => pc[t] \notin Redeeming
  \/ \A t \in Thread : Owner[t] = q => pc'[t] \notin Redeeming

LEMMA NoticeForgets ==
  ASSUME TypeOK, NEW t \in Thread, NoticeAbsent(t) \/ NoticeRotated(t) \/ NoticeReplaced(t)
  PROVE  /\ st'[Owner[t]].last_failure = Quiet
         /\ st'[Owner[t]].file_seen \in {disk.at, noted[t]}
<1> DEFINE p == Owner[t]
<1>1. p \in Provider /\ st[p] \in ProviderState /\ st \in [Provider -> ProviderState]
  BY OwnerAssumption DEF TypeOK
<1>2. \A s, n : Reset(s, n).last_failure = Quiet /\ Reset(s, n).file_seen = n
  BY DEF Reset, Fresh
<1>3. CASE NoticeAbsent(t) \/ NoticeReplaced(t)
  BY <1>1, <1>2, <1>3 DEF NoticeAbsent, NoticeReplaced, Observe
<1>4. CASE NoticeRotated(t)
  BY <1>1, <1>4 DEF NoticeRotated, ProviderState
<1> QED
  BY <1>3, <1>4

LEMMA FailureOfNotices ==
  ASSUME TypeOK, OneHolds, NEW t \in Thread, Notices(t), NEW q \in Provider
  PROVE  FailureMoves(st'[q], st[q], q) /\ SeenKept(st'[q], st[q], q)
<1> DEFINE p == Owner[t]
<1>1. /\ p \in Provider /\ st[p] \in ProviderState /\ st \in [Provider -> ProviderState]
      /\ noted[t] \in Nat /\ disk.at \in Nat
  BY OwnerAssumption DEF TypeOK, File
<1>2. CASE q # p
  BY <1>1, <1>2 DEF Notices, NoticeSame, NoticeAbsent, NoticeRotated, NoticeReplaced,
                    FailureMoves, Stays, SeenKept
<1>3. \A u \in Thread : Owner[u] = p => pc[u] \notin Redeeming
  <2>1. CASE NoticeSame(t) \/ NoticeAbsent(t)
    BY <2>1 DEF NoticeSame, NoticeAbsent, Free, Holds, Redeeming
  <2>2. CASE NoticeRotated(t) \/ NoticeReplaced(t)
    BY <2>2 DEF NoticeRotated, NoticeReplaced, Goto, OneHolds, Holds, Redeeming
  <2> QED
    BY <2>1, <2>2 DEF Notices
<1>4. CASE q = p /\ NoticeSame(t)
  <2>1. /\ st'[p].last_failure = st[p].last_failure /\ st'[p].file_seen = disk.at
        /\ st[p].file_seen \in {Unknown, disk.at} /\ disk' = disk
    BY <1>1, <1>4 DEF NoticeSame, ProviderState, Observe
  <2> QED
    BY <1>3, <1>4, <2>1 DEF FailureMoves, Met, SeenKept
<1>5. CASE q = p /\ (NoticeAbsent(t) \/ NoticeRotated(t) \/ NoticeReplaced(t))
  <2>1. st'[p].last_failure = Quiet /\ st'[p].file_seen \in {disk.at, noted[t]}
    BY <1>5, NoticeForgets
  <2> QED
    BY <1>1, <1>3, <1>5, <2>1 DEF FailureMoves, Forgotten, SeenKept, Unknown
<1> QED
  BY <1>2, <1>4, <1>5 DEF Notices

LEMMA FailureOfRedeems ==
  ASSUME TypeOK, OneHolds, NEW t \in Thread, NEW q \in Provider,
         \/ RedeemFails(t) \/ DeleteSpared(t) \/ DeleteDead(t)
         \/ SaveWrites(t) \/ SaveAdopts(t) \/ AdoptRefused(t)
  PROVE  FailureMoves(st'[q], st[q], q) /\ SeenKept(st'[q], st[q], q)
<1> DEFINE p == Owner[t]
<1>1. /\ p \in Provider /\ st[p] \in ProviderState /\ st \in [Provider -> ProviderState]
      /\ pc \in [Thread -> PC] /\ base[t] \in File /\ minted[t].at \in Nat
  BY OwnerAssumption DEF TypeOK, Minted
<1>2. CASE q # p
  BY <1>1, <1>2 DEF RedeemFails, DeleteSpared, DeleteDead, SaveWrites, SaveAdopts, AdoptRefused,
                    FailureMoves, Stays, SeenKept
<1>3. CASE q = p /\ (RedeemFails(t) \/ DeleteSpared(t))
  <2>1. /\ st'[p].last_failure = base[t].chain /\ st'[p].file_seen = st[p].file_seen
        /\ disk' = disk /\ pc[t] \in Redeeming
    BY <1>1, <1>3 DEF RedeemFails, DeleteSpared, ProviderState, Redeeming
  <2> QED
    BY <1>3, <2>1 DEF FailureMoves, FailsAt, SeenKept
<1>4. CASE q = p /\ (SaveAdopts(t) \/ AdoptRefused(t))
  <2>1. st'[p].last_failure = st[p].last_failure /\ st'[p].file_seen = st[p].file_seen
    BY <1>1, <1>4 DEF SaveAdopts, AdoptRefused, Bump, ProviderState
  <2> QED
    BY <1>4, <2>1 DEF FailureMoves, Stays, SeenKept
<1>5. CASE q = p /\ (DeleteDead(t) \/ SaveWrites(t))
  <2>1. \A u \in Thread : Owner[u] = p => pc'[u] \notin Redeeming
    <3>1. \A u \in Thread : Owner[u] = p /\ u # t => pc[u] \notin Redeeming
      BY <1>5 DEF DeleteDead, SaveWrites, OneHolds, Holds, Redeeming
    <3>2. pc' = [pc EXCEPT ![t] = "done"]
      BY <1>5 DEF DeleteDead, SaveWrites, Return
    <3> QED
      BY <1>1, <3>1, <3>2 DEF Redeeming
  <2>2. CASE DeleteDead(t)
    <3> DEFINE e == Reset(st[p], Observe(NoFile))
               s == [e EXCEPT !.last_failure = 0]
    <3>1. st'[p] = s /\ disk' = NoFile
      BY <1>1, <2>2 DEF DeleteDead, DiskBecomes
    <3>2. s.last_failure = NoFile.chain /\ s.file_seen # Unknown
      BY DEF Reset, Fresh, NoFile, Observe, Unknown
    <3> HIDE DEF s
    <3> QED
      BY <1>5, <2>1, <3>1, <3>2 DEF FailureMoves, Died, SeenKept
  <2>3. CASE SaveWrites(t)
    <3> DEFINE f == RotatedFile(base[t], minted[t].at, minted[t].scope)
               s == Wrote(st[p], f)
    <3>1. st'[p] = s /\ f.at = minted[t].at
      BY <1>1, <2>3 DEF SaveWrites, RotatedFile, File
    <3> HIDE DEF f
    <3>2. s.last_failure = Quiet /\ s.file_seen = f.at
      BY <1>1 DEF Wrote, ProviderState, Observe
    <3> HIDE DEF s
    <3> QED
      BY <1>1, <1>5, <2>1, <3>1, <3>2 DEF FailureMoves, Forgotten, SeenKept, Unknown
  <2> QED
    BY <1>5, <2>2, <2>3
<1> QED
  BY <1>2, <1>3, <1>4, <1>5

LEMMA FailureOfProcesses ==
  ASSUME TypeOK, NEW q \in Provider,
         \/ \E t \in Thread : Finish(t) \/ Invalidate(t)
         \/ \E p \in Provider : TokenAges(p) \/ BackoffElapses(p) \/ Crash(p)
  PROVE  FailureMoves(st'[q], st[q], q) /\ SeenKept(st'[q], st[q], q)
<1>1. st \in [Provider -> ProviderState] /\ pc \in [Thread -> PC] /\ Owner \in [Thread -> Provider]
  BY OwnerAssumption DEF TypeOK
<1>2. Fresh.last_failure = Quiet /\ Fresh.file_seen = Unknown
  BY DEF Fresh
<1>3. ASSUME NEW t \in Thread, Invalidate(t)
      PROVE  FailureMoves(st'[q], st[q], q) /\ SeenKept(st'[q], st[q], q)
  <2>1. st'[q].file_seen = st[q].file_seen /\ st'[q].last_failure \in {st[q].last_failure, Quiet}
    BY <1>1, <1>3 DEF Invalidate, ProviderState
  <2> QED
    BY <2>1 DEF FailureMoves, Stays, Forgotten, SeenKept
<1>4. ASSUME NEW t \in Thread, Finish(t)
      PROVE  FailureMoves(st'[q], st[q], q) /\ SeenKept(st'[q], st[q], q)
  BY <1>4 DEF Finish, FailureMoves, Stays, SeenKept
<1>5. ASSUME NEW p \in Provider, TokenAges(p) \/ BackoffElapses(p)
      PROVE  FailureMoves(st'[q], st[q], q) /\ SeenKept(st'[q], st[q], q)
  <2>1. st'[q].file_seen = st[q].file_seen /\ st'[q].last_failure \in {st[q].last_failure, Quiet}
    BY <1>1, <1>5 DEF TokenAges, BackoffElapses, ProviderState
  <2> QED
    BY <2>1 DEF FailureMoves, Stays, Forgotten, SeenKept
<1>6. ASSUME NEW p \in Provider, Crash(p)
      PROVE  FailureMoves(st'[q], st[q], q) /\ SeenKept(st'[q], st[q], q)
  <2>1. CASE q = p
    <3>1. st'[q] = Fresh /\ \A u \in Thread : Owner[u] = q => pc'[u] = "idle"
      BY <1>1, <1>6, <2>1 DEF Crash
    <3> QED
      BY <1>2, <3>1 DEF FailureMoves, Forgotten, SeenKept, Noticed, Redeeming
  <2>2. CASE q # p
    <3>1. st'[q] = st[q]
      BY <1>1, <1>6, <2>2 DEF Crash
    <3> QED
      BY <3>1 DEF FailureMoves, Stays, SeenKept
  <2> QED
    BY <2>1, <2>2
<1> QED
  BY <1>3, <1>4, <1>5, <1>6

LEMMA FailureMovesOn ==
  ASSUME TypeOK, OneHolds, [Next]_vars, NEW q \in Provider
  PROVE  FailureMoves(st'[q], st[q], q) /\ SeenKept(st'[q], st[q], q)
<1>1. CASE UNCHANGED st
  BY <1>1 DEF FailureMoves, Stays, SeenKept
<1> QED
  BY <1>1, FailureOfNotices, FailureOfRedeems, FailureOfProcesses
     DEF Next, Call, Section, Notices, Begin, NoticeChanged, AnswerFromCache, AnswerFromFailure,
         MustRefresh, Load, LoadRefused, RedeemGrants, RedeemForbidden, RedeemDead, SaveRefused,
         LoginStamps, LoginSaves, Logout, NewerBuildSaves, vars

--------------------------------------------------------------------------------
LEMMA FailingStep ==
  ASSUME TypeOK, LedgerInv, FailInv, [Next]_vars, NEW q \in Provider
  PROVE  Failing(q)'
<1> DEFINE r == st'[q]
           s == st[q]
<1>1. FailureMoves(r, s, q) /\ Failing(q) /\ FilesMove
  BY FailureMovesOn, StepMovesFiles DEF FailInv
<1>2. Used(s.file_seen)
  BY DEF Used
<1>3. s.file_seen \in Nat \cup {Unknown} /\ disk.at \in Nat /\ Unknown \notin Nat /\ NoFile.chain = 0
      /\ \A f \in KnownFiles : f.chain \in Nat
  BY KnownAreFiles DEF Unknown, NoFile, File
<1>4. CASE Stays(r, s)
  <2>1. r.last_failure # Quiet /\ r.file_seen = disk'.at =>
          r.last_failure = disk'.chain \/ disk' = NoFile
    BY <1>1, <1>2, <1>4 DEF Stays, Failing, FilesMove, NewFile
  <2> QED
    BY <1>1, <1>4, <2>1 DEF Stays, Failing
<1>5. CASE Forgotten(r, s, q)
  BY <1>5 DEF Forgotten, Failing
<1>6. CASE FailsAt(r, s, q)
  <2>1. PICK t \in Thread : Owner[t] = q /\ pc[t] \in Redeeming /\ r.last_failure = base[t].chain
    BY <1>6 DEF FailsAt
  <2>2. s.file_seen # Unknown /\ (s.file_seen = disk.at => base[t] = disk \/ disk = NoFile)
    BY <2>1 DEF FailInv, Trying, Noticed
  <2> QED
    BY <1>6, <2>1, <2>2 DEF FailsAt, Failing
<1>7. CASE Met(r, s)
  <2>1. r.last_failure # Quiet => r.last_failure = disk'.chain \/ disk' = NoFile
    BY <1>1, <1>7 DEF Met, Failing
  <2> QED
    BY <1>3, <1>7, <2>1 DEF Met, Failing
<1>8. CASE Died(r)
  BY <1>8 DEF Died, Failing
<1> QED
  BY <1>1, <1>4, <1>5, <1>6, <1>7, <1>8 DEF FailureMoves

LEMMA TryingStep ==
  ASSUME TypeOK, LedgerInv, HoldInv, HoldInv', FailInv, [Next]_vars, NEW t \in Thread
  PROVE  Trying(t)'
<1> DEFINE q == Owner[t]
           r == st'[q]
           s == st[q]
<1>1. /\ q \in Provider /\ FailureMoves(r, s, q) /\ SeenKept(r, s, q)
      /\ Failing(q) /\ Trying(t) /\ FilesMove
  BY OwnerAssumption, FailureMovesOn, StepMovesFiles DEF FailInv
<1>2. Used(s.file_seen) /\ Unknown \notin Nat
  BY <1>1 DEF Used, Unknown
<1>3. disk.at \in Nat
  BY KnownAreFiles
<1>4. (pc[t] # "idle" => disk.chain \in during[t]) /\ (pc'[t] # "idle" => disk'.chain \in during'[t])
  BY DEF HoldInv, Calling
<1>5. ASSUME pc'[t] \in Redeeming, r.file_seen = disk'.at PROVE base'[t] = disk' \/ disk' = NoFile
  <2>1. CASE base'[t] = disk /\ disk' = disk
    BY <2>1
  <2>2. CASE pc[t] \in Redeeming /\ base'[t] = base[t]
    <3>1. disk'.at # Unknown
      <4>1. disk' \in File
        BY TypeStep DEF TypeOK
      <4> QED
        BY <1>2, <4>1 DEF File
    <3>2. r.file_seen = s.file_seen
      BY <1>1, <1>5, <2>2, <3>1 DEF SeenKept
    <3> QED
      BY <1>1, <1>2, <1>5, <2>2, <3>2 DEF Trying, FilesMove, NewFile
  <2> QED
    BY <1>5, <2>1, <2>2, ThreadsMove
<1>6. ASSUME pc'[t] \in Noticed
      PROVE  r.file_seen # Unknown /\ (r.last_failure # Quiet => Refused(r.last_failure, during'[t]))
  <2>1. pc'[t] # "idle" /\ disk'.chain \in during'[t]
    BY <1>4, <1>6 DEF Noticed, Redeeming
  <2>2. CASE pc[t] \in Noticed
    <3>1. /\ s.file_seen # Unknown /\ (s.last_failure # Quiet => Refused(s.last_failure, during[t]))
          /\ during[t] \subseteq during'[t]
      BY <1>1, <2>1, <2>2, ThreadsMove DEF Trying, Noticed, Redeeming
    <3>2. CASE Stays(r, s)
      BY <3>1, <3>2 DEF Stays, Refused
    <3>3. CASE Forgotten(r, s, q)
      BY <1>6, <3>1, <3>3 DEF Forgotten
    <3>4. CASE FailsAt(r, s, q)
      <4>1. r.last_failure \in during[t]
        BY <2>2, <3>4 DEF FailsAt, FailInv, Beside
      <4> QED
        BY <3>1, <3>4, <4>1 DEF FailsAt, Refused
    <3>5. CASE Met(r, s)
      BY <1>2, <1>3, <3>1, <3>5 DEF Met, Refused
    <3>6. CASE Died(r)
      BY <2>1, <3>6 DEF Died, Refused
    <3> QED
      BY <1>1, <3>2, <3>3, <3>4, <3>5, <3>6 DEF FailureMoves
  <2>3. CASE Notices(t)
    <3>1. /\ st[q] \in ProviderState /\ st \in [Provider -> ProviderState] /\ noted[t] \in Nat
      BY <1>1 DEF TypeOK
    <3>2. CASE NoticeSame(t)
      <4>1. /\ r.last_failure = s.last_failure /\ s.file_seen \in {Unknown, disk.at}
            /\ r.file_seen = disk.at /\ disk' = disk /\ during' = during
        BY <1>1, <3>1, <3>2 DEF NoticeSame, ProviderState, Observe
      <4>2. s.last_failure # Quiet => s.last_failure = disk.chain \/ disk = NoFile
        BY <1>1, <4>1 DEF Failing
      <4> QED
        BY <1>2, <1>3, <2>1, <4>1, <4>2 DEF Refused
    <3>3. CASE NoticeAbsent(t) \/ NoticeRotated(t) \/ NoticeReplaced(t)
      <4>1. r.last_failure = Quiet /\ r.file_seen \in {disk.at, noted[t]}
        BY <3>3, NoticeForgets
      <4> QED
        BY <1>2, <1>3, <3>1, <4>1
    <3> QED
      BY <2>3, <3>2, <3>3 DEF Notices
  <2> QED
    BY <1>6, <2>2, <2>3, ThreadsMove
<1>7. ASSUME answer'[t].kind = "remembered" PROVE Refused(answer'[t].chain, during'[t])
  <2>1. answer \in [Thread -> Answer] /\ NoAnswer.kind = "none" /\ (\A x : Failed(x).kind = "error")
        /\ (\A x : TokenOf(x).kind = "token") /\ (\A x : Refusal(x).chain = x.last_failure)
    BY DEF TypeOK, NoAnswer, Failed, TokenOf, Refusal
  <2>2. pc'[t] = "done"
    BY <1>7 DEF HoldInv, Calling
  <2>3. CASE AnswerFromFailure(t)
    <3>1. /\ pc[t] = "enter" /\ s.last_failure # Quiet /\ during' = during
          /\ answer'[t] = CachedOr(s, Refusal(s))
      BY <2>1, <2>3 DEF AnswerFromFailure, InBackoff, Return
    <3>2. answer'[t].chain = s.last_failure
      BY <1>7, <2>1, <3>1 DEF CachedOr
    <3> QED
      BY <1>1, <3>1, <3>2 DEF Trying, Noticed
  <2>4. CASE answer'[t] = answer[t]
    <3>1. pc[t] = "done"
      BY <1>7, <2>4 DEF HoldInv, Calling
    <3> QED
      BY <1>1, <1>7, <2>2, <2>4, <3>1, ThreadsMove DEF Trying, Refused
  <2>5. CASE ~Call(t)
    BY <1>7, <2>1, <2>4, <2>5, OthersWait
  <2>6. CASE Call(t) /\ ~AnswerFromFailure(t)
    <3>1. answer'[t] = answer[t] \/ answer'[t].kind # "remembered"
      BY <2>1, <2>6
         DEF Call, Section, Begin, NoticeSame, NoticeAbsent, NoticeChanged, NoticeRotated,
             NoticeReplaced, AnswerFromCache, MustRefresh, Load, LoadRefused, RedeemGrants,
             RedeemForbidden, RedeemFails, RedeemDead, DeleteDead, DeleteSpared, SaveWrites,
             SaveAdopts, AdoptRefused, SaveRefused, Finish, Invalidate, Forget, Return, CachedOr
    <3> QED
      BY <1>7, <2>4, <3>1
  <2> QED
    BY <2>3, <2>5, <2>6
<1> QED
  BY <1>5, <1>6, <1>7 DEF Trying

LEMMA FailInit ==
  ASSUME Init
  PROVE  FailInv
<1>1. \A p \in Provider : st[p].last_failure = Quiet
  BY DEF Init, Fresh
<1>2. \A t \in Thread : pc[t] = "idle" /\ answer[t].kind = "none"
  BY DEF Init, NoAnswer
<1> QED
  BY <1>1, <1>2 DEF FailInv, Failing, Trying, Beside, OneHolds, Holds, Noticed, Redeeming

(***************************************************************************)
(* auth/mod.rs, last_failure: a failure remembered answers no call during  *)
(* which only a newer login was on disk, though a failure and the notice   *)
(* of the file are kept apart and any thread of the process may bring      *)
(* either up to date.                                                      *)
(***************************************************************************)
THEOREM NewLoginsAreTried == Spec => []NewLoginIsTried
<1>1. TypeOK /\ LedgerInv /\ HoldInv /\ FailInv /\ [Next]_vars
      => (TypeOK /\ LedgerInv /\ HoldInv /\ FailInv)'
  <2> SUFFICES ASSUME TypeOK, LedgerInv, HoldInv, FailInv, [Next]_vars
               PROVE  (TypeOK /\ LedgerInv /\ HoldInv /\ FailInv)'
    OBVIOUS
  <2>1. TypeOK' /\ LedgerInv' /\ HoldInv'
    BY TypeStep, LedgerStep, HoldStep
  <2>2. (\A p \in Provider : Failing(p)') /\ (\A t \in Thread : Trying(t)')
    BY <2>1, FailingStep, TryingStep
  <2>3. Beside' /\ OneHolds'
    BY <2>1, BesideStep, OneHoldsStep DEF FailInv
  <2> QED
    BY <2>1, <2>2, <2>3 DEF FailInv
<1>2. FailInv => NewLoginIsTried
  BY DEF FailInv, Trying, Refused, NewLoginIsTried
<1> QED
  BY <1>1, <1>2, TypeInit, LedgerInit, HoldInit, FailInit, PTL DEF Spec
================================================================================
