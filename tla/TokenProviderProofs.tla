-------------------------- MODULE TokenProviderProofs --------------------------
(***************************************************************************)
(* Theorems about TokenProvider, for any processes, threads, scopes and    *)
(* bounds.                                                                 *)
(***************************************************************************)
EXTENDS TokenProvider, TLAPS

LEMMA FilesAreFiles ==
  /\ NoFile \in File
  /\ \A n \in Nat : UnreadableFile(n) \in File
  /\ \A n \in Nat, s \in Scope, o \in BOOLEAN : LoginFile(n, s, o) \in File
  /\ \A f \in File, n \in Nat, s \in Scope : RotatedFile(f, n, s) \in File
BY DEF NoFile, UnreadableFile, LoginFile, RotatedFile, File, Writer

LEMMA EpochsStayInRange ==
  /\ 0 \in Epoch
  /\ \A s \in ProviderState : NextEpoch(s) \in Epoch
BY EpochWrapAssumption DEF NextEpoch, ProviderState, Epoch

LEMMA StatesAreStates ==
  /\ Fresh \in ProviderState
  /\ \A s \in ProviderState, n \in Nat : Reset(s, n) \in ProviderState
  /\ \A s \in ProviderState, f \in File : Bump(s, f) \in ProviderState
  /\ \A s \in ProviderState, f \in File : Wrote(s, f) \in ProviderState
<1>1. NoToken \in Token
  BY DEF NoToken, Token, Age
<1>2. Fresh \in ProviderState
  BY <1>1, EpochsStayInRange DEF Fresh, ProviderState, Quiet, Unknown
<1>3. ASSUME NEW s \in ProviderState, NEW n \in Nat
      PROVE Reset(s, n) \in ProviderState
  BY <1>2, EpochsStayInRange DEF Reset, ProviderState
<1>4. ASSUME NEW s \in ProviderState, NEW f \in File
      PROVE Bump(s, f) \in ProviderState
  BY EpochsStayInRange DEF Bump, ProviderState
<1>5. ASSUME NEW s \in ProviderState, NEW f \in File
      PROVE Wrote(s, f) \in ProviderState
  <2>1. FreshToken(f) \in Token
    BY DEF FreshToken, Token, Age, File
  <2>2. QED
    BY <2>1 DEF Wrote, Observe, File, ProviderState, Quiet, Unknown
<1>6. QED
  BY <1>2, <1>3, <1>4, <1>5

LEMMA AnswersAreAnswers ==
  /\ NoAnswer \in Answer
  /\ \A s \in ProviderState : TokenOf(s) \in Answer /\ Failed(s) \in Answer
  /\ \A s \in ProviderState : InBackoff(s) => Refusal(s) \in Answer
<1>1. NoAnswer \in Answer
  BY EpochsStayInRange DEF NoAnswer, Answer
<1>2. ASSUME NEW s \in ProviderState
      PROVE  TokenOf(s) \in Answer /\ Failed(s) \in Answer
  BY <1>1 DEF TokenOf, Failed, NoAnswer, Answer, ProviderState, Token
<1>3. ASSUME NEW s \in ProviderState, InBackoff(s)
      PROVE  Refusal(s) \in Answer
  BY <1>1, <1>3 DEF Refusal, InBackoff, NoAnswer, Answer, ProviderState
<1>4. QED
  BY <1>1, <1>2, <1>3

LEMMA ReturnType ==
  ASSUME TypeOK, NEW t \in Thread, NEW a \in Answer, Return(t, a)
  PROVE  /\ pc' \in [Thread -> PC]
         /\ noted' \in [Thread -> Nat]
         /\ base' \in [Thread -> File]
         /\ minted' \in [Thread -> Minted]
         /\ tries' \in [Thread -> 0 .. 2]
         /\ answer' \in [Thread -> Answer]
<1>1. Nothing \in Minted
  BY DEF Nothing, Minted
<1>2. QED
  BY <1>1, FilesAreFiles DEF TypeOK, Return, PC

LEMMA GotoType ==
  ASSUME TypeOK, NEW t \in Thread, NEW from, NEW to \in PC, Goto(t, from, to)
  PROVE  pc' \in [Thread -> PC]
BY DEF TypeOK, Goto

LEMMA DiskType ==
  ASSUME TypeOK, NEW f \in File, DiskBecomes(f)
  PROVE  disk' \in File /\ during' \in [Thread -> SUBSET Nat]
BY DEF TypeOK, DiskBecomes, File

LEMMA StateType ==
  ASSUME TypeOK, NEW p \in Provider, NEW s \in ProviderState,
         st' = [st EXCEPT ![p] = s]
  PROVE  st' \in [Provider -> ProviderState]
BY DEF TypeOK

LEMMA FieldsAreTyped ==
  ASSUME NEW s \in ProviderState
  PROVE  /\ \A c \in Token : [s EXCEPT !.cached = c] \in ProviderState
         /\ \A n \in Nat : [s EXCEPT !.file_seen = n] \in ProviderState
         /\ \A n \in Nat : [s EXCEPT !.obtained_at = n] \in ProviderState
         /\ \A x \in Scope \cup {"none"} : [s EXCEPT !.live_scope = x] \in ProviderState
         /\ \A n \in Nat \cup {Quiet} : [s EXCEPT !.last_failure = n] \in ProviderState
BY DEF ProviderState

LEMMA TypeInit == Init => TypeOK
<1> SUFFICES ASSUME Init PROVE TypeOK
  OBVIOUS
<1>1. disk \in File /\ pending \subseteq File
  BY FilesAreFiles DEF Init
<1>2. stamp \in Stamp /\ logins \in 0 .. MaxLogins
  BY MaxStampAssumption, MaxLoginsAssumption DEF Init, Stamp
<1>3. st \in [Provider -> ProviderState]
  BY StatesAreStates DEF Init
<1>4. pc \in [Thread -> PC] /\ noted \in [Thread -> Nat]
  BY DEF Init, PC
<1>5. base \in [Thread -> File] /\ answer \in [Thread -> Answer]
  BY FilesAreFiles, AnswersAreAnswers DEF Init
<1>6. Nothing \in Minted
  BY DEF Nothing, Minted
<1>7. minted \in [Thread -> Minted] /\ tries \in [Thread -> 0 .. 2]
  BY <1>6 DEF Init
<1>8. during \in [Thread -> SUBSET Nat]
  BY DEF Init
<1>9. QED
  BY <1>1, <1>2, <1>3, <1>4, <1>5, <1>7, <1>8 DEF TypeOK

--------------------------------------------------------------------------------
(***************************************************************************)
(* Every step keeps the types.                                             *)
(***************************************************************************)
LEMMA TypeNotice ==
  ASSUME TypeOK, NEW t \in Thread,
         Begin(t) \/ NoticeSame(t) \/ NoticeAbsent(t) \/ NoticeChanged(t)
  PROVE  TypeOK'
<1> USE OwnerAssumption DEF Observe, localVars
<1>0. Owner[t] \in Provider /\ st[Owner[t]] \in ProviderState /\ disk.at \in Nat /\ disk.chain \in Nat
  BY DEF TypeOK, File
<1>1. CASE Begin(t)
  BY <1>0, <1>1, GotoType DEF TypeOK, Begin, PC
<1>2. CASE NoticeSame(t)
  BY <1>0, <1>2, GotoType, StateType, FieldsAreTyped DEF TypeOK, NoticeSame, PC
<1>3. CASE NoticeAbsent(t)
  BY <1>0, <1>3, GotoType, StateType, StatesAreStates DEF TypeOK, NoticeAbsent, PC
<1>4. CASE NoticeChanged(t)
  BY <1>0, <1>4, GotoType DEF TypeOK, NoticeChanged, PC
<1>5. QED
  BY <1>1, <1>2, <1>3, <1>4

LEMMA TypeNoticeLoad ==
  ASSUME TypeOK, NEW t \in Thread, NoticeRotated(t) \/ NoticeReplaced(t)
  PROVE  TypeOK'
<1> USE OwnerAssumption DEF Observe, localVars
<1> DEFINE p == Owner[t]
<1>0. p \in Provider /\ st[p] \in ProviderState /\ disk.at \in Nat /\ noted[t] \in Nat
  BY DEF TypeOK, File
<1>1. CASE NoticeRotated(t)
  <2> DEFINE a == [st[p] EXCEPT !.obtained_at = disk.at]
             b == [a EXCEPT !.last_failure = Quiet]
             c == [b EXCEPT !.file_seen = noted[t]]
  <2>1. a \in ProviderState
    BY <1>0, FieldsAreTyped
  <2>2. b \in ProviderState
    BY <2>1, FieldsAreTyped
  <2>3. c \in ProviderState
    BY <1>0, <2>2, FieldsAreTyped
  <2>4. st' = [st EXCEPT ![p] = c]
    BY <1>0, <1>1 DEF NoticeRotated, TypeOK
  <2>5. st' \in [Provider -> ProviderState]
    BY <1>0, <2>3, <2>4, StateType
  <2>6. QED
    BY <1>1, <2>5, GotoType DEF TypeOK, NoticeRotated, PC
<1>2. CASE NoticeReplaced(t)
  BY <1>0, <1>2, GotoType, StateType, StatesAreStates DEF TypeOK, NoticeReplaced, PC
<1>3. QED
  BY <1>1, <1>2

LEMMA TypeRefresh ==
  ASSUME TypeOK, NEW t \in Thread,
         \/ AnswerFromCache(t) \/ AnswerFromFailure(t) \/ MustRefresh(t)
         \/ Load(t) \/ LoadRefused(t)
  PROVE  TypeOK'
<1> USE OwnerAssumption DEF localVars
<1>0. Owner[t] \in Provider /\ st[Owner[t]] \in ProviderState
  BY DEF TypeOK
<1>1. CASE AnswerFromCache(t)
  BY <1>0, <1>1, ReturnType, AnswersAreAnswers DEF TypeOK, AnswerFromCache
<1>2. CASE AnswerFromFailure(t)
  BY <1>0, <1>2, ReturnType, AnswersAreAnswers DEF TypeOK, AnswerFromFailure, CachedOr
<1>3. CASE MustRefresh(t)
  BY <1>3, GotoType DEF TypeOK, MustRefresh, PC
<1>4. CASE Load(t)
  BY <1>4, GotoType DEF TypeOK, Load, PC
<1>5. CASE LoadRefused(t)
  BY <1>0, <1>5, ReturnType, AnswersAreAnswers DEF TypeOK, LoadRefused
<1>6. QED
  BY <1>1, <1>2, <1>3, <1>4, <1>5

LEMMA TypeRedeem ==
  ASSUME TypeOK, NEW t \in Thread,
         \/ RedeemGrants(t) \/ RedeemForbidden(t) \/ RedeemFails(t)
         \/ RedeemDead(t) \/ DeleteDead(t) \/ DeleteSpared(t)
  PROVE  TypeOK'
<1> USE OwnerAssumption DEF localVars, Observe
<1> DEFINE p == Owner[t]
<1>0. p \in Provider /\ st[p] \in ProviderState /\ base[t].chain \in Nat
  BY DEF TypeOK, File
<1>1. CASE RedeemGrants(t)
  <2>1. stamp' \in Stamp /\ stamp' \in Nat
    BY <1>1, MaxStampAssumption DEF RedeemGrants, TypeOK, Stamp
  <2>2. minted' \in [Thread -> Minted]
    BY <1>1, <2>1 DEF RedeemGrants, TypeOK, Minted
  <2>3. QED
    BY <1>1, <2>1, <2>2, GotoType DEF RedeemGrants, TypeOK, PC
<1>2. CASE RedeemForbidden(t)
  BY <1>0, <1>2, ReturnType, AnswersAreAnswers DEF TypeOK, RedeemForbidden
<1>3. CASE RedeemFails(t)
  BY <1>0, <1>3, ReturnType, AnswersAreAnswers, StateType, FieldsAreTyped
     DEF TypeOK, RedeemFails, CachedOr
<1>4. CASE RedeemDead(t)
  BY <1>4, GotoType DEF TypeOK, RedeemDead, PC
<1>5. CASE DeleteDead(t)
  <2> DEFINE s == [Reset(st[p], NoFile.at) EXCEPT !.last_failure = 0]
  <2>1. s \in ProviderState
    BY <1>0, StatesAreStates, FieldsAreTyped, FilesAreFiles DEF File
  <2>2. st' = [st EXCEPT ![p] = s] /\ st'[p] = s
    BY <1>0, <1>5 DEF DeleteDead, TypeOK
  <2>3. st' \in [Provider -> ProviderState]
    BY <1>0, <2>1, <2>2, StateType
  <2>4. disk' \in File /\ during' \in [Thread -> SUBSET Nat]
    BY <1>5, DiskType, FilesAreFiles DEF DeleteDead
  <2>5. Failed(s) \in Answer /\ Return(t, Failed(s))
    BY <1>5, <2>1, <2>2, AnswersAreAnswers DEF DeleteDead
  <2>6. QED
    BY <1>5, <2>3, <2>4, <2>5, ReturnType DEF DeleteDead, TypeOK
<1>6. CASE DeleteSpared(t)
  BY <1>0, <1>6, ReturnType, AnswersAreAnswers, StateType, FieldsAreTyped
     DEF TypeOK, DeleteSpared, CachedOr
<1>7. QED
  BY <1>1, <1>2, <1>3, <1>4, <1>5, <1>6

LEMMA TypeSave ==
  ASSUME TypeOK, NEW t \in Thread,
         SaveWrites(t) \/ SaveAdopts(t) \/ AdoptRefused(t) \/ SaveRefused(t)
  PROVE  TypeOK'
<1> USE OwnerAssumption DEF localVars, Observe
<1> DEFINE p == Owner[t]
<1>0. /\ p \in Provider /\ st[p] \in ProviderState
      /\ base[t] \in File /\ base[t].chain \in Nat
      /\ minted[t].at \in Nat /\ minted[t].scope \in Scope \cup {"none"}
  BY DEF TypeOK, File, Minted
<1>1. CASE SaveWrites(t)
  <2> DEFINE f == RotatedFile(base[t], minted[t].at, minted[t].scope)
             e == Wrote(st[p], f)
  <2>1. f \in File
    BY <1>0 DEF RotatedFile, File, Writer
  <2>2. e \in ProviderState
    BY <1>0, <2>1, StatesAreStates
  <2> HIDE DEF f
  <2>3. st' = [st EXCEPT ![p] = e] /\ st'[p] = e
    BY <1>0, <1>1 DEF SaveWrites, TypeOK, f
  <2>4. st' \in [Provider -> ProviderState]
    BY <1>0, <2>2, <2>3, StateType
  <2>5. disk' \in File /\ during' \in [Thread -> SUBSET Nat]
    BY <1>1, <2>1, DiskType DEF SaveWrites, f
  <2>6. TokenOf(e) \in Answer /\ Return(t, TokenOf(e))
    BY <1>1, <2>2, <2>3, AnswersAreAnswers DEF SaveWrites
  <2>7. QED
    BY <1>1, <2>4, <2>5, <2>6, ReturnType DEF SaveWrites, TypeOK
<1>2. CASE SaveAdopts(t)
  <2>1. st' \in [Provider -> ProviderState]
    BY <1>0, <1>2, StateType, StatesAreStates DEF SaveAdopts, TypeOK
  <2>2. Nothing \in Minted
    BY DEF Nothing, Minted
  <2>3. tries' \in [Thread -> 0 .. 2]
    BY <1>2 DEF SaveAdopts, AttemptLeft, TypeOK
  <2>4. QED
    BY <1>2, <2>1, <2>2, <2>3, GotoType DEF SaveAdopts, TypeOK, PC
<1>3. CASE AdoptRefused(t)
  <2>1. Bump(st[p], disk) \in ProviderState
    BY <1>0, StatesAreStates DEF TypeOK
  <2>2. st' = [st EXCEPT ![p] = Bump(st[p], disk)] /\ st'[p] = Bump(st[p], disk)
    BY <1>0, <1>3 DEF AdoptRefused, TypeOK
  <2>3. Failed(st'[p]) \in Answer
    BY <2>1, <2>2, AnswersAreAnswers
  <2>4. QED
    BY <1>0, <1>3, <2>1, <2>2, <2>3, ReturnType, StateType DEF AdoptRefused, TypeOK
<1>4. CASE SaveRefused(t)
  BY <1>0, <1>4, ReturnType, AnswersAreAnswers DEF TypeOK, SaveRefused
<1>5. QED
  BY <1>1, <1>2, <1>3, <1>4

LEMMA TypeAfterwards ==
  ASSUME TypeOK, NEW t \in Thread, Finish(t) \/ Invalidate(t)
  PROVE  TypeOK'
<1> USE OwnerAssumption DEF localVars
<1> DEFINE p == Owner[t]
<1>0. p \in Provider /\ st[p] \in ProviderState
  BY DEF TypeOK
<1>1. Forget(t) /\ st' \in [Provider -> ProviderState]
  <2>1. CASE Finish(t)
    BY <2>1 DEF Finish, TypeOK
  <2>2. CASE Invalidate(t)
    <3> DEFINE a == [st[p] EXCEPT !.cached = NoToken]
               b == [a EXCEPT !.last_failure = Quiet]
    <3>1. NoToken \in Token
      BY DEF NoToken, Token, Age
    <3>2. a \in ProviderState
      BY <1>0, <3>1, FieldsAreTyped
    <3>3. b \in ProviderState
      BY <3>2, FieldsAreTyped
    <3>4. st' = [st EXCEPT ![p] = b]
      BY <1>0, <2>2 DEF Invalidate, TypeOK
    <3>5. QED
      BY <1>0, <2>2, <3>3, <3>4, StateType DEF Invalidate
  <2>3. QED
    BY <2>1, <2>2
<1>2. QED
  BY <1>1, GotoType, AnswersAreAnswers DEF Forget, TypeOK, PC

LEMMA TypeProcess ==
  ASSUME TypeOK, NEW p \in Provider, TokenAges(p) \/ BackoffElapses(p) \/ Crash(p)
  PROVE  TypeOK'
<1> USE DEF localVars
<1>0. st[p] \in ProviderState
  BY DEF TypeOK
<1>1. CASE TokenAges(p)
  <2> DEFINE g == [st[p].cached EXCEPT !.age = Older(@)]
  <2>1. g \in Token
    BY <1>0 DEF ProviderState, Token, Age, Older
  <2>2. [st[p] EXCEPT !.cached = g] \in ProviderState
    BY <1>0, <2>1, FieldsAreTyped
  <2>3. st' = [st EXCEPT ![p] = [st[p] EXCEPT !.cached = g]]
    BY <1>0, <1>1 DEF TokenAges, TypeOK, ProviderState, Token
  <2>4. QED
    BY <1>1, <2>2, <2>3, StateType DEF TokenAges, TypeOK
<1>2. CASE BackoffElapses(p)
  BY <1>0, <1>2, StateType, FieldsAreTyped DEF TypeOK, BackoffElapses
<1>3. CASE Crash(p)
  <2>1. Nothing \in Minted
    BY DEF Nothing, Minted
  <2>2. st' \in [Provider -> ProviderState]
    BY <1>3, StateType, StatesAreStates DEF Crash
  <2>3. pc' \in [Thread -> PC] /\ noted' \in [Thread -> Nat] /\ tries' \in [Thread -> 0 .. 2]
    BY <1>3 DEF Crash, TypeOK, PC
  <2>4. base' \in [Thread -> File]
    BY <1>3, FilesAreFiles DEF Crash, TypeOK
  <2>5. minted' \in [Thread -> Minted]
    BY <1>3, <2>1 DEF Crash, TypeOK
  <2>6. answer' \in [Thread -> Answer]
    BY <1>3, AnswersAreAnswers DEF Crash, TypeOK
  <2>7. during' \in [Thread -> SUBSET Nat]
    BY <1>3 DEF Crash, TypeOK
  <2>8. QED
    BY <1>3, <2>2, <2>3, <2>4, <2>5, <2>6, <2>7 DEF Crash, TypeOK
<1>4. QED
  BY <1>1, <1>2, <1>3

LEMMA TypeCommand ==
  ASSUME TypeOK, LoginStamps \/ LoginSaves \/ Logout \/ NewerBuildSaves
  PROVE  TypeOK'
<1> USE DEF localVars
<1>1. CASE LoginStamps
  <2>1. stamp' \in Stamp /\ stamp' \in Nat /\ logins' \in 0 .. MaxLogins
    BY <1>1, MaxStampAssumption, MaxLoginsAssumption DEF LoginStamps, TypeOK, Stamp
  <2>2. pending' \subseteq File
    BY <1>1, <2>1, FilesAreFiles, ConfiguredAssumption DEF LoginStamps, TypeOK
  <2>3. QED
    BY <1>1, <2>1, <2>2 DEF LoginStamps, TypeOK
<1>2. CASE LoginSaves
  BY <1>2, DiskType DEF LoginSaves, TypeOK
<1>3. CASE Logout
  BY <1>3, DiskType, FilesAreFiles DEF Logout, TypeOK
<1>4. CASE NewerBuildSaves
  <2>1. stamp' \in Stamp /\ stamp' \in Nat /\ logins' \in 0 .. MaxLogins
    BY <1>4, MaxStampAssumption, MaxLoginsAssumption DEF NewerBuildSaves, TypeOK, Stamp
  <2>2. QED
    BY <1>4, <2>1, DiskType, FilesAreFiles DEF NewerBuildSaves, TypeOK
<1>5. QED
  BY <1>1, <1>2, <1>3, <1>4

LEMMA TypeStep == TypeOK /\ [Next]_vars => TypeOK'
<1> SUFFICES ASSUME TypeOK, [Next]_vars PROVE TypeOK'
  OBVIOUS
<1>1. CASE \E t \in Thread : Call(t)
  BY <1>1, TypeNotice, TypeNoticeLoad, TypeRefresh, TypeRedeem, TypeSave, TypeAfterwards
     DEF Call, Section
<1>2. CASE \E p \in Provider : TokenAges(p) \/ BackoffElapses(p) \/ Crash(p)
  BY <1>2, TypeProcess
<1>3. CASE LoginStamps \/ LoginSaves \/ Logout \/ NewerBuildSaves
  BY <1>3, TypeCommand
<1>4. CASE UNCHANGED vars
  BY <1>4 DEF vars, localVars, TypeOK
<1>5. QED
  BY <1>1, <1>2, <1>3, <1>4 DEF Next

(***************************************************************************)
(* Every variable of the providers keeps its type; the redeem loop makes   *)
(* at most two attempts.                                                   *)
(***************************************************************************)
THEOREM TypeCorrect == Spec => []TypeOK
<1>1. QED
  BY TypeInit, TypeStep, PTL DEF Spec
================================================================================
