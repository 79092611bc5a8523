------------------------------ MODULE CommandProofs ------------------------------
(***************************************************************************)
(* What the commands promise, each for itself: the bearer that serve and   *)
(* bearer agree on, the login, the report of doctor, the drain of serve's  *)
(* workers, and the answers to one HTTP request; for any number of         *)
(* processes, workers and messages, any machine and any answer of Entra.   *)
(***************************************************************************)
EXTENDS BearerFile, DeviceLogin, Startup, HttpPool, HttpRequests, TLAPS, SequenceTheorems, FiniteSetTheorems

(***************************************************************************)
(* settle_bearer, for any number of processes, attempts and inodes.        *)
(***************************************************************************)
Reading == {"read", "readRest"}
Filling == {"check", "readAgain", "fill", "sync", "rollback"}
Opened  == Reading \cup Filling \cup {"lockShared", "lock"}

\* A process has its file and its lock just where it works on the file.
LocksFit ==
  \A p \in Proc :
    /\ fd[p] # 0 <=> at[p] \in Opened
    /\ lock[p] = "shared" <=> at[p] \in Reading
    /\ lock[p] = "exclusive" <=> at[p] \in Filling

\* flock
LocksExclude ==
  \A p, q \in Proc : p # q /\ fd[p] = fd[q] /\ lock[p] = "exclusive" => lock[q] = "none"

InodesExist ==
  /\ named <= fresh
  /\ \A p \in Proc : fd[p] <= fresh /\ draft[p] <= fresh

\* What a process knows of the file while it holds the lock.
LocksProtect ==
  \A p \in Proc :
    /\ at[p] = "readRest" => read[p] = content[fd[p]]
    /\ at[p] = "fill" => content[fd[p]] = Blank
    /\ at[p] = "sync" => content[fd[p]] # Blank

\* A draft that is not published yet is nobody else's business.
DraftsAreOwn ==
  \A p \in Proc :
    /\ at[p] \in {"link", "unlink"} => draft[p] # 0
    /\ at[p] = "link" =>
         /\ content[draft[p]] # Blank /\ named # draft[p]
         /\ \A q \in Proc : fd[q] # draft[p] /\ (q # p /\ at[q] = "link" => draft[q] # draft[p])

\* The path leads where it led unless the operator came.
PathStays ==
  \A p \in Proc : ~touched[p] =>
    /\ at[p] \in Opened => named = fd[p]
    /\ at[p] = "unlink" => named = draft[p]

\* A bearer that is in the file to stay: nobody may take it back.
Final ==
  named # 0 /\ content[named] # Blank
  /\ \A q \in Proc : at[q] \in {"sync", "rollback"} => fd[q] # named

FoundIsFinal ==
  \A p \in Proc : ~touched[p] =>
    /\ at[p] \in {"unlink", "done"} => Final
    /\ at[p] = "done" => result[p] = content[named]

\* The loop of settle_bearer ends with its last attempt.
TriesLeft == \A p \in Proc : at[p] # "failed" => tries[p] < Attempts

BearerInv ==
  /\ BearerTypeOK /\ TriesLeft /\ LocksFit /\ LocksExclude /\ InodesExist /\ LocksProtect
  /\ DraftsAreOwn /\ PathStays /\ FoundIsFinal

USE DEF At, Close, Retry, Return, fileVars, Id, Blank

--------------------------------------------------------------------------------
\* The invariant holds before any process has begun.
LEMMA InitAgrees == BearerInit => BearerInv
<1> SUFFICES ASSUME BearerInit PROVE BearerInv
  OBVIOUS
<1>1. BearerTypeOK
  BY BearerAttemptsAssumption, FreshAssumption, TouchesAssumption DEF BearerInit, BearerTypeOK
<1>2. TriesLeft
  BY BearerAttemptsAssumption DEF BearerInit, TriesLeft
<1>3. LocksFit /\ LocksExclude
  BY DEF BearerInit, LocksFit, LocksExclude, Opened, Reading, Filling
<1>4. InodesExist /\ LocksProtect /\ DraftsAreOwn
  BY DEF BearerInit, InodesExist, LocksProtect, DraftsAreOwn
<1>5. PathStays /\ FoundIsFinal
  BY DEF BearerInit, PathStays, FoundIsFinal, Opened, Reading, Filling
<1> QED
  BY <1>1, <1>2, <1>3, <1>4, <1>5 DEF BearerInv

\* settle_bearer begins.
LEMMA StartBearerAgrees == ASSUME BearerInv, NEW p \in Proc, StartBearer(p) PROVE BearerInv'
<1>1. TriesLeft'
  BY DEF BearerInv, BearerTypeOK, TriesLeft, StartBearer
<1>2. LocksFit'
  BY DEF BearerInv, BearerTypeOK, LocksFit, Opened, Reading, Filling, StartBearer
<1>3. LocksExclude'
  BY DEF BearerInv, BearerTypeOK, LocksFit, LocksExclude, Opened, Reading, Filling,
     StartBearer
<1>4. InodesExist'
  BY DEF BearerInv, BearerTypeOK, InodesExist, StartBearer
<1>5. LocksProtect'
  BY DEF BearerInv, BearerTypeOK, LocksFit, LocksExclude, LocksProtect, Opened, Reading,
     Filling, StartBearer
<1>6. DraftsAreOwn'
  BY DEF BearerInv, BearerTypeOK, DraftsAreOwn, StartBearer
<1>7. PathStays'
  BY DEF BearerInv, BearerTypeOK, PathStays, Opened, Reading, Filling, StartBearer
<1>8. FoundIsFinal'
  BY DEF BearerInv, BearerTypeOK, FoundIsFinal, Final, StartBearer
<1>9. BearerTypeOK'
  BY DEF BearerInv, BearerTypeOK, StartBearer
<1> QED
  BY <1>1, <1>2, <1>3, <1>4, <1>5, <1>6, <1>7, <1>8, <1>9 DEF BearerInv

\* There is no file: nothing is claimed of the path yet.
LEMMA OpenMissingAgrees == ASSUME BearerInv, NEW p \in Proc, OpenMissing(p) PROVE BearerInv'
<1>1. TriesLeft'
  BY DEF BearerInv, BearerTypeOK, TriesLeft, OpenMissing
<1>2. LocksFit'
  BY DEF BearerInv, BearerTypeOK, LocksFit, Opened, Reading, Filling, OpenMissing
<1>3. LocksExclude'
  BY DEF BearerInv, BearerTypeOK, LocksFit, LocksExclude, Opened, Reading, Filling,
     OpenMissing
<1>4. InodesExist'
  BY DEF BearerInv, BearerTypeOK, InodesExist, OpenMissing
<1>5. LocksProtect'
  BY DEF BearerInv, BearerTypeOK, LocksFit, LocksExclude, LocksProtect, Opened, Reading,
     Filling, OpenMissing
<1>6. DraftsAreOwn'
  BY DEF BearerInv, BearerTypeOK, DraftsAreOwn, OpenMissing
<1>7. PathStays'
  BY DEF BearerInv, BearerTypeOK, PathStays, Opened, Reading, Filling, OpenMissing
<1>8. FoundIsFinal'
  BY DEF BearerInv, BearerTypeOK, FoundIsFinal, Final, OpenMissing
<1>9. BearerTypeOK'
  BY DEF BearerInv, BearerTypeOK, OpenMissing
<1> QED
  BY <1>1, <1>2, <1>3, <1>4, <1>5, <1>6, <1>7, <1>8, <1>9 DEF BearerInv

\* The file is there, and the process has it open.
LEMMA OpenToReadAgrees == ASSUME BearerInv, NEW p \in Proc, OpenToRead(p) PROVE BearerInv'
<1>1. TriesLeft'
  BY DEF BearerInv, BearerTypeOK, TriesLeft, OpenToRead
<1>2. LocksFit'
  BY DEF BearerInv, BearerTypeOK, LocksFit, Opened, Reading, Filling, OpenToRead
<1>3. InodesExist'
  BY DEF BearerInv, BearerTypeOK, InodesExist, OpenToRead
<1>4. LocksProtect'
  BY DEF BearerInv, BearerTypeOK, LocksFit, LocksExclude, LocksProtect, Opened, Reading,
     Filling, OpenToRead
<1>5. DraftsAreOwn'
  BY DEF BearerInv, BearerTypeOK, DraftsAreOwn, OpenToRead
<1>6. PathStays'
  BY DEF BearerInv, BearerTypeOK, PathStays, Opened, Reading, Filling, OpenToRead
<1>7. FoundIsFinal'
  BY DEF BearerInv, BearerTypeOK, FoundIsFinal, Final, OpenToRead
<1>8. BearerTypeOK'
  BY DEF BearerInv, BearerTypeOK, OpenToRead
<1>9. LocksExclude'
  BY DEF BearerInv, BearerTypeOK, LocksExclude, LocksFit, OpenToRead, Opened, Reading,
     Filling
<1> QED
  BY <1>1, <1>2, <1>3, <1>4, <1>5, <1>6, <1>7, <1>8, <1>9 DEF BearerInv

\* The shared lock keeps the writers out.
LEMMA LockSharedAgrees == ASSUME BearerInv, NEW p \in Proc, LockShared(p) PROVE BearerInv'
<1>1. TriesLeft'
  BY DEF BearerInv, BearerTypeOK, TriesLeft, LockShared
<1>2. LocksFit'
  BY DEF BearerInv, BearerTypeOK, LocksFit, Opened, Reading, Filling, LockShared
<1>3. LocksExclude'
  BY DEF BearerInv, BearerTypeOK, LocksFit, LocksExclude, Opened, Reading, Filling,
     LockShared
<1>4. InodesExist'
  BY DEF BearerInv, BearerTypeOK, InodesExist, LockShared
<1>5. LocksProtect'
  BY DEF BearerInv, BearerTypeOK, LocksFit, LocksExclude, LocksProtect, Opened, Reading,
     Filling, LockShared
<1>6. DraftsAreOwn'
  BY DEF BearerInv, BearerTypeOK, DraftsAreOwn, LockShared
<1>7. PathStays'
  BY DEF BearerInv, BearerTypeOK, PathStays, Opened, Reading, Filling, LockShared
<1>8. FoundIsFinal'
  BY DEF BearerInv, BearerTypeOK, FoundIsFinal, Final, LockShared
<1>9. BearerTypeOK'
  BY DEF BearerInv, BearerTypeOK, LocksFit, LockShared, Opened, Reading, Filling
<1> QED
  BY <1>1, <1>2, <1>3, <1>4, <1>5, <1>6, <1>7, <1>8, <1>9 DEF BearerInv

\* What is read is what the file holds.
LEMMA ReadFirstAgrees == ASSUME BearerInv, NEW p \in Proc, ReadFirst(p) PROVE BearerInv'
<1>1. TriesLeft'
  BY DEF BearerInv, BearerTypeOK, TriesLeft, ReadFirst
<1>2. LocksFit'
  BY DEF BearerInv, BearerTypeOK, LocksFit, Opened, Reading, Filling, ReadFirst
<1>3. LocksExclude'
  BY DEF BearerInv, BearerTypeOK, LocksFit, LocksExclude, Opened, Reading, Filling,
     ReadFirst
<1>4. InodesExist'
  BY DEF BearerInv, BearerTypeOK, InodesExist, ReadFirst
<1>5. LocksProtect'
  BY DEF BearerInv, BearerTypeOK, LocksFit, LocksExclude, LocksProtect, Opened, Reading,
     Filling, ReadFirst
<1>6. DraftsAreOwn'
  BY DEF BearerInv, BearerTypeOK, DraftsAreOwn, ReadFirst
<1>7. PathStays'
  BY DEF BearerInv, BearerTypeOK, PathStays, Opened, Reading, Filling, ReadFirst
<1>8. FoundIsFinal'
  BY DEF BearerInv, BearerTypeOK, FoundIsFinal, Final, ReadFirst
<1>9. BearerTypeOK'
  BY DEF BearerInv, BearerTypeOK, LocksFit, ReadFirst, Opened, Reading, Filling
<1> QED
  BY <1>1, <1>2, <1>3, <1>4, <1>5, <1>6, <1>7, <1>8, <1>9 DEF BearerInv

\* The file is blank, and is let go.
LEMMA ReadBlankAgrees == ASSUME BearerInv, NEW p \in Proc, ReadBlank(p) PROVE BearerInv'
<1>1. TriesLeft'
  BY DEF BearerInv, BearerTypeOK, TriesLeft, ReadBlank
<1>2. LocksFit'
  BY DEF BearerInv, BearerTypeOK, LocksFit, Opened, Reading, Filling, ReadBlank
<1>3. LocksExclude'
  BY DEF BearerInv, BearerTypeOK, LocksFit, LocksExclude, Opened, Reading, Filling,
     ReadBlank
<1>4. InodesExist'
  BY DEF BearerInv, BearerTypeOK, InodesExist, ReadBlank
<1>5. LocksProtect'
  BY DEF BearerInv, BearerTypeOK, LocksFit, LocksExclude, LocksProtect, Opened, Reading,
     Filling, ReadBlank
<1>6. DraftsAreOwn'
  BY DEF BearerInv, BearerTypeOK, DraftsAreOwn, ReadBlank
<1>7. PathStays'
  BY DEF BearerInv, BearerTypeOK, PathStays, Opened, Reading, Filling, ReadBlank
<1>8. FoundIsFinal'
  BY DEF BearerInv, BearerTypeOK, FoundIsFinal, Final, ReadBlank
<1>9. BearerTypeOK'
  BY DEF BearerInv, BearerTypeOK, ReadBlank
<1> QED
  BY <1>1, <1>2, <1>3, <1>4, <1>5, <1>6, <1>7, <1>8, <1>9 DEF BearerInv

\* The bearer read is final: no writer is at work on the file.
LEMMA ReadFoundAgrees == ASSUME BearerInv, NEW p \in Proc, ReadFound(p) PROVE BearerInv'
<1>1. TriesLeft'
  BY DEF BearerInv, BearerTypeOK, TriesLeft, Stitched, ReadFound
<1>2. LocksFit'
  BY DEF BearerInv, BearerTypeOK, LocksFit, Opened, Reading, Filling, Stitched,
     ReadFound
<1>3. LocksExclude'
  BY DEF BearerInv, BearerTypeOK, LocksFit, LocksExclude, Opened, Reading, Filling,
     Stitched, ReadFound
<1>4. InodesExist'
  BY DEF BearerInv, BearerTypeOK, InodesExist, Stitched, ReadFound
<1>5. LocksProtect'
  BY DEF BearerInv, BearerTypeOK, LocksFit, LocksExclude, LocksProtect, Opened, Reading,
     Filling, Stitched, ReadFound
<1>6. DraftsAreOwn'
  BY DEF BearerInv, BearerTypeOK, DraftsAreOwn, Stitched, ReadFound
<1>7. PathStays'
  BY DEF BearerInv, BearerTypeOK, PathStays, Opened, Reading, Filling, Stitched,
     ReadFound
<1>8. BearerTypeOK'
  <2>1. fd[p] \in Id /\ content[fd[p]] \in 0 .. MaxFresh /\ read[p] = content[fd[p]]
    BY DEF BearerInv, BearerTypeOK, LocksFit, LocksProtect, Opened, Reading, ReadFound
  <2>2. result' \in [Proc -> 0 .. MaxFresh]
    BY <2>1, FreshAssumption DEF BearerInv, BearerTypeOK, ReadFound
  <2> QED
    BY <2>2 DEF BearerInv, BearerTypeOK, ReadFound
<1>9. FoundIsFinal'
  BY DEF BearerInv, BearerTypeOK, FoundIsFinal, LocksFit, LocksExclude, InodesExist,
     LocksProtect, DraftsAreOwn, PathStays, TriesLeft, ReadFound, Stitched, Opened,
     Reading, Filling, Final
<1> QED
  BY <1>1, <1>2, <1>3, <1>4, <1>5, <1>6, <1>7, <1>8, <1>9 DEF BearerInv

\* The draft is a new inode, which nobody has open.
LEMMA WriteDraftAgrees == ASSUME BearerInv, NEW p \in Proc, WriteDraft(p) PROVE BearerInv'
<1>1. TriesLeft'
  BY DEF BearerInv, BearerTypeOK, TriesLeft, WriteDraft
<1>2. LocksFit'
  BY DEF BearerInv, BearerTypeOK, LocksFit, Opened, Reading, Filling, WriteDraft
<1>3. LocksExclude'
  BY DEF BearerInv, BearerTypeOK, LocksFit, LocksExclude, Opened, Reading, Filling,
     WriteDraft
<1>4. InodesExist'
  BY DEF BearerInv, BearerTypeOK, InodesExist, WriteDraft
<1>5. PathStays'
  BY DEF BearerInv, BearerTypeOK, PathStays, Opened, Reading, Filling, WriteDraft
<1>6. BearerTypeOK'
  <2>1. fresh + 1 \in 0 .. MaxFresh
    BY FreshAssumption DEF BearerInv, BearerTypeOK, WriteDraft
  <2> QED
    BY <2>1 DEF BearerInv, BearerTypeOK, WriteDraft
<1>7. LocksProtect'
  BY DEF BearerInv, BearerTypeOK, LocksProtect, LocksFit, LocksExclude, InodesExist,
     WriteDraft, Opened, Reading, Filling
<1>8. DraftsAreOwn'
  <2>0. fresh + 1 \in Id /\ fresh + 1 # 0
    BY FreshAssumption DEF BearerInv, BearerTypeOK, WriteDraft
  <2>1. /\ draft' = [draft EXCEPT ![p] = fresh + 1]
        /\ content' = [content EXCEPT ![fresh + 1] = fresh + 1]
        /\ at' = [at EXCEPT ![p] = "link"] /\ UNCHANGED <<named, fd>>
    BY DEF WriteDraft
  <2>2. \A q \in Proc : fd[q] # fresh + 1 /\ draft[q] # fresh + 1 /\ named # fresh + 1
    BY DEF BearerInv, BearerTypeOK, InodesExist
  <2>3. content'[fresh + 1] # 0 /\ \A i \in Id : i # fresh + 1 => content'[i] = content[i]
    BY <2>0, <2>1 DEF BearerInv, BearerTypeOK
  <2> SUFFICES ASSUME NEW q \in Proc
               PROVE  /\ at'[q] \in {"link", "unlink"} => draft'[q] # 0
                      /\ at'[q] = "link" =>
                           /\ content'[draft'[q]] # 0 /\ named' # draft'[q]
                           /\ \A r \in Proc : /\ fd'[r] # draft'[q]
                                              /\ r # q /\ at'[r] = "link" => draft'[r] # draft'[q]
    BY DEF DraftsAreOwn
  <2>4. CASE q = p
    <3>1. draft'[q] = fresh + 1 /\ named' = named /\ fd' = fd
      BY <2>0, <2>1, <2>4 DEF BearerInv, BearerTypeOK
    <3>2. \A r \in Proc : r # q => draft'[r] = draft[r]
      BY <2>0, <2>1, <2>4 DEF BearerInv, BearerTypeOK
    <3> QED
      BY <2>0, <2>1, <2>2, <2>3, <3>1, <3>2
  <2>5. CASE q # p
    <3>1. /\ draft'[q] = draft[q] /\ at'[q] = at[q] /\ named' = named /\ fd' = fd
          /\ draft[q] \in 0 .. MaxFresh /\ draft'[p] = fresh + 1
      BY <2>1, <2>5 DEF BearerInv, BearerTypeOK
    <3>2. \A r \in Proc : r # p => draft'[r] = draft[r] /\ at'[r] = at[r]
      BY <2>1 DEF BearerInv, BearerTypeOK
    <3>3. at[q] = "link" => content'[draft[q]] = content[draft[q]]
      BY <2>2, <2>3, <3>1 DEF BearerInv, DraftsAreOwn
    <3> QED
      BY <2>2, <3>1, <3>2, <3>3 DEF BearerInv, DraftsAreOwn
  <2> QED
    BY <2>4, <2>5
<1>9. FoundIsFinal'
  BY DEF BearerInv, BearerTypeOK, FoundIsFinal, LocksFit, LocksExclude, InodesExist,
     WriteDraft, Opened, Reading, Filling, Final
<1> QED
  BY <1>1, <1>2, <1>3, <1>4, <1>5, <1>6, <1>7, <1>8, <1>9 DEF BearerInv

\* The path led nowhere and leads to the draft, whose bearer is final.
LEMMA LinkDraftAgrees == ASSUME BearerInv, NEW p \in Proc, LinkDraft(p) PROVE BearerInv'
<1>1. TriesLeft'
  BY DEF BearerInv, BearerTypeOK, TriesLeft, LinkDraft
<1>2. LocksFit'
  BY DEF BearerInv, BearerTypeOK, LocksFit, Opened, Reading, Filling, LinkDraft
<1>3. LocksExclude'
  BY DEF BearerInv, BearerTypeOK, LocksFit, LocksExclude, Opened, Reading, Filling,
     LinkDraft
<1>4. InodesExist'
  BY DEF BearerInv, BearerTypeOK, InodesExist, LinkDraft
<1>5. LocksProtect'
  BY DEF BearerInv, BearerTypeOK, LocksFit, LocksExclude, LocksProtect, Opened, Reading,
     Filling, LinkDraft
<1>6. DraftsAreOwn'
  BY DEF BearerInv, BearerTypeOK, DraftsAreOwn, LinkDraft
<1>7. BearerTypeOK'
  BY DEF BearerInv, BearerTypeOK, LinkDraft
<1>8. PathStays'
  BY DEF BearerInv, BearerTypeOK, PathStays, LocksFit, LocksExclude, InodesExist,
     LocksProtect, DraftsAreOwn, TriesLeft, LinkDraft, Opened, Reading, Filling
<1>9. FoundIsFinal'
  BY DEF BearerInv, BearerTypeOK, FoundIsFinal, LocksFit, LocksExclude, InodesExist,
     LocksProtect, DraftsAreOwn, PathStays, TriesLeft, LinkDraft, Opened, Reading, Filling,
     Final
<1> QED
  BY <1>1, <1>2, <1>3, <1>4, <1>5, <1>6, <1>7, <1>8, <1>9 DEF BearerInv

\* Another process was first.
LEMMA LinkLosesAgrees == ASSUME BearerInv, NEW p \in Proc, LinkLoses(p) PROVE BearerInv'
<1>1. LocksFit'
  BY DEF BearerInv, BearerTypeOK, LocksFit, Opened, Reading, Filling, LinkLoses
<1>2. LocksExclude'
  BY DEF BearerInv, BearerTypeOK, LocksFit, LocksExclude, Opened, Reading, Filling,
     LinkLoses
<1>3. InodesExist'
  BY DEF BearerInv, BearerTypeOK, InodesExist, LinkLoses
<1>4. LocksProtect'
  BY DEF BearerInv, BearerTypeOK, LocksFit, LocksExclude, LocksProtect, Opened, Reading,
     Filling, LinkLoses
<1>5. DraftsAreOwn'
  BY DEF BearerInv, BearerTypeOK, DraftsAreOwn, LinkLoses
<1>6. PathStays'
  BY DEF BearerInv, BearerTypeOK, PathStays, Opened, Reading, Filling, LinkLoses
<1>7. FoundIsFinal'
  BY DEF BearerInv, BearerTypeOK, FoundIsFinal, Final, LinkLoses
<1>8. BearerTypeOK'
  <2>1. tries[p] < Attempts
    BY DEF BearerInv, TriesLeft, LinkLoses
  <2>2. tries[p] + 1 \in 0 .. Attempts
    BY <2>1, BearerAttemptsAssumption DEF BearerInv, BearerTypeOK
  <2>3. tries' = [tries EXCEPT ![p] = tries[p] + 1] /\ draft' = [draft EXCEPT ![p] = 0]
    BY DEF LinkLoses
  <2>4. tries' \in [Proc -> 0 .. Attempts] /\ draft' \in [Proc -> 0 .. MaxFresh]
    BY <2>2, <2>3, FreshAssumption DEF BearerInv, BearerTypeOK
  <2>5. at' = [at EXCEPT ![p] = "failed"] \/ at' = [at EXCEPT ![p] = "open"]
    BY DEF LinkLoses
  <2>6. \A q \in Proc : draft'[q] # 0 => at'[q] \in {"link", "unlink", "killed"}
    BY <2>3, <2>5 DEF BearerInv, BearerTypeOK
  <2>7. at' \in [Proc -> {"idle", "open", "lockShared", "read", "readRest", "draft", "link",
                          "unlink", "openWrite", "lock", "check", "readAgain", "fill", "sync",
                          "rollback", "done", "failed", "killed"}]
    <3>1. at \in [Proc -> {"idle", "open", "lockShared", "read", "readRest", "draft", "link",
                           "unlink", "openWrite", "lock", "check", "readAgain", "fill", "sync",
                           "rollback", "done", "failed", "killed"}]
      BY DEF BearerInv, BearerTypeOK
    <3> QED
      BY <2>5, <3>1
  <2> QED
    BY <2>4, <2>6, <2>7 DEF BearerInv, BearerTypeOK, LinkLoses
<1>9. TriesLeft'
  <2>1. tries[p] < Attempts /\ tries[p] \in Nat
    BY DEF BearerInv, BearerTypeOK, TriesLeft, LinkLoses
  <2>2. tries[p] + 1 # Attempts => tries[p] + 1 < Attempts
    BY <2>1, BearerAttemptsAssumption
  <2> QED
    BY <2>2 DEF BearerInv, BearerTypeOK, TriesLeft, LinkLoses
<1> QED
  BY <1>1, <1>2, <1>3, <1>4, <1>5, <1>6, <1>7, <1>8, <1>9 DEF BearerInv

\* The draft's bearer is the one at the path.
LEMMA UnlinkDraftAgrees == ASSUME BearerInv, NEW p \in Proc, UnlinkDraft(p) PROVE BearerInv'
<1>1. TriesLeft'
  BY DEF BearerInv, BearerTypeOK, TriesLeft, UnlinkDraft
<1>2. LocksFit'
  BY DEF BearerInv, BearerTypeOK, LocksFit, Opened, Reading, Filling, UnlinkDraft
<1>3. LocksExclude'
  BY DEF BearerInv, BearerTypeOK, LocksFit, LocksExclude, Opened, Reading, Filling,
     UnlinkDraft
<1>4. InodesExist'
  BY DEF BearerInv, BearerTypeOK, InodesExist, UnlinkDraft
<1>5. LocksProtect'
  BY DEF BearerInv, BearerTypeOK, LocksFit, LocksExclude, LocksProtect, Opened, Reading,
     Filling, UnlinkDraft
<1>6. DraftsAreOwn'
  BY DEF BearerInv, BearerTypeOK, DraftsAreOwn, UnlinkDraft
<1>7. PathStays'
  BY DEF BearerInv, BearerTypeOK, PathStays, Opened, Reading, Filling, UnlinkDraft
<1>8. BearerTypeOK'
  <2>1. content[draft[p]] \in 0 .. MaxFresh
    BY DEF BearerInv, BearerTypeOK, DraftsAreOwn, UnlinkDraft
  <2>2. result' \in [Proc -> 0 .. MaxFresh]
    BY <2>1, FreshAssumption DEF BearerInv, BearerTypeOK, UnlinkDraft
  <2>3. draft' = [draft EXCEPT ![p] = 0] /\ at' = [at EXCEPT ![p] = "done"]
    BY DEF UnlinkDraft
  <2>4. \A q \in Proc : draft'[q] # 0 => at'[q] \in {"link", "unlink", "killed"}
    BY <2>3 DEF BearerInv, BearerTypeOK
  <2>5. draft' \in [Proc -> 0 .. MaxFresh]
    BY <2>3, FreshAssumption DEF BearerInv, BearerTypeOK
  <2> QED
    BY <2>2, <2>3, <2>4, <2>5 DEF BearerInv, BearerTypeOK, UnlinkDraft
<1>9. FoundIsFinal'
  BY DEF BearerInv, BearerTypeOK, FoundIsFinal, LocksFit, LocksExclude, InodesExist,
     LocksProtect, DraftsAreOwn, PathStays, TriesLeft, UnlinkDraft, Opened, Reading,
     Filling, Final
<1> QED
  BY <1>1, <1>2, <1>3, <1>4, <1>5, <1>6, <1>7, <1>8, <1>9 DEF BearerInv

\* The blank file is opened again.
LEMMA OpenToWriteAgrees == ASSUME BearerInv, NEW p \in Proc, OpenToWrite(p) PROVE BearerInv'
<1>1. TriesLeft'
  BY DEF BearerInv, BearerTypeOK, TriesLeft, OpenToWrite
<1>2. LocksFit'
  BY DEF BearerInv, BearerTypeOK, LocksFit, Opened, Reading, Filling, OpenToWrite
<1>3. InodesExist'
  BY DEF BearerInv, BearerTypeOK, InodesExist, OpenToWrite
<1>4. LocksProtect'
  BY DEF BearerInv, BearerTypeOK, LocksFit, LocksExclude, LocksProtect, Opened, Reading,
     Filling, OpenToWrite
<1>5. DraftsAreOwn'
  BY DEF BearerInv, BearerTypeOK, DraftsAreOwn, OpenToWrite
<1>6. PathStays'
  BY DEF BearerInv, BearerTypeOK, PathStays, Opened, Reading, Filling, OpenToWrite
<1>7. FoundIsFinal'
  BY DEF BearerInv, BearerTypeOK, FoundIsFinal, Final, OpenToWrite
<1>8. BearerTypeOK'
  BY DEF BearerInv, BearerTypeOK, OpenToWrite
<1>9. LocksExclude'
  <2>1. lock' = lock /\ lock[p] = "none" /\ \A q \in Proc \ {p} : fd'[q] = fd[q]
    BY DEF BearerInv, BearerTypeOK, LocksFit, OpenToWrite, At, Reading, Filling
  <2> QED
    BY <2>1 DEF BearerInv, LocksExclude
<1> QED
  BY <1>1, <1>2, <1>3, <1>4, <1>5, <1>6, <1>7, <1>8, <1>9 DEF BearerInv

\* It is gone.
LEMMA GoneBeforeWriteAgrees == ASSUME BearerInv, NEW p \in Proc, GoneBeforeWrite(p) PROVE BearerInv'
<1>1. LocksFit'
  BY DEF BearerInv, BearerTypeOK, LocksFit, Opened, Reading, Filling, GoneBeforeWrite
<1>2. LocksExclude'
  BY DEF BearerInv, BearerTypeOK, LocksFit, LocksExclude, Opened, Reading, Filling,
     GoneBeforeWrite
<1>3. InodesExist'
  BY DEF BearerInv, BearerTypeOK, InodesExist, GoneBeforeWrite
<1>4. LocksProtect'
  BY DEF BearerInv, BearerTypeOK, LocksFit, LocksExclude, LocksProtect, Opened, Reading,
     Filling, GoneBeforeWrite
<1>5. DraftsAreOwn'
  BY DEF BearerInv, BearerTypeOK, DraftsAreOwn, GoneBeforeWrite
<1>6. PathStays'
  BY DEF BearerInv, BearerTypeOK, PathStays, Opened, Reading, Filling, GoneBeforeWrite
<1>7. FoundIsFinal'
  BY DEF BearerInv, BearerTypeOK, FoundIsFinal, Final, GoneBeforeWrite
<1>8. BearerTypeOK'
  <2>1. tries[p] < Attempts
    BY DEF BearerInv, TriesLeft, GoneBeforeWrite
  <2>2. tries[p] + 1 \in 0 .. Attempts
    BY <2>1, BearerAttemptsAssumption DEF BearerInv, BearerTypeOK
  <2> QED
    BY <2>2 DEF BearerInv, BearerTypeOK, GoneBeforeWrite
<1>9. TriesLeft'
  <2>1. tries[p] < Attempts /\ tries[p] \in Nat
    BY DEF BearerInv, BearerTypeOK, TriesLeft, GoneBeforeWrite
  <2>2. tries[p] + 1 # Attempts => tries[p] + 1 < Attempts
    BY <2>1, BearerAttemptsAssumption
  <2> QED
    BY <2>2 DEF BearerInv, BearerTypeOK, TriesLeft, GoneBeforeWrite
<1> QED
  BY <1>1, <1>2, <1>3, <1>4, <1>5, <1>6, <1>7, <1>8, <1>9 DEF BearerInv

\* The exclusive lock keeps everybody out.
LEMMA LockExclusiveAgrees == ASSUME BearerInv, NEW p \in Proc, LockExclusive(p) PROVE BearerInv'
<1>1. TriesLeft'
  BY DEF BearerInv, BearerTypeOK, TriesLeft, LockExclusive
<1>2. LocksFit'
  BY DEF BearerInv, BearerTypeOK, LocksFit, Opened, Reading, Filling, LockExclusive
<1>3. LocksExclude'
  <2>1. /\ fd' = fd /\ \A q \in Proc \ {p} : lock'[q] = lock[q]
        /\ \A q \in Proc \ {p} : fd[q] = fd[p] => lock[q] = "none"
    BY DEF BearerInv, BearerTypeOK, LockExclusive
  <2> QED
    BY <2>1 DEF BearerInv, LocksExclude
<1>4. InodesExist'
  BY DEF BearerInv, BearerTypeOK, InodesExist, LockExclusive
<1>5. LocksProtect'
  BY DEF BearerInv, BearerTypeOK, LocksFit, LocksExclude, LocksProtect, Opened, Reading,
     Filling, LockExclusive
<1>6. DraftsAreOwn'
  BY DEF BearerInv, BearerTypeOK, DraftsAreOwn, LockExclusive
<1>7. PathStays'
  BY DEF BearerInv, BearerTypeOK, PathStays, Opened, Reading, Filling, LockExclusive
<1>8. FoundIsFinal'
  BY DEF BearerInv, BearerTypeOK, FoundIsFinal, Final, LockExclusive
<1>9. BearerTypeOK'
  BY DEF BearerInv, BearerTypeOK, LocksFit, LockExclusive, Opened, Reading, Filling
<1> QED
  BY <1>1, <1>2, <1>3, <1>4, <1>5, <1>6, <1>7, <1>8, <1>9 DEF BearerInv

\* The path leads there still.
LEMMA StillNamedAgrees == ASSUME BearerInv, NEW p \in Proc, StillNamed(p) PROVE BearerInv'
<1>1. TriesLeft'
  BY DEF BearerInv, BearerTypeOK, TriesLeft, StillNamed
<1>2. LocksFit'
  BY DEF BearerInv, BearerTypeOK, LocksFit, Opened, Reading, Filling, StillNamed
<1>3. LocksExclude'
  BY DEF BearerInv, BearerTypeOK, LocksFit, LocksExclude, Opened, Reading, Filling,
     StillNamed
<1>4. InodesExist'
  BY DEF BearerInv, BearerTypeOK, InodesExist, StillNamed
<1>5. LocksProtect'
  BY DEF BearerInv, BearerTypeOK, LocksFit, LocksExclude, LocksProtect, Opened, Reading,
     Filling, StillNamed
<1>6. DraftsAreOwn'
  BY DEF BearerInv, BearerTypeOK, DraftsAreOwn, StillNamed
<1>7. PathStays'
  BY DEF BearerInv, BearerTypeOK, PathStays, Opened, Reading, Filling, StillNamed
<1>8. FoundIsFinal'
  BY DEF BearerInv, BearerTypeOK, FoundIsFinal, Final, StillNamed
<1>9. BearerTypeOK'
  BY DEF BearerInv, BearerTypeOK, StillNamed
<1> QED
  BY <1>1, <1>2, <1>3, <1>4, <1>5, <1>6, <1>7, <1>8, <1>9 DEF BearerInv

\* It leads elsewhere.
LEMMA ReplacedAgrees == ASSUME BearerInv, NEW p \in Proc, Replaced(p) PROVE BearerInv'
<1>1. LocksFit'
  BY DEF BearerInv, BearerTypeOK, LocksFit, Opened, Reading, Filling, Replaced
<1>2. LocksExclude'
  BY DEF BearerInv, BearerTypeOK, LocksFit, LocksExclude, Opened, Reading, Filling,
     Replaced
<1>3. InodesExist'
  BY DEF BearerInv, BearerTypeOK, InodesExist, Replaced
<1>4. LocksProtect'
  BY DEF BearerInv, BearerTypeOK, LocksFit, LocksExclude, LocksProtect, Opened, Reading,
     Filling, Replaced
<1>5. DraftsAreOwn'
  BY DEF BearerInv, BearerTypeOK, DraftsAreOwn, Replaced
<1>6. PathStays'
  BY DEF BearerInv, BearerTypeOK, PathStays, Opened, Reading, Filling, Replaced
<1>7. FoundIsFinal'
  BY DEF BearerInv, BearerTypeOK, FoundIsFinal, Final, Replaced
<1>8. BearerTypeOK'
  <2>1. tries[p] < Attempts
    BY DEF BearerInv, TriesLeft, Replaced
  <2>2. tries[p] + 1 \in 0 .. Attempts
    BY <2>1, BearerAttemptsAssumption DEF BearerInv, BearerTypeOK
  <2> QED
    BY <2>2 DEF BearerInv, BearerTypeOK, Replaced
<1>9. TriesLeft'
  <2>1. tries[p] < Attempts /\ tries[p] \in Nat
    BY DEF BearerInv, BearerTypeOK, TriesLeft, Replaced
  <2>2. tries[p] + 1 # Attempts => tries[p] + 1 < Attempts
    BY <2>1, BearerAttemptsAssumption
  <2> QED
    BY <2>2 DEF BearerInv, BearerTypeOK, TriesLeft, Replaced
<1> QED
  BY <1>1, <1>2, <1>3, <1>4, <1>5, <1>6, <1>7, <1>8, <1>9 DEF BearerInv

\* Another process has filled the file.
LEMMA FilledMeanwhileAgrees == ASSUME BearerInv, NEW p \in Proc, FilledMeanwhile(p) PROVE BearerInv'
<1>1. TriesLeft'
  BY DEF BearerInv, BearerTypeOK, TriesLeft, FilledMeanwhile
<1>2. LocksFit'
  BY DEF BearerInv, BearerTypeOK, LocksFit, Opened, Reading, Filling, FilledMeanwhile
<1>3. LocksExclude'
  BY DEF BearerInv, BearerTypeOK, LocksFit, LocksExclude, Opened, Reading, Filling,
     FilledMeanwhile
<1>4. InodesExist'
  BY DEF BearerInv, BearerTypeOK, InodesExist, FilledMeanwhile
<1>5. LocksProtect'
  BY DEF BearerInv, BearerTypeOK, LocksFit, LocksExclude, LocksProtect, Opened, Reading,
     Filling, FilledMeanwhile
<1>6. DraftsAreOwn'
  BY DEF BearerInv, BearerTypeOK, DraftsAreOwn, FilledMeanwhile
<1>7. PathStays'
  BY DEF BearerInv, BearerTypeOK, PathStays, Opened, Reading, Filling, FilledMeanwhile
<1>8. BearerTypeOK'
  <2>1. content[fd[p]] \in 0 .. MaxFresh
    BY DEF BearerInv, BearerTypeOK, LocksFit, FilledMeanwhile, Opened, Filling
  <2>2. result' \in [Proc -> 0 .. MaxFresh]
    BY <2>1 DEF BearerInv, BearerTypeOK, FilledMeanwhile
  <2> QED
    BY <2>2, FreshAssumption DEF BearerInv, BearerTypeOK, FilledMeanwhile
<1>9. FoundIsFinal'
  BY DEF BearerInv, BearerTypeOK, FoundIsFinal, LocksFit, LocksExclude, InodesExist,
     LocksProtect, DraftsAreOwn, PathStays, TriesLeft, FilledMeanwhile, Opened, Reading,
     Filling, Final
<1> QED
  BY <1>1, <1>2, <1>3, <1>4, <1>5, <1>6, <1>7, <1>8, <1>9 DEF BearerInv

\* It is blank, and the lock keeps it so.
LEMMA StillBlankAgrees == ASSUME BearerInv, NEW p \in Proc, StillBlank(p) PROVE BearerInv'
<1>1. TriesLeft'
  BY DEF BearerInv, BearerTypeOK, TriesLeft, StillBlank
<1>2. LocksFit'
  BY DEF BearerInv, BearerTypeOK, LocksFit, Opened, Reading, Filling, StillBlank
<1>3. LocksExclude'
  BY DEF BearerInv, BearerTypeOK, LocksFit, LocksExclude, Opened, Reading, Filling,
     StillBlank
<1>4. InodesExist'
  BY DEF BearerInv, BearerTypeOK, InodesExist, StillBlank
<1>5. LocksProtect'
  BY DEF BearerInv, BearerTypeOK, LocksFit, LocksExclude, LocksProtect, Opened, Reading,
     Filling, StillBlank
<1>6. DraftsAreOwn'
  BY DEF BearerInv, BearerTypeOK, DraftsAreOwn, StillBlank
<1>7. PathStays'
  BY DEF BearerInv, BearerTypeOK, PathStays, Opened, Reading, Filling, StillBlank
<1>8. FoundIsFinal'
  BY DEF BearerInv, BearerTypeOK, FoundIsFinal, Final, StillBlank
<1>9. BearerTypeOK'
  BY DEF BearerInv, BearerTypeOK, StillBlank
<1> QED
  BY <1>1, <1>2, <1>3, <1>4, <1>5, <1>6, <1>7, <1>8, <1>9 DEF BearerInv

\* A file somebody holds a bearer from is not blank, and so is not filled.
LEMMA FillAgrees == ASSUME BearerInv, NEW p \in Proc, Fill(p) PROVE BearerInv'
<1>1. TriesLeft'
  BY DEF BearerInv, BearerTypeOK, TriesLeft, Fill
<1>2. LocksFit'
  BY DEF BearerInv, BearerTypeOK, LocksFit, Opened, Reading, Filling, Fill
<1>3. LocksExclude'
  BY DEF BearerInv, BearerTypeOK, LocksFit, LocksExclude, Opened, Reading, Filling, Fill
<1>4. InodesExist'
  BY DEF BearerInv, BearerTypeOK, InodesExist, Fill
<1>5. DraftsAreOwn'
  BY DEF BearerInv, BearerTypeOK, DraftsAreOwn, Fill
<1>6. PathStays'
  BY DEF BearerInv, BearerTypeOK, PathStays, Opened, Reading, Filling, Fill
<1>7. BearerTypeOK'
  <2>1. fresh + 1 \in 0 .. MaxFresh
    BY FreshAssumption DEF BearerInv, BearerTypeOK, Fill
  <2> QED
    BY <2>1 DEF BearerInv, BearerTypeOK, Fill
<1>8. LocksProtect'
  BY DEF BearerInv, BearerTypeOK, LocksProtect, LocksFit, LocksExclude, InodesExist,
     Fill, Opened, Reading, Filling
<1>9. FoundIsFinal'
  BY DEF BearerInv, BearerTypeOK, FoundIsFinal, LocksFit, LocksExclude, InodesExist,
     LocksProtect, DraftsAreOwn, PathStays, TriesLeft, Fill, Opened, Reading, Filling,
     Final
<1> QED
  BY <1>1, <1>2, <1>3, <1>4, <1>5, <1>6, <1>7, <1>8, <1>9 DEF BearerInv

\* The bearer written is final.
LEMMA FillSyncedAgrees == ASSUME BearerInv, NEW p \in Proc, FillSynced(p) PROVE BearerInv'
<1>1. TriesLeft'
  BY DEF BearerInv, BearerTypeOK, TriesLeft, FillSynced
<1>2. LocksFit'
  BY DEF BearerInv, BearerTypeOK, LocksFit, Opened, Reading, Filling, FillSynced
<1>3. LocksExclude'
  BY DEF BearerInv, BearerTypeOK, LocksFit, LocksExclude, Opened, Reading, Filling,
     FillSynced
<1>4. InodesExist'
  BY DEF BearerInv, BearerTypeOK, InodesExist, FillSynced
<1>5. LocksProtect'
  BY DEF BearerInv, BearerTypeOK, LocksFit, LocksExclude, LocksProtect, Opened, Reading,
     Filling, FillSynced
<1>6. DraftsAreOwn'
  BY DEF BearerInv, BearerTypeOK, DraftsAreOwn, FillSynced
<1>7. PathStays'
  BY DEF BearerInv, BearerTypeOK, PathStays, Opened, Reading, Filling, FillSynced
<1>8. BearerTypeOK'
  <2>1. content[fd[p]] \in 0 .. MaxFresh
    BY DEF BearerInv, BearerTypeOK, LocksFit, FillSynced, Opened, Filling
  <2>2. result' \in [Proc -> 0 .. MaxFresh]
    BY <2>1 DEF BearerInv, BearerTypeOK, FillSynced
  <2> QED
    BY <2>2, FreshAssumption DEF BearerInv, BearerTypeOK, FillSynced
<1>9. FoundIsFinal'
  BY DEF BearerInv, BearerTypeOK, FoundIsFinal, LocksFit, LocksExclude, InodesExist,
     LocksProtect, DraftsAreOwn, PathStays, TriesLeft, FillSynced, Opened, Reading,
     Filling, Final
<1> QED
  BY <1>1, <1>2, <1>3, <1>4, <1>5, <1>6, <1>7, <1>8, <1>9 DEF BearerInv

\* The bearer written is to be taken back.
LEMMA FillFailsAgrees == ASSUME BearerInv, NEW p \in Proc, FillFails(p) PROVE BearerInv'
<1>1. TriesLeft'
  BY DEF BearerInv, BearerTypeOK, TriesLeft, FillFails
<1>2. LocksFit'
  BY DEF BearerInv, BearerTypeOK, LocksFit, Opened, Reading, Filling, FillFails
<1>3. LocksExclude'
  BY DEF BearerInv, BearerTypeOK, LocksFit, LocksExclude, Opened, Reading, Filling,
     FillFails
<1>4. InodesExist'
  BY DEF BearerInv, BearerTypeOK, InodesExist, FillFails
<1>5. LocksProtect'
  BY DEF BearerInv, BearerTypeOK, LocksFit, LocksExclude, LocksProtect, Opened, Reading,
     Filling, FillFails
<1>6. DraftsAreOwn'
  BY DEF BearerInv, BearerTypeOK, DraftsAreOwn, FillFails
<1>7. PathStays'
  BY DEF BearerInv, BearerTypeOK, PathStays, Opened, Reading, Filling, FillFails
<1>8. FoundIsFinal'
  BY DEF BearerInv, BearerTypeOK, FoundIsFinal, Final, FillFails
<1>9. BearerTypeOK'
  BY DEF BearerInv, BearerTypeOK, FillFails
<1> QED
  BY <1>1, <1>2, <1>3, <1>4, <1>5, <1>6, <1>7, <1>8, <1>9 DEF BearerInv

\* Nobody has returned it: the lock was never let go.
LEMMA RollbackAgrees == ASSUME BearerInv, NEW p \in Proc, Rollback(p) PROVE BearerInv'
<1>1. TriesLeft'
  BY DEF BearerInv, BearerTypeOK, TriesLeft, Rollback
<1>2. LocksFit'
  BY DEF BearerInv, BearerTypeOK, LocksFit, Opened, Reading, Filling, Rollback
<1>3. LocksExclude'
  BY DEF BearerInv, BearerTypeOK, LocksFit, LocksExclude, Opened, Reading, Filling,
     Rollback
<1>4. InodesExist'
  BY DEF BearerInv, BearerTypeOK, InodesExist, Rollback
<1>5. PathStays'
  BY DEF BearerInv, BearerTypeOK, PathStays, Opened, Reading, Filling, Rollback
<1>6. FoundIsFinal'
  BY DEF BearerInv, BearerTypeOK, FoundIsFinal, Final, Rollback
<1>7. PICK left \in {0, content[fd[p]]} : content' = [content EXCEPT ![fd[p]] = left]
  BY DEF Rollback
<1>8. at[p] = "rollback" /\ fd[p] \in Id /\ left \in 0 .. MaxFresh
  BY <1>7, FreshAssumption DEF BearerInv, BearerTypeOK, LocksFit, Opened, Filling, Rollback
<1>9. content' \in [Id -> 0 .. MaxFresh]
  BY <1>7, <1>8 DEF BearerInv, BearerTypeOK
<1>10. BearerTypeOK'
  BY <1>9 DEF BearerInv, BearerTypeOK, Rollback
<1>11. LocksProtect'
  BY DEF BearerInv, BearerTypeOK, LocksProtect, LocksFit, LocksExclude, InodesExist,
     Rollback, Opened, Reading, Filling
<1>12. DraftsAreOwn'
  <2>1. \A q \in Proc : /\ at'[q] \in {"link", "unlink"} => at'[q] = at[q]
                       /\ fd'[q] \in {fd[q], 0}
    BY DEF BearerInv, BearerTypeOK, Rollback
  <2>2. \A q \in Proc : at[q] = "link" => draft[q] \in Id /\ draft[q] # fd[p]
    BY DEF BearerInv, BearerTypeOK, DraftsAreOwn
  <2>3. \A q \in Proc : at[q] = "link" => content'[draft[q]] = content[draft[q]]
    BY <1>7, <1>8, <2>2 DEF BearerInv, BearerTypeOK
  <2>4. UNCHANGED <<draft, named>>
    BY DEF Rollback
  <2> QED
    BY <2>1, <2>2, <2>3, <2>4 DEF BearerInv, DraftsAreOwn
<1> QED
  BY <1>1, <1>2, <1>3, <1>4, <1>5, <1>6, <1>10, <1>11, <1>12 DEF BearerInv

\* A process gives up.
LEMMA BearerErrorAgrees == ASSUME BearerInv, NEW p \in Proc, BearerError(p) PROVE BearerInv'
<1>1. TriesLeft'
  BY DEF BearerInv, BearerTypeOK, TriesLeft, BearerError
<1>2. LocksFit'
  BY DEF BearerInv, BearerTypeOK, LocksFit, Opened, Reading, Filling, BearerError
<1>3. LocksExclude'
  BY DEF BearerInv, BearerTypeOK, LocksFit, LocksExclude, Opened, Reading, Filling,
     BearerError
<1>4. InodesExist'
  BY DEF BearerInv, BearerTypeOK, InodesExist, BearerError
<1>5. LocksProtect'
  BY DEF BearerInv, BearerTypeOK, LocksFit, LocksExclude, LocksProtect, Opened, Reading,
     Filling, BearerError
<1>6. DraftsAreOwn'
  BY DEF BearerInv, BearerTypeOK, DraftsAreOwn, BearerError
<1>7. PathStays'
  BY DEF BearerInv, BearerTypeOK, PathStays, Opened, Reading, Filling, BearerError
<1>8. FoundIsFinal'
  BY DEF BearerInv, BearerTypeOK, FoundIsFinal, Final, BearerError
<1>9. BearerTypeOK'
  BY DEF BearerInv, BearerTypeOK, LocksFit, BearerError, Opened, Reading, Filling
<1> QED
  BY <1>1, <1>2, <1>3, <1>4, <1>5, <1>6, <1>7, <1>8, <1>9 DEF BearerInv

\* A process is killed.
LEMMA KillAgrees == ASSUME BearerInv, NEW p \in Proc, Kill(p) PROVE BearerInv'
<1>1. TriesLeft'
  BY DEF BearerInv, BearerTypeOK, TriesLeft, Settled, Kill
<1>2. LocksFit'
  BY DEF BearerInv, BearerTypeOK, LocksFit, Opened, Reading, Filling, Settled, Kill
<1>3. LocksExclude'
  BY DEF BearerInv, BearerTypeOK, LocksFit, LocksExclude, Opened, Reading, Filling,
     Settled, Kill
<1>4. InodesExist'
  BY DEF BearerInv, BearerTypeOK, InodesExist, Settled, Kill
<1>5. LocksProtect'
  BY DEF BearerInv, BearerTypeOK, LocksFit, LocksExclude, LocksProtect, Opened, Reading,
     Filling, Settled, Kill
<1>6. DraftsAreOwn'
  BY DEF BearerInv, BearerTypeOK, DraftsAreOwn, Settled, Kill
<1>7. PathStays'
  BY DEF BearerInv, BearerTypeOK, PathStays, Opened, Reading, Filling, Settled, Kill
<1>8. FoundIsFinal'
  BY DEF BearerInv, BearerTypeOK, FoundIsFinal, Final, Settled, Kill
<1>9. BearerTypeOK'
  BY DEF BearerInv, BearerTypeOK, LocksFit, Kill, Settled, Opened, Reading, Filling
<1> QED
  BY <1>1, <1>2, <1>3, <1>4, <1>5, <1>6, <1>7, <1>8, <1>9 DEF BearerInv

\* The operator voids what was agreed on.
LEMMA OperatorDeletesAgrees == ASSUME BearerInv, OperatorDeletes PROVE BearerInv'
<1>1. TriesLeft'
  BY DEF BearerInv, BearerTypeOK, TriesLeft, OperatorDeletes
<1>2. LocksFit'
  BY DEF BearerInv, BearerTypeOK, LocksFit, Opened, Reading, Filling, OperatorDeletes
<1>3. LocksExclude'
  BY DEF BearerInv, BearerTypeOK, LocksFit, LocksExclude, Opened, Reading, Filling,
     OperatorDeletes
<1>4. InodesExist'
  BY DEF BearerInv, BearerTypeOK, InodesExist, OperatorDeletes
<1>5. LocksProtect'
  BY DEF BearerInv, BearerTypeOK, LocksFit, LocksExclude, LocksProtect, Opened, Reading,
     Filling, OperatorDeletes
<1>6. DraftsAreOwn'
  BY DEF BearerInv, BearerTypeOK, DraftsAreOwn, OperatorDeletes
<1>7. PathStays'
  BY DEF BearerInv, BearerTypeOK, PathStays, Opened, Reading, Filling, OperatorDeletes
<1>8. FoundIsFinal'
  BY DEF BearerInv, BearerTypeOK, FoundIsFinal, Final, OperatorDeletes
<1>9. BearerTypeOK'
  <2>1. touches + 1 \in 0 .. MaxTouches /\ 0 \in 0 .. MaxFresh
    BY TouchesAssumption, FreshAssumption DEF BearerInv, BearerTypeOK, OperatorDeletes
  <2> QED
    BY <2>1 DEF BearerInv, BearerTypeOK, OperatorDeletes
<1> QED
  BY <1>1, <1>2, <1>3, <1>4, <1>5, <1>6, <1>7, <1>8, <1>9 DEF BearerInv

\* So he does with a file of his own.
LEMMA OperatorPutsAgrees == ASSUME BearerInv, OperatorPuts PROVE BearerInv'
<1>1. TriesLeft'
  BY DEF BearerInv, BearerTypeOK, TriesLeft, OperatorPuts
<1>2. LocksFit'
  BY DEF BearerInv, BearerTypeOK, LocksFit, Opened, Reading, Filling, OperatorPuts
<1>3. LocksExclude'
  BY DEF BearerInv, BearerTypeOK, LocksFit, LocksExclude, Opened, Reading, Filling,
     OperatorPuts
<1>4. InodesExist'
  BY DEF BearerInv, BearerTypeOK, InodesExist, OperatorPuts
<1>5. PathStays'
  BY DEF BearerInv, BearerTypeOK, PathStays, Opened, Reading, Filling, OperatorPuts
<1>6. FoundIsFinal'
  BY DEF BearerInv, BearerTypeOK, FoundIsFinal, Final, OperatorPuts
<1>7. BearerTypeOK'
  <2>1. touches + 1 \in 0 .. MaxTouches /\ fresh + 1 \in 0 .. MaxFresh /\ 0 \in 0 .. MaxFresh
    BY TouchesAssumption, FreshAssumption DEF BearerInv, BearerTypeOK, OperatorPuts
  <2> QED
    BY <2>1 DEF BearerInv, BearerTypeOK, OperatorPuts
<1>8. LocksProtect'
  BY DEF BearerInv, BearerTypeOK, LocksProtect, LocksFit, LocksExclude, InodesExist,
     OperatorPuts, Opened, Reading, Filling
<1>9. DraftsAreOwn'
  BY DEF BearerInv, BearerTypeOK, DraftsAreOwn, LocksFit, LocksExclude, InodesExist,
     OperatorPuts, Opened, Reading, Filling
<1> QED
  BY <1>1, <1>2, <1>3, <1>4, <1>5, <1>6, <1>7, <1>8, <1>9 DEF BearerInv

--------------------------------------------------------------------------------
\* Every call of settle_bearer keeps the invariant.
LEMMA SettleAgrees == ASSUME BearerInv, NEW p \in Proc, SettleStep(p) PROVE BearerInv'
BY OpenMissingAgrees, OpenToReadAgrees, LockSharedAgrees, ReadFirstAgrees,
     ReadBlankAgrees, ReadFoundAgrees, WriteDraftAgrees, LinkDraftAgrees, LinkLosesAgrees,
     UnlinkDraftAgrees, OpenToWriteAgrees, GoneBeforeWriteAgrees, LockExclusiveAgrees,
     StillNamedAgrees, ReplacedAgrees, FilledMeanwhileAgrees, StillBlankAgrees, FillAgrees,
     FillSyncedAgrees, FillFailsAgrees, RollbackAgrees, BearerErrorAgrees DEF SettleStep

\* So does a stuttering step.
LEMMA StutterAgrees == ASSUME BearerInv, UNCHANGED bearerVars PROVE BearerInv'
BY DEF BearerInv, BearerTypeOK, TriesLeft, LocksFit, LocksExclude, InodesExist, LocksProtect,
       DraftsAreOwn, PathStays, FoundIsFinal, Final, bearerVars

\* And so does whatever anybody does.
LEMMA NextAgrees == BearerInv /\ [BearerNext]_bearerVars => BearerInv'
BY SettleAgrees, StartBearerAgrees, KillAgrees, OperatorDeletesAgrees, OperatorPutsAgrees,
   StutterAgrees DEF BearerNext

\* The inductive invariant is one.
THEOREM BearerIsSafe == BearerSpec => []BearerInv
BY InitAgrees, NextAgrees, PTL DEF BearerSpec

(***************************************************************************)
(* settle_bearer, the types of its state: no process ever returns the tail *)
(* of a bearer, or takes more than BEARER_ATTEMPTS rounds.                 *)
(***************************************************************************)
THEOREM BearerTypes == BearerSpec => []BearerTypeOK
<1>1. BearerInv => BearerTypeOK
  BY DEF BearerInv
<1> QED
  BY <1>1, BearerIsSafe, PTL

(***************************************************************************)
(* settle_bearer: the bearer a process has returned is the one in the      *)
(* file, and so the one that every other process returns, until the        *)
(* operator touches the path.                                              *)
(***************************************************************************)
THEOREM TheBearerIsAgreedOn == BearerSpec => []BearersAgree
<1>1. BearerInv => BearersAgree
  BY DEF BearerInv, FoundIsFinal, Final, BearersAgree
<1> QED
  BY <1>1, BearerIsSafe, PTL

--------------------------------------------------------------------------------
(***************************************************************************)
(* That the processes implement the agreement: what it is about is the     *)
(* bearer that the path leads to.                                          *)
(***************************************************************************)
There     == IF named = 0 THEN Blank ELSE content[named]
agreement == <<There, result, touched>>

\* A process has a bearer when it is done, and what was published has one for
\* good: it was not blank, and so nobody fills it or takes it back.
Given == \A p \in Proc : result[p] # Blank <=> at[p] = "done"
Published ==
  \A p \in Proc : at[p] = "unlink" =>
    /\ content[draft[p]] # Blank
    /\ \A q \in Proc : at[q] \in {"sync", "rollback"} => fd[q] # draft[p]

LEMMA OthersStay ==
  ASSUME BearerTypeOK, NEW r \in Proc, StartBearer(r) \/ SettleStep(r) \/ Kill(r), NEW p \in Proc, r # p
  PROVE  at'[p] = at[p] /\ fd'[p] = fd[p] /\ draft'[p] = draft[p] /\ result'[p] = result[p]
BY DEF BearerTypeOK, StartBearer, SettleStep, Kill, OpenMissing, OpenToRead,
    LockShared, ReadFirst, ReadBlank, ReadFound, WriteDraft, LinkDraft, LinkLoses, UnlinkDraft, OpenToWrite,
    GoneBeforeWrite, LockExclusive, StillNamed, Replaced, FilledMeanwhile, StillBlank, Fill, FillSynced,
    FillFails, Rollback, BearerError

LEMMA PublishedStays == ASSUME BearerInv, Published, [BearerNext]_bearerVars PROVE Published'
<1>0. BearerTypeOK /\ InodesExist /\ LocksProtect /\ DraftsAreOwn
  BY DEF BearerInv
<1>1. SUFFICES ASSUME NEW p \in Proc, at'[p] = "unlink"
               PROVE  /\ content'[draft'[p]] # Blank
                      /\ \A q \in Proc : at'[q] \in {"sync", "rollback"} => fd'[q] # draft'[p]
  BY DEF Published
<1>2. CASE LinkDraft(p)
  <2>1. at[p] = "link" /\ draft' = draft /\ content' = content /\ fd' = fd
    BY <1>2 DEF LinkDraft
  <2> QED
    BY <1>0, <2>1 DEF DraftsAreOwn
<1>3. CASE ~LinkDraft(p)
  <2>1. at[p] = "unlink" /\ draft'[p] = draft[p]
    <3>1. CASE UNCHANGED bearerVars
      BY <1>1, <3>1 DEF bearerVars
    <3>2. CASE OperatorDeletes \/ OperatorPuts
      BY <1>1, <3>2 DEF OperatorDeletes, OperatorPuts
    <3>3. ASSUME NEW r \in Proc, StartBearer(r) \/ SettleStep(r) \/ Kill(r)
          PROVE  at[p] = "unlink" /\ draft'[p] = draft[p]
      <4>1. CASE r = p
        BY <1>0, <1>1, <1>3, <3>3, <4>1 DEF BearerTypeOK, StartBearer, SettleStep, Kill, OpenMissing, OpenToRead,
          LockShared, ReadFirst, ReadBlank, ReadFound, WriteDraft, LinkLoses, UnlinkDraft, OpenToWrite,
          GoneBeforeWrite, LockExclusive, StillNamed, Replaced, FilledMeanwhile, StillBlank, Fill, FillSynced,
          FillFails, Rollback, BearerError
      <4>2. CASE r # p
        BY <1>0, <1>1, <3>3, <4>2, OthersStay
      <4> QED
        BY <4>1, <4>2
    <3> QED
      BY <3>1, <3>2, <3>3 DEF BearerNext
  <2> DEFINE i == draft[p]
  <2>2. i \in 0 .. MaxFresh /\ i # 0 /\ i <= fresh /\ i \in Id
    BY <1>0, <2>1 DEF BearerTypeOK, InodesExist, DraftsAreOwn
  <2>3. content[i] # Blank /\ \A q \in Proc : at[q] \in {"sync", "rollback"} => fd[q] # i
    BY <2>1 DEF Published
  <2> HIDE DEF i
  <2>4. content'[i] = content[i]
    <3>1. CASE UNCHANGED content
      BY <3>1
    <3>2. CASE ~UNCHANGED content
      <4>1. \/ OperatorPuts
            \/ \E q \in Proc : WriteDraft(q) \/ Fill(q) \/ Rollback(q)
        BY <3>2 DEF BearerNext, bearerVars, StartBearer, SettleStep, Kill, OpenMissing, OpenToRead,
          LockShared, ReadFirst, ReadBlank, ReadFound, LinkDraft, LinkLoses, UnlinkDraft, OpenToWrite,
          GoneBeforeWrite, LockExclusive, StillNamed, Replaced, FilledMeanwhile, StillBlank, FillSynced,
          FillFails, BearerError, OperatorDeletes
      <4>2. CASE OperatorPuts
        BY <1>0, <2>2, <4>2 DEF OperatorPuts, BearerTypeOK
      <4>3. ASSUME NEW q \in Proc, WriteDraft(q) PROVE content'[i] = content[i]
        BY <1>0, <2>2, <4>3 DEF WriteDraft, BearerTypeOK
      <4>4. ASSUME NEW q \in Proc, Fill(q) PROVE content'[i] = content[i]
        <5>1. content[fd[q]] = Blank
          BY <1>0, <4>4 DEF Fill, LocksProtect
        <5> QED
          BY <1>0, <2>2, <2>3, <4>4, <5>1 DEF Fill, BearerTypeOK
      <4>5. ASSUME NEW q \in Proc, Rollback(q) PROVE content'[i] = content[i]
        <5>1. fd[q] # i
          BY <2>3, <4>5 DEF Rollback
        <5> QED
          BY <1>0, <2>2, <4>5, <5>1 DEF Rollback, BearerTypeOK
      <4> QED
        BY <4>1, <4>2, <4>3, <4>4, <4>5
    <3> QED
      BY <3>1, <3>2
  <2>5. ASSUME NEW q \in Proc, at'[q] \in {"sync", "rollback"} PROVE fd'[q] # i
    <3>1. CASE Fill(q)
      <4>1. content[fd[q]] = Blank /\ fd' = fd
        BY <1>0, <3>1 DEF Fill, LocksProtect
      <4> QED
        BY <2>3, <4>1
    <3>2. CASE ~Fill(q)
      <4>1. at[q] \in {"sync", "rollback"} /\ fd'[q] = fd[q]
        <5>1. CASE UNCHANGED bearerVars
          BY <2>5, <5>1 DEF bearerVars
        <5>2. CASE OperatorDeletes \/ OperatorPuts
          BY <2>5, <5>2 DEF OperatorDeletes, OperatorPuts
        <5>3. ASSUME NEW r \in Proc, StartBearer(r) \/ SettleStep(r) \/ Kill(r)
              PROVE  at[q] \in {"sync", "rollback"} /\ fd'[q] = fd[q]
          <6>1. CASE r = q
            BY <1>0, <2>5, <3>2, <5>3, <6>1 DEF BearerTypeOK, StartBearer, SettleStep, Kill, OpenMissing, OpenToRead,
              LockShared, ReadFirst, ReadBlank, ReadFound, WriteDraft, LinkDraft, LinkLoses, UnlinkDraft, OpenToWrite,
              GoneBeforeWrite, LockExclusive, StillNamed, Replaced, FilledMeanwhile, StillBlank, FillSynced,
              FillFails, Rollback, BearerError
          <6>2. CASE r # q
            BY <1>0, <2>5, <5>3, <6>2, OthersStay
          <6> QED
            BY <6>1, <6>2
        <5> QED
          BY <5>1, <5>2, <5>3 DEF BearerNext
      <4> QED
        BY <2>3, <4>1
    <3> QED
      BY <3>1, <3>2
  <2> QED
    BY <2>1, <2>3, <2>4, <2>5 DEF i
<1> QED
  BY <1>2, <1>3

LEMMA GivenStays == ASSUME BearerInv, Published, Given, [BearerNext]_bearerVars PROVE Given'
<1>0. BearerTypeOK /\ LocksProtect
  BY DEF BearerInv
<1>1. SUFFICES ASSUME NEW p \in Proc PROVE result'[p] # Blank <=> at'[p] = "done"
  BY DEF Given
<1>2. result[p] # Blank <=> at[p] = "done"
  BY DEF Given
<1>3. CASE UNCHANGED bearerVars
  BY <1>2, <1>3 DEF bearerVars
<1>4. CASE OperatorDeletes \/ OperatorPuts
  BY <1>2, <1>4 DEF OperatorDeletes, OperatorPuts
<1>5. ASSUME NEW r \in Proc, StartBearer(r) \/ SettleStep(r) \/ Kill(r), r # p
      PROVE  result'[p] = result[p] /\ at'[p] = at[p]
  BY <1>0, <1>5, OthersStay
<1>6. CASE ReadFound(p)
  <2>1. at[p] = "readRest" /\ read[p] # Blank
    BY <1>0, <1>6 DEF ReadFound, LocksProtect
  <2> QED
    BY <1>0, <1>6, <2>1 DEF ReadFound, BearerTypeOK
<1>7. CASE UnlinkDraft(p)
  BY <1>0, <1>7 DEF UnlinkDraft, Published, BearerTypeOK
<1>8. CASE FilledMeanwhile(p)
  BY <1>0, <1>8 DEF FilledMeanwhile, BearerTypeOK
<1>9. CASE FillSynced(p)
  BY <1>0, <1>9 DEF FillSynced, LocksProtect, BearerTypeOK
<1>10. CASE /\ StartBearer(p) \/ SettleStep(p) \/ Kill(p)
            /\ ~(ReadFound(p) \/ UnlinkDraft(p) \/ FilledMeanwhile(p) \/ FillSynced(p))
  BY <1>0, <1>2, <1>10 DEF BearerTypeOK, StartBearer, SettleStep, Kill, Settled, OpenMissing, OpenToRead,
    LockShared, ReadFirst, ReadBlank, WriteDraft, LinkDraft, LinkLoses, OpenToWrite,
    GoneBeforeWrite, LockExclusive, StillNamed, Replaced, StillBlank, Fill,
    FillFails, Rollback, BearerError
<1> QED
  BY <1>2, <1>3, <1>4, <1>5, <1>6, <1>7, <1>8, <1>9, <1>10 DEF BearerNext

--------------------------------------------------------------------------------
\* A step that leaves the path, its content and what was returned as they are.
LEMMA NothingIsSeen ==
  ASSUME named' = named, content' = content, result' = result, touched' = touched
  PROVE  UNCHANGED agreement
BY DEF agreement, There

\* What a process returns is what there is, unless the operator came.
LEMMA AnswerIsAgreed ==
  ASSUME BearerInv, BearerInv', Given, Given', NEW p \in Proc,
         at[p] # "done", Return(p, result'[p]), UNCHANGED fileVars, touched' = touched
  PROVE  Agreed!Next
<1> DEFINE b == result'[p]
<1>1. at[p] # "done" /\ at'[p] = "done" /\ result' = [result EXCEPT ![p] = b] /\ named' = named /\ content' = content
  BY DEF BearerInv, BearerTypeOK
<1>2. result[p] = Blank /\ b # Blank /\ b \in 0 .. MaxFresh /\ MaxFresh \in Nat
  BY <1>1, FreshAssumption DEF Given, BearerInv, BearerTypeOK
<1>3. b \in Id
  BY <1>2
<1>4. ~touched[p] => b = There
  <2>1. ~touched'[p] => named' # 0 /\ result'[p] = content'[named']
    BY <1>1 DEF BearerInv, FoundIsFinal, Final
  <2> QED
    BY <1>1, <2>1 DEF There
<1>5. touched[p] \in BOOLEAN
  BY DEF BearerInv, BearerTypeOK
<1> HIDE DEF b
<1>6. There' = There
  BY <1>1 DEF There
<1>7. Agreed!Answer(p, b)
  BY <1>1, <1>2, <1>4, <1>5, <1>6 DEF Agreed!Answer, There
<1> QED
  BY <1>3, <1>7 DEF Agreed!Next

LEMMA StepIsAgreed ==
  ASSUME BearerInv, BearerInv', Published, Given, Given', [BearerNext]_bearerVars
  PROVE  [Agreed!Next]_agreement
<1>0. BearerTypeOK /\ InodesExist /\ LocksFit /\ LocksProtect /\ DraftsAreOwn /\ MaxFresh \in Nat
  BY FreshAssumption DEF BearerInv
<1>1. CASE UNCHANGED bearerVars
  BY <1>1, NothingIsSeen DEF bearerVars
<1>2. CASE OperatorDeletes
  <2>1. There' = Blank /\ touched' = [p \in Proc |-> TRUE] /\ result' = result
    BY <1>2 DEF OperatorDeletes, There
  <2> QED
    BY <2>1 DEF Agreed!Next, Agreed!Operator, There
<1>3. CASE OperatorPuts
  <2>1. fresh + 1 \in Id /\ named' = fresh + 1 /\ touched' = [p \in Proc |-> TRUE] /\ result' = result
    BY <1>0, <1>3 DEF OperatorPuts, BearerTypeOK
  <2>2. There' \in Id \cup {Blank}
    BY <1>0, <1>3, <2>1 DEF OperatorPuts, BearerTypeOK, There
  <2> QED
    BY <2>1, <2>2 DEF Agreed!Next, Agreed!Operator, There
<1>4. ASSUME NEW p \in Proc, OpenMissing(p) \/ OpenToRead(p) PROVE Agreed!Next
  <2>1. at[p] = "open" /\ named' = named /\ content' = content /\ result' = result /\ touched' = [touched EXCEPT ![p] = FALSE]
    BY <1>4 DEF OpenMissing, OpenToRead
  <2>2. result[p] = Blank /\ There' = There
    BY <2>1 DEF Given, There
  <2>3. Agreed!Attempt(p)
    BY <2>1, <2>2 DEF Agreed!Attempt, There
  <2> QED
    BY <2>3 DEF Agreed!Next
<1>5. ASSUME NEW p \in Proc, ReadFound(p) \/ UnlinkDraft(p) \/ FilledMeanwhile(p) \/ FillSynced(p) PROVE Agreed!Next
  <2>1. at[p] # "done" /\ UNCHANGED fileVars /\ touched' = touched
    BY <1>5 DEF ReadFound, UnlinkDraft, FilledMeanwhile, FillSynced
  <2>2. Return(p, result'[p])
    BY <1>0, <1>5 DEF ReadFound, UnlinkDraft, FilledMeanwhile, FillSynced, BearerTypeOK
  <2> QED
    BY <2>1, <2>2, AnswerIsAgreed
<1>6. ASSUME NEW p \in Proc, WriteDraft(p) PROVE UNCHANGED agreement
  <2>1. named' = named /\ result' = result /\ touched' = touched /\ content' = [content EXCEPT ![fresh + 1] = fresh + 1]
    BY <1>6 DEF WriteDraft
  <2>2. named # fresh + 1
    BY <1>0 DEF InodesExist, BearerTypeOK
  <2>3. named # 0 => content'[named] = content[named]
    BY <1>0, <2>1, <2>2 DEF BearerTypeOK
  <2> QED
    BY <2>1, <2>3 DEF agreement, There
<1>7. ASSUME NEW p \in Proc, LinkDraft(p) PROVE Agreed!Next
  <2>1. named = 0 /\ named' = draft[p] /\ content' = content /\ result' = result /\ touched' = touched /\ at[p] = "link"
    BY <1>7 DEF LinkDraft
  <2>2. draft[p] \in Id /\ content[draft[p]] \in Id
    BY <1>0, <2>1 DEF DraftsAreOwn, BearerTypeOK
  <2>3. There = Blank /\ There' \in Id
    BY <2>1, <2>2 DEF There
  <2> QED
    BY <2>1, <2>3 DEF Agreed!Next, Agreed!Generate, There
<1>8. ASSUME NEW p \in Proc, Fill(p) PROVE Agreed!Next \/ UNCHANGED agreement
  <2>1. /\ named' = named /\ result' = result /\ touched' = touched /\ at[p] = "fill"
        /\ content' = [content EXCEPT ![fd[p]] = fresh + 1] /\ fresh + 1 \in Id
    BY <1>0, <1>8 DEF Fill, BearerTypeOK
  <2>2. content[fd[p]] = Blank /\ fd[p] \in Id
    BY <1>0, <2>1 DEF LocksProtect, LocksFit, Opened, Filling, BearerTypeOK
  <2>3. CASE named = fd[p]
    <3>1. There = Blank /\ There' \in Id
      BY <1>0, <2>1, <2>2, <2>3 DEF There, BearerTypeOK
    <3> QED
      BY <2>1, <3>1 DEF Agreed!Next, Agreed!Generate, There
  <2>4. CASE named # fd[p]
    <3>1. named # 0 => content'[named] = content[named]
      BY <1>0, <2>1, <2>4 DEF BearerTypeOK
    <3> QED
      BY <2>1, <3>1 DEF agreement, There
  <2> QED
    BY <2>3, <2>4
<1>9. ASSUME NEW p \in Proc, Rollback(p) PROVE Agreed!Next \/ UNCHANGED agreement
  <2>1. /\ named' = named /\ result' = result /\ touched' = touched /\ at[p] = "rollback"
        /\ \E left \in {Blank, content[fd[p]]} : content' = [content EXCEPT ![fd[p]] = left]
    BY <1>9 DEF Rollback
  <2>2. fd[p] \in Id
    BY <1>0, <2>1 DEF LocksFit, Opened, Filling, BearerTypeOK
  <2>3. CASE named = fd[p]
    <3>1. named # 0 /\ There' \in {Blank, There}
      BY <1>0, <2>1, <2>2, <2>3 DEF There, BearerTypeOK
    <3>2. ASSUME NEW q \in Proc, result[q] # Blank PROVE touched[q]
      <4>1. at[q] = "done"
        BY <3>2 DEF Given
      <4>2. ~touched[q] => Final
        BY <4>1 DEF BearerInv, FoundIsFinal
      <4>3. touched[q] \in BOOLEAN
        BY <1>0 DEF BearerTypeOK
      <4> QED
        BY <2>1, <2>3, <4>2, <4>3 DEF Final
    <3>3. CASE There' = Blank
      BY <2>1, <3>2, <3>3 DEF Agreed!Next, Agreed!Withdraw, There
    <3>4. CASE There' = There
      BY <2>1, <3>4 DEF agreement
    <3> QED
      BY <3>1, <3>3, <3>4
  <2>4. CASE named # fd[p]
    <3>1. named # 0 => content'[named] = content[named]
      BY <1>0, <2>1, <2>4 DEF BearerTypeOK
    <3> QED
      BY <2>1, <3>1 DEF agreement, There
  <2> QED
    BY <2>3, <2>4
<1>10. ASSUME NEW p \in Proc,
              \/ StartBearer(p) \/ LockShared(p) \/ ReadFirst(p) \/ ReadBlank(p) \/ LinkLoses(p)
              \/ OpenToWrite(p) \/ GoneBeforeWrite(p) \/ LockExclusive(p) \/ StillNamed(p) \/ Replaced(p)
              \/ StillBlank(p) \/ FillFails(p) \/ BearerError(p) \/ Kill(p)
       PROVE  UNCHANGED agreement
  <2>1. named' = named /\ content' = content /\ result' = result /\ touched' = touched
    BY <1>10 DEF StartBearer, LockShared, ReadFirst, ReadBlank, LinkLoses, OpenToWrite, GoneBeforeWrite,
      LockExclusive, StillNamed, Replaced, StillBlank, FillFails, BearerError, Kill
  <2> QED
    BY <2>1, NothingIsSeen
<1> QED
  BY <1>1, <1>2, <1>3, <1>4, <1>5, <1>6, <1>7, <1>8, <1>9, <1>10 DEF BearerNext, SettleStep

(***************************************************************************)
(* settle_bearer implements its promise, for any number of processes:      *)
(* there is one bearer, made once by the link or by the fill, taken back   *)
(* only while nobody has it, and each caller is given the one there is.    *)
(***************************************************************************)
THEOREM TheBearerIsOne == BearerSpec => ImplementsAgreement
<1>1. BearerInit => Published /\ Given /\ Agreed!Init
  BY DEF BearerInit, Published, Given, Agreed!Init
<1>2. BearerSpec => []Published
  BY <1>1, BearerIsSafe, PublishedStays, PTL DEF BearerSpec
<1>3. BearerSpec => []Given
  BY <1>1, <1>2, BearerIsSafe, GivenStays, PTL DEF BearerSpec
<1>4. BearerSpec => Agreed!Init /\ [][Agreed!Next]_agreement
  BY <1>1, <1>2, <1>3, BearerIsSafe, StepIsAgreed, PTL DEF BearerSpec
<1> QED
  BY <1>4, PTL DEF ImplementsAgreement, Agreed!Spec, agreement, There

--------------------------------------------------------------------------------
(***************************************************************************)
(* login, for any lifetimes, intervals and delays, scopes and error bodies. *)
(***************************************************************************)
\* The interval asked for, as far as the loop goes along with it.
Asked == IF told > MaxInterval THEN MaxInterval ELSE told

Results == {"error", "expired", "refused", "interrupted"}

\* A sleep ends an interval after the poll before it, at the earliest.
PaceInv ==
  /\ clock \in Nat /\ lastPoll \in Nat /\ interval \in Nat /\ told \in Nat
  /\ lastPoll <= clock /\ Asked <= interval
  /\ step = "awake" => lastPoll + interval <= clock

\* What token.json is once it was saved.
VettedFile ==
  /\ tokenFile \in {"ReadOnly", "ReadWrite"}
  /\ Choice = "Read" => tokenFile = "ReadOnly"
  /\ answered.scope # NoScope => answered.scope \cap AllScopes = {}

\* Only the report comes after the save, or an interrupt instead of it.
SaveInv ==
  /\ step \notin {"report", "ended"} => tokenFile = "before" /\ loginResult = "none"
  /\ step = "report" => VettedFile /\ loginResult = "none"
  /\ step = "ended" => \/ tokenFile = "before" /\ loginResult \in Results
                       \/ VettedFile /\ loginResult \in {"saved", "interrupted"}

--------------------------------------------------------------------------------
\* The loop's clamps keep the interval at what is asked for, or at the limit.
LEMMA ClampKeepsUp ==
  ASSUME NEW n \in Nat
  PROVE  Clamp(n) \in Nat /\ (IF n > MaxInterval THEN MaxInterval ELSE n) <= Clamp(n)
BY IntervalAssumption DEF Clamp

\* The first interval and the first deadline come with the code.
LEMMA AuthorizationKeepsPace == ASSUME PaceInv, DeviceAuthorization PROVE PaceInv'
<1>1. PICK offer \in Offers : interval' = Clamp(offer.interval) /\ told' = offer.interval
  BY DEF DeviceAuthorization
<1>2. offer.interval \in Nat
  BY OffersAssumption
<1>3. interval' \in Nat /\ told' \in Nat /\ Asked' <= interval'
  BY <1>1, <1>2, ClampKeepsUp DEF Asked
<1>4. step' # "awake" /\ clock' = clock /\ lastPoll' = lastPoll
  BY DEF DeviceAuthorization, LoginAt
<1> QED
  BY <1>3, <1>4 DEF PaceInv

\* A sleep is never shorter than it should be.
LEMMA SleepKeepsPace == ASSUME PaceInv, Sleep PROVE PaceInv'
<1>1. PICK late \in Delays : clock' = clock + interval + late
  BY DEF Sleep
<1>2. late \in Nat
  BY DelaysAssumption
<1>3. clock' \in Nat /\ lastPoll + interval <= clock' /\ lastPoll <= clock'
  BY <1>1, <1>2 DEF PaceInv
<1> QED
  BY <1>3 DEF Sleep, LoginAt, PaceInv, Asked

\* A poll only takes time.
LEMMA PollTakesTime == ASSUME PaceInv, PollTakes PROVE clock' \in Nat /\ clock <= clock'
BY DelaysAssumption DEF PollTakes, PaceInv

\* A slow_down is heeded, up to the limit.
LEMMA SlowDownKeepsPace == ASSUME PaceInv, SlowDown PROVE PaceInv'
<1>1. clock' \in Nat /\ clock <= clock'
  BY PollTakesTime DEF SlowDown
<1>2. interval' \in Nat /\ told' \in Nat /\ Asked' <= interval'
  BY IntervalAssumption DEF SlowDown, PaceInv, Asked
<1> QED
  BY <1>1, <1>2 DEF SlowDown, LoginAt, PaceInv

\* The other answers to a poll leave the interval alone.
LEMMA AnswersKeepPace ==
  ASSUME PaceInv, Pending \/ Temporary \/ PollFails \/ Success
  PROVE  PaceInv'
<1>1. clock' \in Nat /\ clock <= clock'
  BY PollTakesTime DEF Pending, Temporary, PollFails, Success
<1>2. step' # "awake" /\ UNCHANGED <<interval, told, lastPoll>>
  BY DEF Pending, Temporary, PollFails, Success, LoginAt, EndLogin
<1> QED
  BY <1>1, <1>2 DEF PaceInv, Asked

\* So does everything else.
LEMMA OthersKeepPace ==
  ASSUME PaceInv,
         \/ AuthorizationFails \/ CodeExpired \/ Poll \/ Save \/ ReportSaved \/ SaveFails
         \/ GrantRefused \/ Interrupted \/ UNCHANGED loginVars
  PROVE  PaceInv'
BY DEF PaceInv, Asked, AuthorizationFails, CodeExpired, Poll, Save, ReportSaved, SaveFails,
       GrantRefused, Interrupted, LoginAt, EndLogin, loginVars

\* The pace is kept.
LEMMA LoginKeepsPace == LoginSpec => []PaceInv
<1>1. LoginInit => PaceInv
  BY IntervalAssumption DEF LoginInit, PaceInv, Asked
<1>2. PaceInv /\ [LoginNext]_loginVars => PaceInv'
  BY AuthorizationKeepsPace, SleepKeepsPace, SlowDownKeepsPace, AnswersKeepPace, OthersKeepPace
     DEF LoginNext, LoginStep
<1> QED
  BY <1>1, <1>2, PTL DEF LoginSpec

(***************************************************************************)
(* device_code::login: two polls of a code are never nearer to each other  *)
(* than Entra has asked for, up to MAX_INTERVAL, and none is sent for a    *)
(* code past its lifetime.                                                 *)
(***************************************************************************)
THEOREM PollsArePaced == LoginSpec => PollsKeepTheInterval
<1> DEFINE A == lastPoll' # lastPoll => /\ lastPoll' - lastPoll >= Asked
                                        /\ lastPoll' <= lifeEnds
<1>1. ASSUME PaceInv, [LoginNext]_loginVars PROVE [A]_loginVars
  <2>1. CASE Poll
    BY <1>1, <2>1, IntervalAssumption DEF Poll, LoginAt, PaceInv, Asked
  <2>2. CASE lastPoll' = lastPoll
    BY <2>2
  <2>3. LoginNext => Poll \/ lastPoll' = lastPoll
    BY DEF LoginNext, LoginStep, DeviceAuthorization, AuthorizationFails, Sleep, CodeExpired,
           Pending, SlowDown, Temporary, PollFails, Success, Save, ReportSaved, SaveFails,
           GrantRefused, Interrupted
  <2>4. UNCHANGED loginVars => lastPoll' = lastPoll
    BY DEF loginVars
  <2> QED
    BY <1>1, <2>1, <2>2, <2>3, <2>4
<1>2. PollsKeepTheInterval <=> [][A]_loginVars
  BY DEF PollsKeepTheInterval, Asked
<1> QED
  BY <1>1, <1>2, LoginKeepsPace, PTL DEF LoginSpec

--------------------------------------------------------------------------------
\* What vet_grant lets pass is one of two grants, no more than was asked
\* for, of a scope with no .All name in it.
LEMMA VetGrantIsStrict ==
  ASSUME NEW granted, NEW requested, VetGrant(granted, requested) \notin Refusals
  PROVE  /\ VetGrant(granted, requested) \in {"ReadOnly", "ReadWrite"}
         /\ GrantFromScope(requested) = "ReadOnly" => VetGrant(granted, requested) = "ReadOnly"
         /\ granted \cap AllScopes = {}
<1> DEFINE grant == CappedAt(GrantFromScope(granted), GrantFromScope(requested))
<1>1. /\ grant \in {"None", "ReadOnly", "ReadWrite"}
      /\ GrantFromScope(requested) = "ReadOnly" => grant # "ReadWrite"
  BY DEF CappedAt, GrantFromScope
<1>2. granted \cap AllScopes = {}
  BY DEF VetGrant, Forbidden, Refusals
<1>3. VetGrant(granted, requested) = IF grant = "None" THEN "noTasks" ELSE grant
  BY <1>2 DEF VetGrant, Forbidden
<1> HIDE DEF grant
<1> QED
  BY <1>1, <1>2, <1>3 DEF Refusals

\* An operator who asks for Read asks for no more.
LEMMA ReadIsReadOnly == Choice = "Read" => GrantFromScope(Requested(Choice)) = "ReadOnly"
BY DEF GrantFromScope, ScopeGranted, Requested, ReadScope, WriteScope

\* What is saved was vetted.
LEMMA SaveIsVetted == ASSUME SaveInv, Save PROVE SaveInv'
<1>1. /\ Vetted \notin Refusals /\ tokenFile' = Vetted /\ answered' = answered
      /\ step = "vet" /\ step' = "report" /\ loginResult' = loginResult
  BY DEF Save, LoginAt
<1>2. /\ Vetted \in {"ReadOnly", "ReadWrite"}
      /\ Choice = "Read" => Vetted = "ReadOnly"
      /\ EffectiveScope \cap AllScopes = {}
  BY <1>1, VetGrantIsStrict, ReadIsReadOnly DEF Vetted
<1>3. answered.scope # NoScope => answered.scope \cap AllScopes = {}
  BY <1>2 DEF EffectiveScope
<1>4. VettedFile'
  BY <1>1, <1>2, <1>3 DEF VettedFile
<1> QED
  BY <1>1, <1>4 DEF SaveInv

\* After the save the command ends, reported or interrupted, with the file in place.
LEMMA SavedStaysSaved ==
  ASSUME SaveInv, step = "report", ReportSaved \/ Interrupted
  PROVE  SaveInv'
<1>1. /\ step' = "ended" /\ loginResult' \in {"saved", "interrupted"}
      /\ UNCHANGED <<tokenFile, answered>>
  BY DEF ReportSaved, Interrupted, EndLogin
<1>2. VettedFile'
  BY <1>1 DEF SaveInv, VettedFile
<1> QED
  BY <1>1, <1>2 DEF SaveInv

\* Everything before the save, and every other end, leaves token.json alone.
LEMMA OthersSaveNothing ==
  ASSUME SaveInv, step # "report",
         \/ DeviceAuthorization \/ AuthorizationFails \/ Sleep \/ CodeExpired \/ Poll
         \/ Pending \/ SlowDown \/ Temporary \/ PollFails \/ Success \/ SaveFails
         \/ GrantRefused \/ Interrupted
  PROVE  SaveInv'
<1>1. step # "ended" /\ tokenFile' = tokenFile
  BY DEF DeviceAuthorization, AuthorizationFails, Sleep, CodeExpired, Poll, Pending, SlowDown,
         Temporary, PollFails, Success, SaveFails, GrantRefused, Interrupted, LoginAt,
         LoginEnded
<1>2. \/ step' \notin {"report", "ended"} /\ loginResult' = loginResult
      \/ step' = "ended" /\ loginResult' \in Results
  BY DEF DeviceAuthorization, AuthorizationFails, Sleep, CodeExpired, Poll, Pending, SlowDown,
         Temporary, PollFails, Success, SaveFails, GrantRefused, Interrupted, LoginAt, EndLogin,
         Results
<1> QED
  BY <1>1, <1>2 DEF SaveInv

(***************************************************************************)
(* finish_login: a login that was refused, expired or failed leaves        *)
(* token.json as it was, one that is reported as saved is there, and what  *)
(* is there, even after an interrupt, carries a grant the operator asked   *)
(* for and no .All scope.                                                  *)
(***************************************************************************)
THEOREM SavedLoginsAreVetted == LoginSpec => []OnlyVettedLoginsAreSaved
<1>1. LoginInit => SaveInv
  BY DEF LoginInit, SaveInv
<1>2. SaveInv /\ UNCHANGED loginVars => SaveInv'
  BY DEF SaveInv, VettedFile, loginVars
<1>3. SaveInv /\ [LoginNext]_loginVars => SaveInv'
  <2> SUFFICES ASSUME SaveInv, [LoginNext]_loginVars PROVE SaveInv'
    OBVIOUS
  <2>1. CASE step = "report"
    <3>1. ReportSaved \/ Interrupted \/ UNCHANGED loginVars
      BY <2>1 DEF LoginNext, LoginStep, DeviceAuthorization, AuthorizationFails, Sleep, CodeExpired,
        Poll, Pending, SlowDown, Temporary, PollFails, Success, Save, SaveFails, GrantRefused, LoginAt
    <3> QED
      BY <1>2, <2>1, <3>1, SavedStaysSaved
  <2>2. CASE step # "report"
    <3>1. ~ReportSaved
      BY <2>2 DEF ReportSaved
    <3> QED
      BY <1>2, <2>2, <3>1, SaveIsVetted, OthersSaveNothing DEF LoginNext, LoginStep
  <2> QED
    BY <2>1, <2>2
<1>4. SaveInv => OnlyVettedLoginsAreSaved
  BY DEF SaveInv, VettedFile, OnlyVettedLoginsAreSaved, Results
<1> QED
  BY <1>1, <1>3, <1>4, PTL DEF LoginSpec

--------------------------------------------------------------------------------
(***************************************************************************)
(* doctor and the start of serve, for any machine and any token.json.      *)
(***************************************************************************)
IsFile(file) == file \in {Absent, Corrupt} \/ file.kind = "file"

\* As long as nothing is found, what the sections so far looked at is well.
StartInv ==
  /\ section \in {"none", "configuration", "directory", "store", "graph", "done"}
  /\ section # "none" => machine \in Machines
  /\ IsFile(tokenJson)
  /\ \A c \in DOMAIN reported : reported[c] \in Nat
  /\ section \in {"directory", "store", "graph", "done"} /\ Findings = {} =>
       machine.rejected = {} /\ machine.client # "none"
  /\ section \in {"store", "graph", "done"} /\ Findings = {} =>
       machine.dir # "unusable" /\ machine.bearer \notin {"notRegular", "dangling"}
  /\ section = "graph" /\ Findings = {} /\ ~disturbed =>
       loaded = tokenJson /\ RefreshRuns(loaded) /\ tokenJson # Absent /\ tokenJson # Corrupt
  /\ section = "done" /\ Findings = {} /\ ~disturbed => HasToken(TokenOutcome(tokenJson))

\* A cause that is reported is a finding, and none is ever taken back.
LEMMA ReportFinds ==
  ASSUME NEW causes, Report(causes), \A c \in DOMAIN reported : reported[c] \in Nat
  PROVE  /\ \A c \in DOMAIN reported' : reported'[c] \in Nat
         /\ Findings' = Findings \cup causes
<1>1. /\ DOMAIN reported' = DOMAIN reported \cup causes
      /\ \A c \in DOMAIN reported' :
           reported'[c] = (IF c \in DOMAIN reported THEN reported[c] ELSE 0) + (IF c \in causes THEN 1 ELSE 0)
  BY DEF Report
<1>2. \A c \in DOMAIN reported' : reported'[c] \in Nat /\ (reported'[c] > 0 <=> c \in Findings \cup causes)
  BY <1>1 DEF Findings
<1>3. Findings \cup causes \subseteq DOMAIN reported'
  BY <1>1 DEF Findings
<1> QED
  BY <1>2, <1>3 DEF Findings

\* What the sections look at stays as it is.
LEMMA StartFrame ==
  UNCHANGED machine =>
    \A file : (TokenOutcome(file)' = TokenOutcome(file)) /\ (RefreshRuns(file)' <=> RefreshRuns(file))
BY DEF TokenOutcome, RefreshRuns, ClientId, RequestedScope, ScopeChoice, IsRejected, VetGrant

LEMMA ConfigurationKeepsStartInv == ASSUME StartInv, ReportConfiguration PROVE StartInv'
<1> DEFINE causes == machine.rejected \cup If(~IsRejected("CLIENT_ID") /\ machine.client = "none", "clientUnset")
                     \cup If(~IsRejected("TZ") /\ ~machine.tz, "tzUnset")
<1>1. /\ section = "configuration" /\ section' = "directory" /\ Report(causes)
      /\ UNCHANGED <<machine, tokenJson>>
  BY DEF ReportConfiguration, Section
<1>2. causes = {} => machine.rejected = {} /\ machine.client # "none"
  BY DEF If, IsRejected
<1> HIDE DEF causes
<1>3. Findings' = Findings \cup causes /\ \A c \in DOMAIN reported' : reported'[c] \in Nat
  BY <1>1, ReportFinds DEF StartInv
<1> QED
  BY <1>1, <1>2, <1>3 DEF StartInv, IsFile

LEMMA DirectoryKeepsStartInv == ASSUME StartInv, ReportDirectory PROVE StartInv'
<1> DEFINE causes == IF IsRejected("DATA_DIR") THEN {}
                     ELSE If(machine.dir = "unusable", "dirUnusable") \cup If(machine.dir = "loose", "dirLoose")
                          \cup If(machine.bearer \in {"notRegular", "dangling"}, "bearer")
<1>1. /\ section = "directory" /\ section' = "store" /\ Report(causes)
      /\ UNCHANGED <<machine, tokenJson>>
  BY DEF ReportDirectory, Section
<1>2. causes = {} /\ machine.rejected = {} =>
        machine.dir # "unusable" /\ machine.bearer \notin {"notRegular", "dangling"}
  BY DEF If, IsRejected
<1> HIDE DEF causes
<1>3. Findings' = Findings \cup causes /\ \A c \in DOMAIN reported' : reported'[c] \in Nat
  BY <1>1, ReportFinds DEF StartInv
<1> QED
  BY <1>1, <1>2, <1>3 DEF StartInv, IsFile

\* A token.json in which nothing is found is one that the refresh runs on.
LEMMA StoreKeepsStartInv == ASSUME StartInv, ReportStore PROVE StartInv'
<1>1. section = "store" /\ section' = "graph" /\ UNCHANGED <<machine, tokenJson, disturbed>>
  BY DEF ReportStore, Section
<1>2. CASE IsRejected("DATA_DIR")
  <2>1. UNCHANGED reported /\ machine.rejected # {}
    BY <1>2 DEF ReportStore, IsRejected
  <2>2. Findings' = Findings
    BY <2>1 DEF Findings
  <2> QED
    BY <1>1, <2>1, <2>2 DEF StartInv, IsFile
<1>3. CASE ~IsRejected("DATA_DIR")
  <2>1. loaded' = tokenJson /\ Report(StoreCauses(tokenJson))
    BY <1>3 DEF ReportStore
  <2>2. Findings' = Findings \cup StoreCauses(tokenJson) /\ \A c \in DOMAIN reported' : reported'[c] \in Nat
    BY <2>1, ReportFinds DEF StartInv
  <2>3. ASSUME StoreCauses(tokenJson) = {}, machine.rejected = {}, machine.client # "none"
        PROVE  RefreshRuns(tokenJson) /\ tokenJson # Absent /\ tokenJson # Corrupt
    <3>1. tokenJson # Absent /\ tokenJson # Corrupt
      BY <2>3 DEF StoreCauses
    <3>2. tokenJson.kind = "file"
      BY <3>1 DEF StartInv, IsFile
    <3>3. ClientId = machine.client /\ ~IsRejected("SCOPE")
      BY <2>3 DEF ClientId, IsRejected
    <3>4. tokenJson.client = ClientId /\ tokenJson.requested = RequestedScope
      BY <2>3, <3>1, <3>3 DEF StoreCauses, If
    <3> QED
      BY <2>3, <3>1, <3>2, <3>3, <3>4 DEF RefreshRuns
  <2>4. RefreshRuns(loaded)' <=> RefreshRuns(tokenJson)
    BY <1>1, <2>1 DEF RefreshRuns, ClientId, RequestedScope, ScopeChoice, IsRejected
  <2> QED
    BY <1>1, <2>1, <2>2, <2>3, <2>4 DEF StartInv, IsFile
<1> QED
  BY <1>2, <1>3

\* The refresh leaves a token.json that a server starts on, or a finding.
LEMMA GraphKeepsStartInv == ASSUME StartInv, ReportGraph PROVE StartInv'
<1> DEFINE outcome == TokenOutcome(tokenJson)
           causes  == IF HasToken(outcome) THEN If(~machine.graphUp, "graph") ELSE {outcome}
<1>1. /\ section = "graph" /\ section' = "done" /\ Report(causes)
      /\ tokenJson' = TokenLeaves(tokenJson) /\ UNCHANGED <<machine, disturbed>>
  BY DEF ReportGraph, Section
<1>2. Findings' = Findings \cup causes /\ \A c \in DOMAIN reported' : reported'[c] \in Nat
  BY <1>1, ReportFinds DEF StartInv
<1>3. causes = {} => HasToken(outcome)
  OBVIOUS
<1>4. IsFile(tokenJson)'
  <2>1. tokenJson' \in {Absent, tokenJson} \/ tokenJson'.kind = "file"
    BY <1>1 DEF TokenLeaves, FileOf
  <2> QED
    BY <2>1 DEF StartInv, IsFile
<1>5. HasToken(outcome) => HasToken(TokenOutcome(tokenJson))'
  <2> SUFFICES ASSUME HasToken(outcome) PROVE TokenOutcome(tokenJson)' = outcome
    BY DEF HasToken
  <2>1. tokenJson' = FileOf(tokenJson.client, tokenJson.requested, machine.entra.scope, TRUE)
    BY <1>1 DEF TokenLeaves
  <2>2. tokenJson # Absent /\ tokenJson # Corrupt
    BY DEF HasToken, TokenOutcome
  <2>3. /\ tokenJson' # Absent /\ tokenJson' # Corrupt
        /\ tokenJson'.client = tokenJson.client /\ tokenJson'.requested = tokenJson.requested
    BY <2>1 DEF FileOf, Absent, Corrupt
  <2>4. ClientId' = ClientId /\ RequestedScope' = RequestedScope /\ machine' = machine
    BY <1>1 DEF ClientId, RequestedScope, ScopeChoice, IsRejected
  <2> QED
    BY <2>2, <2>3, <2>4 DEF TokenOutcome
<1> HIDE DEF outcome, causes
<1> QED
  BY <1>1, <1>2, <1>3, <1>4, <1>5 DEF StartInv

LEMMA StartStep == StartInv /\ [StartNext]_startVars => StartInv'
<1> SUFFICES ASSUME StartInv, [StartNext]_startVars PROVE StartInv'
  OBVIOUS
<1>1. CASE RunDoctor
  <2>1. section' = "configuration" /\ machine' \in Machines /\ tokenJson' \in Files /\ UNCHANGED reported
    BY <1>1 DEF RunDoctor, Section
  <2> QED
    BY <2>1, FilesAssumption DEF StartInv, IsFile
<1>2. CASE SkipGraph
  <2>1. /\ section = "graph" /\ section' = "done" /\ ~RefreshRuns(loaded)
        /\ UNCHANGED <<machine, tokenJson, reported, disturbed>>
    BY <1>2 DEF SkipGraph, Section
  <2>2. Findings' = Findings
    BY <2>1 DEF Findings
  <2> QED
    BY <2>1, <2>2 DEF StartInv, IsFile
<1>3. CASE FileChanges
  <2>1. disturbed' /\ tokenJson' \in Files /\ UNCHANGED <<section, machine, reported>>
    BY <1>3 DEF FileChanges
  <2>2. Findings' = Findings
    BY <2>1 DEF Findings
  <2> QED
    BY <2>1, <2>2, FilesAssumption DEF StartInv, IsFile
<1>4. CASE UNCHANGED startVars
  <2>1. UNCHANGED <<section, machine, tokenJson, loaded, reported, disturbed>>
    BY <1>4 DEF startVars
  <2>2. Findings' = Findings
    BY <2>1 DEF Findings
  <2>3. (RefreshRuns(loaded)' <=> RefreshRuns(loaded)) /\ TokenOutcome(tokenJson)' = TokenOutcome(tokenJson)
    BY <2>1, StartFrame
  <2> QED
    BY <2>1, <2>2, <2>3 DEF StartInv, IsFile
<1> QED
  BY <1>1, <1>2, <1>3, <1>4, ConfigurationKeepsStartInv, DirectoryKeepsStartInv, StoreKeepsStartInv,
     GraphKeepsStartInv DEF StartNext

(***************************************************************************)
(* Where doctor finds nothing, serve starts, on any machine, with any      *)
(* token.json and any answer of Entra, as far as the bearer file and the   *)
(* address let it, which doctor does not try (cli/commands.rs).            *)
(***************************************************************************)
THEOREM CleanReportsHold == StartSpec => []CleanReportMeansServeStarts
<1>1. StartInit => StartInv
  BY DEF StartInit, StartInv, IsFile
<1>2. StartInv => CleanReportMeansServeStarts
  <2> SUFFICES ASSUME StartInv, section = "done", Findings = {}, ~disturbed, NEW follow \in BOOLEAN
               PROVE  ServeExit(follow, tokenJson) =
                        IF machine.bearer \in BearerUntried THEN "2" ELSE IF Listens THEN "serving" ELSE "1"
    BY DEF CleanReportMeansServeStarts
  <2>1. ServeIssues = {}
    BY DEF StartInv, ServeIssues, ClientId, IsRejected
  <2>2. machine.dir # "unusable" /\ BootsOn(TokenOutcome(tokenJson), follow)
    BY DEF StartInv, BootsOn
  <2>3. BearerSettled <=> machine.bearer \notin BearerUntried
    BY MachinesAssumption DEF StartInv, BearerSettled, BearerUntried, BearerStates
  <2> QED
    BY <2>1, <2>2, <2>3 DEF ServeExit
<1> QED
  BY <1>1, <1>2, StartStep, PTL DEF StartSpec

--------------------------------------------------------------------------------
(***************************************************************************)
(* The drain of the worker pool, for any workers, signals and respawns.    *)
(***************************************************************************)
Working == {"loop", "recv", "busy"}

\* A worker the drain has come past has ended, or somebody is unfinished;
\* and the process stops when it has come past all of them.
DrainInv ==
  /\ worker \in [Slot -> Working \cup {"gone", "none"}]
  /\ unfinished \in Nat
  /\ phase = "drain" =>
       \A w \in Slot : worker[w] \in Working => w \in unseen \/ unfinished > 0
  /\ exit = "stopped" => phase = "drain" /\ unseen = {}

--------------------------------------------------------------------------------
\* Signal handlers touch neither the workers nor the drain.
LEMMA HandlersKeepDrain ==
  ASSUME DrainInv, NEW s \in Signal, ExitIfBooting(s) \/ HandlerStep(s)
  PROVE  DrainInv'
BY DEF DrainInv, ExitIfBooting, HandlerStep, ExitIfStopping, SetStopping, ExitIf, Up

\* The boot is not the drain.
LEMMA BootKeepsDrain ==
  ASSUME DrainInv, BearerReady \/ BootFails \/ BootEnds \/ PoolStarts \/ BindFails \/ Look
  PROVE  DrainInv'
BY DEF DrainInv, BearerReady, BootFails, BootEnds, PoolStarts, BindFails, Look, Supervising,
       Main, End, Up, Working

\* A worker goes on or ends; it never comes back.
LEMMA WorkersKeepDrain == ASSUME DrainInv, NEW v \in Slot, WorkerStep(v) PROVE DrainInv'
<1>1. PICK from \in Working, to \in Working \cup {"gone"} : Thread(v, from, to)
  BY DEF WorkerStep, Loop, Receive, Timeout, RecvFails, Served, Panic, Working
<1>2. /\ Up /\ worker[v] \in Working /\ worker' = [worker EXCEPT ![v] = to]
      /\ UNCHANGED <<phase, unseen, unfinished, exit>>
  BY <1>1 DEF Thread
<1> QED
  BY <1>2 DEF DrainInv, Up, Working

\* The supervisor is not the drain.
LEMMA SupervisorKeepsDrain ==
  ASSUME DrainInv, NEW v \in Slot, SeeAlive(v) \/ SeeEnded(v) \/ Respawn(v) \/ Collapse(v)
  PROVE  DrainInv'
BY DEF DrainInv, SeeAlive, SeeEnded, Respawn, Collapse, Supervising, End, Up, Working

\* The drain begins with every thread there is ahead of it.
LEMMA DrainBeginsSafely == ASSUME DrainInv, DrainBegins PROVE DrainInv'
BY DEF DrainInv, DrainBegins, Main, Up, Working

\* A thread that is joined has ended; one that is given up is counted.
LEMMA DrainIsSafe ==
  ASSUME DrainInv, NEW v \in Slot, Joined(v) \/ Abandoned(v)
  PROVE  DrainInv'
<1>1. CASE Joined(v)
  BY <1>1 DEF DrainInv, Joined, Draining, Up, Working
<1>2. CASE Abandoned(v)
  BY <1>2 DEF DrainInv, Abandoned, Draining, Up
<1> QED
  BY <1>1, <1>2

\* The drain ends, or its time passes.
LEMMA DrainEndsSafely == ASSUME DrainInv, Drained \/ DrainTimesOut PROVE DrainInv'
BY DEF DrainInv, Drained, DrainTimesOut, Draining, End, Up

\* Every step keeps the drain's books.
LEMMA PoolKeepsDrain == DrainInv /\ [PoolNext]_serveVars => DrainInv'
<1>1. DrainInv /\ UNCHANGED serveVars => DrainInv'
  BY DEF DrainInv, serveVars
<1>2. DrainInv /\ MainStep => DrainInv'
  BY BootKeepsDrain, SupervisorKeepsDrain, DrainBeginsSafely, DrainIsSafe, DrainEndsSafely
     DEF MainStep
<1> QED
  BY <1>1, <1>2, HandlersKeepDrain, BootKeepsDrain, WorkersKeepDrain, DrainEndsSafely
     DEF PoolNext, PoolStep

(***************************************************************************)
(* run_http: a process that stops with nothing unfinished has let every    *)
(* worker end by itself, and so every request that was taken is answered.  *)
(***************************************************************************)
THEOREM NothingIsDroppedSilently == PoolSpec => []DrainedIsAnswered
<1>1. ServeInit => DrainInv
  BY DEF ServeInit, DrainInv, Working
<1>2. DrainInv => DrainedIsAnswered
  BY DEF DrainInv, DrainedIsAnswered, Alive, Working
<1> QED
  BY <1>1, <1>2, PoolKeepsDrain, PTL DEF PoolSpec

--------------------------------------------------------------------------------
(***************************************************************************)
(* One HTTP request, for any messages.                                     *)
(***************************************************************************)
Messages == [id : Nat, kind : {"notObject", "notification", "notificationCall", "clientResponse",
                               "ping", "unknownMethod", "callNoName", "call"}]
Responses == [id : Nat, answer : Int]

\* The responses to the first n messages.
AnswersOf(of, n, answers) ==
  /\ Len(answers) = Cardinality(Answerable(of, n))
  /\ \A i \in Answerable(of, n) : answers[Cardinality(Answerable(of, i))].id = IdOf(of[i])

\* The first n messages have been handled, and the others have not.
Handled(n) ==
  /\ n = Len(request.body.of) - Len(messages)
  /\ n \in Nat
  /\ \A j \in 1 .. Len(messages) : messages[j] = request.body.of[n + j]

RequestInv ==
  /\ request = NoRequest \/ request \in Arrivals
  /\ request = NoRequest => reply = NoReply
  /\ request # NoRequest /\ reply = NoReply =>
       /\ ~panicked
       /\ messages \in Seq(Messages) /\ responses \in Seq(Responses)
       /\ \E n \in Nat : Handled(n) /\ AnswersOf(request.body.of, n, responses)
  /\ MessagesAreAnswered

--------------------------------------------------------------------------------
\* The messages of a request.
LEMMA BodyIsTyped ==
  ASSUME NEW r \in Arrivals
  PROVE  /\ r # NoRequest /\ r.body.of \in Seq(Messages) /\ Len(r.body.of) \in Nat
         /\ \A i \in 1 .. Len(r.body.of) : r.body.of[i] \in Messages
         /\ r.body.is = "single" => Len(r.body.of) = 1
<1>1. r.body.of \in Seq(Messages) /\ r # NoRequest
  BY ArrivalsAssumption DEF Messages, NoRequest
<1> QED
  BY <1>1, ArrivalsAssumption, LenProperties, ElementOfSeq

\* A message is counted if it can be answered.
LEMMA AnswerableCounts ==
  ASSUME NEW of, NEW n \in Nat
  PROVE  /\ IsFiniteSet(Answerable(of, n)) /\ Cardinality(Answerable(of, n)) \in Nat
         /\ of[n + 1].kind \in Silent =>
              Cardinality(Answerable(of, n + 1)) = Cardinality(Answerable(of, n))
         /\ of[n + 1].kind \notin Silent =>
              Cardinality(Answerable(of, n + 1)) = Cardinality(Answerable(of, n)) + 1
<1>1. \A m \in Nat : IsFiniteSet(Answerable(of, m)) /\ Cardinality(Answerable(of, m)) \in Nat
  <2> SUFFICES ASSUME NEW m \in Nat
               PROVE  IsFiniteSet(Answerable(of, m)) /\ Cardinality(Answerable(of, m)) \in Nat
    OBVIOUS
  <2>1. IsFiniteSet(1 .. m) /\ Answerable(of, m) \in SUBSET (1 .. m)
    BY FS_Interval DEF Answerable
  <2>2. IsFiniteSet(Answerable(of, m))
    BY <2>1, FS_Subset
  <2> QED
    BY <2>2, FS_CardinalityType
<1>2. CASE of[n + 1].kind \in Silent
  <2>1. Answerable(of, n + 1) = Answerable(of, n)
    BY <1>2 DEF Answerable
  <2> QED
    BY <1>1, <1>2, <2>1
<1>3. CASE of[n + 1].kind \notin Silent
  <2>1. Answerable(of, n + 1) = Answerable(of, n) \cup {n + 1} /\ n + 1 \notin Answerable(of, n)
    BY <1>3 DEF Answerable
  <2>2. Cardinality(Answerable(of, n) \cup {n + 1}) = Cardinality(Answerable(of, n)) + 1
    BY <1>1, <2>1, FS_AddElement
  <2> QED
    BY <1>1, <1>3, <2>1, <2>2
<1> QED
  BY <1>1, <1>2, <1>3

\* The place of an answer among the answers.
LEMMA PlaceOfAnswer ==
  ASSUME NEW of, NEW n \in Nat, NEW i \in Answerable(of, n)
  PROVE  i \in 1 .. n /\ Cardinality(Answerable(of, i)) \in 1 .. Cardinality(Answerable(of, n))
<1>1. i \in 1 .. n /\ i \in Answerable(of, i) /\ Answerable(of, i) \in SUBSET Answerable(of, n)
  BY DEF Answerable
<1>2. /\ IsFiniteSet(Answerable(of, i)) /\ Cardinality(Answerable(of, i)) \in Nat
      /\ IsFiniteSet(Answerable(of, n)) /\ Cardinality(Answerable(of, n)) \in Nat
  BY <1>1, AnswerableCounts
<1>3. Cardinality(Answerable(of, i)) # 0
  BY <1>1, <1>2, FS_EmptySet
<1>4. Cardinality(Answerable(of, i)) <= Cardinality(Answerable(of, n))
  BY <1>1, <1>2, FS_Subset
<1> QED
  BY <1>1, <1>2, <1>3, <1>4

\* One message more: its answer is appended if it has one.
LEMMA AnswersGrow ==
  ASSUME NEW of, NEW n \in Nat, NEW answers \in Seq(Responses), AnswersOf(of, n, answers),
         NEW more \in Seq(Responses), NEW r \in Responses,
         IF of[n + 1].kind \in Silent THEN more = answers
         ELSE more = Append(answers, r) /\ r.id = IdOf(of[n + 1])
  PROVE  AnswersOf(of, n + 1, more)
<1>1. Len(answers) = Cardinality(Answerable(of, n)) /\ Len(answers) \in Nat
  BY AnswerableCounts DEF AnswersOf
<1>2. \A i \in Answerable(of, n + 1) : i = n + 1 \/ i \in Answerable(of, n)
  BY DEF Answerable
<1>3. ASSUME NEW i \in Answerable(of, n)
      PROVE  Cardinality(Answerable(of, i)) \in 1 .. Len(answers)
             /\ answers[Cardinality(Answerable(of, i))].id = IdOf(of[i])
  BY <1>1, PlaceOfAnswer DEF AnswersOf
<1>4. CASE of[n + 1].kind \in Silent
  <2>1. n + 1 \notin Answerable(of, n + 1)
    BY <1>4 DEF Answerable
  <2>2. Cardinality(Answerable(of, n + 1)) = Len(answers)
    BY <1>1, <1>4, AnswerableCounts
  <2>3. ASSUME NEW i \in Answerable(of, n + 1)
        PROVE  more[Cardinality(Answerable(of, i))].id = IdOf(of[i])
    <3>1. i \in Answerable(of, n) /\ more = answers
      BY <1>2, <1>4, <2>1
    <3> QED
      BY <1>3, <3>1
  <2> QED
    BY <1>4, <2>2, <2>3 DEF AnswersOf
<1>5. CASE of[n + 1].kind \notin Silent
  <2>1. /\ Len(more) = Len(answers) + 1 /\ more[Len(answers) + 1] = r
        /\ \A j \in 1 .. Len(answers) : more[j] = answers[j]
    BY <1>5, AppendProperties
  <2>2. Cardinality(Answerable(of, n + 1)) = Len(answers) + 1
    BY <1>1, <1>5, AnswerableCounts
  <2> QED
    BY <1>2, <1>3, <1>5, <2>1, <2>2 DEF AnswersOf
<1> QED
  BY <1>4, <1>5

--------------------------------------------------------------------------------
LEMMA ArriveKeepsRequestInv == ASSUME RequestInv, Arrive PROVE RequestInv'
<1>1. /\ request = NoRequest /\ reply = NoReply /\ reply' = NoReply /\ request' \in Arrivals
      /\ messages' = request'.body.of /\ responses' = <<>> /\ panicked' = FALSE
  BY DEF Arrive, RequestInv
<1>2. messages' \in Seq(Messages) /\ Len(messages') \in Nat
  BY <1>1, BodyIsTyped
<1>3. Answerable(request'.body.of, 0) = {}
  BY DEF Answerable
<1>4. Handled(0)' /\ AnswersOf(request'.body.of, 0, responses')
  <2>1. messages' = request'.body.of /\ Len(messages') = Len(request'.body.of)
    BY <1>1
  <2>2. Handled(0)'
    BY <1>2, <2>1 DEF Handled
  <2>3. AnswersOf(request'.body.of, 0, responses')
    BY <1>1, <1>3, FS_EmptySet, EmptySeq DEF AnswersOf
  <2> QED
    BY <2>2, <2>3
<1>5. responses' \in Seq(Responses)
  BY <1>1, EmptySeq
<1>6. MessagesAreAnswered'
  BY <1>1 DEF MessagesAreAnswered, NoReply
<1> QED
  BY <1>1, <1>2, <1>4, <1>5, <1>6 DEF RequestInv

\* What is refused by the guards is not answered by mcp.rs.
LEMMA GuardsKeepRequestInv == ASSUME RequestInv, Guards PROVE RequestInv'
<1>1. /\ request # NoRequest /\ UNCHANGED <<request, messages, responses, panicked>>
      /\ Refusal(request) # 0 /\ reply' = [status |-> Refusal(request), body |-> <<>>]
  BY DEF Guards, Reply
<1>2. request.path = "/mcp" => Refusal(request) \in {405, 401, 403, 400, 413}
  BY <1>1 DEF Refusal
<1>3. reply'.status \in {200, 202} => request.path # "/mcp"
  BY <1>1, <1>2
<1>4. reply' # NoReply
  BY <1>1 DEF NoReply
<1> QED
  BY <1>1, <1>3, <1>4 DEF RequestInv, MessagesAreAnswered

\* A request on which mcp.rs is at work.
LEMMA InMcpIsTyped ==
  ASSUME RequestInv, InMcp
  PROVE  /\ request \in Arrivals /\ request # NoRequest /\ reply = NoReply /\ ~panicked
         /\ messages \in Seq(Messages) /\ responses \in Seq(Responses)
         /\ Len(messages) \in Nat /\ Len(responses) \in Nat /\ Len(request.body.of) \in Nat
         /\ \E n \in Nat : Handled(n) /\ AnswersOf(request.body.of, n, responses)
BY BodyIsTyped, LenProperties DEF RequestInv, InMcp

LEMMA NoMessageKeepsRequestInv == ASSUME RequestInv, NoMessage PROVE RequestInv'
<1>1. /\ InMcp /\ request.body.of = <<>> /\ UNCHANGED <<request, messages, responses, panicked>>
      /\ reply'.status \in {200, 202}
  BY DEF NoMessage, Reply
<1>2. reply' # NoReply
  BY <1>1 DEF NoReply
<1> QED
  BY <1>1, <1>2, InMcpIsTyped DEF RequestInv, MessagesAreAnswered

\* The next message, and what is left after it.
LEMMA OneMessageMore ==
  ASSUME RequestInv, InMcp, messages # <<>>, messages' = Tail(messages),
         UNCHANGED <<request, reply, panicked>>,
         NEW r \in Responses,
         IF Head(messages).kind \in Silent THEN UNCHANGED responses
         ELSE responses' = Append(responses, r) /\ r.id = IdOf(Head(messages))
  PROVE  RequestInv'
<1> DEFINE of == request.body.of
<1>1. /\ messages \in Seq(Messages) /\ responses \in Seq(Responses) /\ Len(messages) \in Nat /\ Len(of) \in Nat
      /\ request # NoRequest /\ reply = NoReply /\ ~panicked
  BY InMcpIsTyped
<1>2. PICK n \in Nat : Handled(n) /\ AnswersOf(of, n, responses)
  BY InMcpIsTyped
<1>3. /\ Head(messages) = messages[1] /\ Len(messages') = Len(messages) - 1 /\ messages' \in Seq(Messages)
      /\ \A j \in 1 .. Len(messages') : messages'[j] = messages[j + 1]
      /\ Len(messages) >= 1
  BY <1>1, HeadTailProperties, EmptySeq, LenProperties
<1>4. Head(messages) = of[n + 1]
  BY <1>1, <1>2, <1>3 DEF Handled
<1>5. Handled(n + 1)'
  BY <1>1, <1>2, <1>3 DEF Handled
<1>6. responses' \in Seq(Responses)
  <2>1. CASE Head(messages).kind \in Silent
    BY <1>1, <2>1
  <2>2. CASE Head(messages).kind \notin Silent
    <3>1. responses' = Append(responses, r)
      BY <2>2
    <3> QED
      BY <1>1, <3>1, AppendProperties
  <2> QED
    BY <2>1, <2>2
<1>7. AnswersOf(of, n + 1, responses')
  BY <1>1, <1>2, <1>4, <1>6, AnswersGrow
<1>8. MessagesAreAnswered'
  BY <1>1 DEF MessagesAreAnswered, NoReply
<1>9. request' = request /\ reply' = reply /\ panicked' = panicked /\ n + 1 \in Nat
  OBVIOUS
<1> QED
  BY <1>1, <1>3, <1>5, <1>6, <1>7, <1>8, <1>9 DEF RequestInv

LEMMA HandleValueKeepsRequestInv == ASSUME RequestInv, HandleValue PROVE RequestInv'
<1> DEFINE m == Head(messages)
           r == IF m.kind = "notObject" THEN [id |-> NullId, answer |-> -32600]
                ELSE [id |-> m.id, answer |-> Answer(m.kind)]
<1>1. /\ InMcp /\ messages # <<>> /\ m.kind # "call" /\ messages' = Tail(messages)
      /\ UNCHANGED <<request, reply, panicked>>
  BY DEF HandleValue
<1>2. m \in Messages
  BY <1>1, InMcpIsTyped, HeadTailProperties
<1>3. m.kind \notin Silent /\ m.kind # "notObject" => m.kind \in {"ping", "unknownMethod", "callNoName"}
  BY <1>1, <1>2 DEF Messages, Silent
<1>4. IF m.kind \in Silent THEN UNCHANGED responses
      ELSE responses' = Append(responses, r) /\ r.id = IdOf(m)
  <2>1. "notObject" \notin Silent
    BY DEF Silent
  <2> HIDE DEF m
  <2> QED
    BY <2>1 DEF HandleValue, Respond, IdOf, m
<1>5. CASE m.kind \in Silent
  <2>1. [id |-> 0, answer |-> 0] \in Responses
    BY DEF Responses
  <2> HIDE DEF r
  <2> QED
    BY <1>1, <1>4, <1>5, <2>1, OneMessageMore
<1>6. CASE m.kind \notin Silent
  <2>1. r \in Responses
    BY <1>2, <1>3, <1>6 DEF Responses, Messages, Answer, NullId
  <2> HIDE DEF r
  <2> QED
    BY <1>1, <1>4, <1>6, <2>1, OneMessageMore
<1> QED
  BY <1>5, <1>6

LEMMA CallToolKeepsRequestInv == ASSUME RequestInv, CallTool PROVE RequestInv'
<1> DEFINE m == Head(messages)
<1>1. /\ InMcp /\ messages # <<>> /\ m.kind = "call" /\ messages' = Tail(messages)
      /\ UNCHANGED <<request, reply, panicked>>
  BY DEF CallTool
<1>2. PICK answer \in {0, -32602} : responses' = Append(responses, [id |-> m.id, answer |-> answer])
  BY DEF CallTool, Respond
<1>3. m \in Messages
  BY <1>1, InMcpIsTyped, HeadTailProperties
<1>4. [id |-> m.id, answer |-> answer] \in Responses
  BY <1>3 DEF Messages, Responses
<1>5. m.kind \notin Silent /\ [id |-> m.id, answer |-> answer].id = IdOf(m)
  BY <1>1 DEF Silent, IdOf
<1> HIDE DEF m
<1> QED
  BY <1>1, <1>2, <1>4, <1>5, OneMessageMore DEF m

\* A panic is the one answer, and a single call still gets its own.
LEMMA ToolPanicsKeepsRequestInv == ASSUME RequestInv, ToolPanics PROVE RequestInv'
<1> DEFINE m  == Head(messages)
           of == request.body.of
           id == IF request.body.is = "single" THEN m.id ELSE NullId
<1>1. /\ InMcp /\ messages # <<>> /\ m.kind = "call" /\ panicked' = TRUE
      /\ reply' = [status |-> 200, body |-> <<[id |-> id, answer |-> -32603]>>]
      /\ UNCHANGED <<request, messages, responses>>
  BY DEF ToolPanics, Reply
<1>2. reply' # NoReply /\ Len(reply'.body) = 1
  BY <1>1 DEF NoReply
<1>3. /\ request \in Arrivals /\ request # NoRequest
      /\ messages \in Seq(Messages) /\ Len(messages) \in Nat /\ Len(of) \in Nat
  BY <1>1, InMcpIsTyped
<1>4. ASSUME request.body.is = "single", NEW i \in Answerable(of, Len(of))
      PROVE  reply'.body[Cardinality(Answerable(of, i))].id = IdOf(of[i])
  <2>1. Len(of) = 1
    BY <1>3, <1>4, BodyIsTyped
  <2>2. i = 1 /\ Answerable(of, i) = {1}
    BY <2>1 DEF Answerable
  <2>3. Cardinality(Answerable(of, i)) = 1
    BY <2>2, FS_Singleton
  <2>4. PICK n \in Nat : Handled(n)
    BY <1>1, InMcpIsTyped
  <2>5. m = messages[1] /\ Len(messages) >= 1
    BY <1>1, <1>3, HeadTailProperties, EmptySeq
  <2>6. m = of[1]
    BY <1>3, <2>1, <2>4, <2>5 DEF Handled
  <2> QED
    BY <1>1, <1>4, <2>2, <2>3, <2>6 DEF IdOf
<1> HIDE DEF m, id
<1>5. MessagesAreAnswered'
  BY <1>1, <1>2, <1>4 DEF MessagesAreAnswered
<1> QED
  BY <1>1, <1>2, <1>3, <1>5 DEF RequestInv

\* When every message is handled, the responses are the reply.
LEMMA HandleMessageKeepsRequestInv == ASSUME RequestInv, HandleMessage PROVE RequestInv'
<1> DEFINE of == request.body.of
<1>1. /\ InMcp /\ of # <<>> /\ messages = <<>> /\ UNCHANGED <<request, messages, responses, panicked>>
      /\ reply'.status \in {200, 202} /\ reply'.body = responses
  BY DEF HandleMessage, Reply
<1>2. reply' # NoReply
  BY <1>1 DEF NoReply
<1>3. request \in Arrivals /\ request # NoRequest /\ ~panicked
  BY <1>1, InMcpIsTyped
<1>4. AnswersOf(of, Len(of), responses)
  BY <1>1, InMcpIsTyped, EmptySeq DEF Handled
<1>5. MessagesAreAnswered'
  BY <1>1, <1>3, <1>4 DEF MessagesAreAnswered, AnswersOf
<1> QED
  BY <1>1, <1>2, <1>3, <1>5 DEF RequestInv

LEMMA RequestStep == RequestInv /\ [RequestNext]_requestVars => RequestInv'
<1> SUFFICES ASSUME RequestInv, [RequestNext]_requestVars PROVE RequestInv'
  OBVIOUS
<1>1. CASE Answered
  <2>1. request' = NoRequest /\ reply' = NoReply
    BY <1>1 DEF Answered
  <2> QED
    BY <2>1 DEF RequestInv, MessagesAreAnswered, NoReply
<1>2. CASE UNCHANGED requestVars
  <2>1. UNCHANGED <<request, messages, responses, reply, panicked>>
    BY <1>2 DEF requestVars
  <2> QED
    BY <2>1 DEF RequestInv, MessagesAreAnswered, Handled
<1> QED
  BY <1>1, <1>2, ArriveKeepsRequestInv, GuardsKeepRequestInv, NoMessageKeepsRequestInv,
     HandleValueKeepsRequestInv, CallToolKeepsRequestInv, ToolPanicsKeepsRequestInv,
     HandleMessageKeepsRequestInv DEF RequestNext

(***************************************************************************)
(* Every message that can be answered is, once and in order, in any body   *)
(* (mcp.rs).                                                               *)
(***************************************************************************)
THEOREM EveryMessageIsAnswered == RequestSpec => []MessagesAreAnswered
<1>1. RequestInit => RequestInv
  BY DEF RequestInit, RequestInv, MessagesAreAnswered, NoReply
<1>2. RequestInv => MessagesAreAnswered
  BY DEF RequestInv
<1> QED
  BY <1>1, <1>2, RequestStep, PTL DEF RequestSpec
================================================================================
