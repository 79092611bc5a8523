--------------------------- MODULE TokenStoreProofs ---------------------------
(***************************************************************************)
(* Proofs about TokenStore, for any number of processes.                   *)
(***************************************************************************)
EXTENDS TokenStore, TLAPS

(***************************************************************************)
(* The fields of a call, one by one.                                       *)
(***************************************************************************)
LEMMA NoCallType == Atomic!NoCall \in Atomic!CallRecord
BY StampAssumption DEF Atomic!NoCall, Atomic!CallRecord, Atomic!Op, Atomic!Outcome, Atomic!Stamps

LEMMA InvokeType ==
  ASSUME TypeOK, stamp < MaxStamp,
         NEW p \in Process, NEW op \in Atomic!Op, NEW base \in Atomic!Stamps,
         Atomic!Invoke(p, op, base)
  PROVE  stamp' \in 0 .. MaxStamp /\ call' \in [Process -> Atomic!CallRecord]
<1> DEFINE new == IF op \in {"refresh", "login"} THEN stamp + 1 ELSE 0
           c   == [Atomic!NoCall EXCEPT !.op = op, !.base = base, !.new = new]
<1>1. new \in Atomic!Stamps
  BY StampAssumption DEF TypeOK, Atomic!Stamps
<1>2. c \in Atomic!CallRecord
  BY <1>1 DEF Atomic!NoCall, Atomic!CallRecord, Atomic!Op, Atomic!Outcome, Atomic!Stamps
<1>3. call' = [call EXCEPT ![p] = c]
  BY DEF Atomic!Invoke
<1>4. call \in [Process -> Atomic!CallRecord]
  BY DEF TypeOK
<1>5. call' \in [Process -> Atomic!CallRecord]
  <2> HIDE DEF c
  <2> QED BY <1>2, <1>3, <1>4
<1>6. stamp' \in 0 .. MaxStamp
  BY StampAssumption DEF TypeOK, Atomic!Invoke
<1> QED
  BY <1>5, <1>6

LEMMA OutcomeType ==
  ASSUME TypeOK, NEW p \in Process, NEW outcome \in Atomic!Outcome,
         call' = [call EXCEPT ![p].outcome = outcome]
  PROVE  call' \in [Process -> Atomic!CallRecord]
<1>1. call[p] \in Atomic!CallRecord
  BY DEF TypeOK
<1>2. [call[p] EXCEPT !.outcome = outcome] \in Atomic!CallRecord
  BY <1>1 DEF Atomic!CallRecord
<1> QED
  BY <1>2 DEF TypeOK

LEMMA SettledType ==
  ASSUME TypeOK, NEW p \in Process, call' = [call EXCEPT ![p].settled = TRUE]
  PROVE  call' \in [Process -> Atomic!CallRecord]
<1>1. call[p] \in Atomic!CallRecord
  BY DEF TypeOK
<1>2. [call[p] EXCEPT !.settled = TRUE] \in Atomic!CallRecord
  BY <1>1 DEF Atomic!CallRecord
<1> QED
  BY <1>2 DEF TypeOK

LEMMA ForgottenType ==
  ASSUME TypeOK, NEW p \in Process, call' = [call EXCEPT ![p] = Atomic!NoCall]
  PROVE  call' \in [Process -> Atomic!CallRecord]
BY NoCallType DEF TypeOK

LEMMA OwnType ==
  ASSUME TypeOK, NEW p \in Process
  PROVE  /\ Own(p) \subseteq tmp
         /\ \A f \in Own(p) : Filled(f) \in File /\ Flushed(f) \in File
         /\ call[p].new \in 0 .. MaxStamp
<1>1. call[p] \in Atomic!CallRecord
  BY DEF TypeOK
<1>2. call[p].new \in 0 .. MaxStamp
  BY <1>1 DEF Atomic!CallRecord, Atomic!Stamps
<1> QED
  BY <1>2 DEF TypeOK, Own, Filled, Flushed, File

LEMMA AbsentType == Absent \in File
BY StampAssumption DEF Absent, File

LEMMA TypeInit == Init => TypeOK
<1> SUFFICES ASSUME Init PROVE TypeOK
  OBVIOUS
<1>1. [Absent EXCEPT !.at = 1] \in File
  <2>1. 1 \in 0 .. MaxStamp
    BY StampAssumption
  <2> QED
    BY <2>1 DEF Absent, File
<1>2. token \in File /\ survivors \subseteq File /\ tmp \subseteq File
  BY <1>1, AbsentType DEF Init
<1>3. /\ lockname \in 0 .. MaxInode /\ inodes \in 0 .. MaxInode
      /\ handle \in [Process -> 0 .. MaxInode]
  BY InodeAssumption DEF Init
<1>4. stamp \in 0 .. MaxStamp
  BY StampAssumption DEF Init
<1>5. call \in [Process -> Atomic!CallRecord]
  BY NoCallType DEF Init
<1>6. /\ pc \in [Process -> PC] /\ locked \in [Process -> BOOLEAN]
      /\ \A p \in Process : pc[p] \in {"idle", "open"} => handle[p] = 0 /\ ~locked[p]
  BY DEF Init, PC
<1> QED
  BY <1>2, <1>3, <1>4, <1>5, <1>6 DEF TypeOK

LEMMA TypeStep == TypeOK /\ [Next]_vars => TypeOK'
<1> SUFFICES ASSUME TypeOK, [Next]_vars PROVE TypeOK'
  OBVIOUS
<1> USE DEF PC
<1>1. ASSUME NEW p \in Process, NEW op \in Atomic!Op, NEW base \in Atomic!Stamps,
             Begin(p, op, base)
      PROVE  TypeOK'
  <2>1. stamp' \in 0 .. MaxStamp /\ call' \in [Process -> Atomic!CallRecord]
    BY <1>1, InvokeType DEF Begin
  <2> QED
    BY <1>1, <2>1 DEF Begin, Goto, lockVars, TypeOK
<1>2. ASSUME NEW p \in Process, Open(p) PROVE TypeOK'
  BY <1>2, InodeAssumption DEF Open, Goto, callVars, TypeOK
<1>3. ASSUME NEW p \in Process, Flock(p) PROVE TypeOK'
  BY <1>3 DEF Flock, Goto, callVars, TypeOK
<1>4. ASSUME NEW p \in Process, NEW from \in PC, NEW outcome \in Atomic!Outcome,
             Done(p, from, outcome), UNCHANGED <<token, survivors, lockVars, stamp>>,
             tmp' \subseteq tmp
      PROVE  TypeOK'
  <2>1. call' \in [Process -> Atomic!CallRecord]
    BY <1>4, OutcomeType DEF Done
  <2> QED
    BY <1>4, <2>1 DEF Done, Goto, lockVars, TypeOK
<1>5. ASSUME NEW p \in Process,
             OpenFails(p) \/ ReadFails(p) \/ Load(p) \/ Adopt(p) \/ Changed(p)
               \/ WriteFails(p) \/ RenameFails(p) \/ UnlinkFails(p)
      PROVE  TypeOK'
  BY <1>4, <1>5 DEF OpenFails, ReadFails, Load, Adopt, Changed, WriteFails, RenameFails,
                    UnlinkFails, Atomic!Outcome
<1>6. ASSUME NEW p \in Process, Swap(p) \/ StillDead(p) PROVE TypeOK'
  BY <1>6 DEF Swap, StillDead, Goto, lockVars, callVars, TypeOK
<1>7. ASSUME NEW p \in Process, Create(p) PROVE TypeOK'
  <2>1. [at |-> call[p].new, whole |-> FALSE, synced |-> FALSE] \in File
    BY OwnType DEF File
  <2> QED
    BY <1>7, <2>1 DEF Create, Goto, lockVars, callVars, TypeOK
<1>8. ASSUME NEW p \in Process, Write(p) \/ Fsync(p) PROVE TypeOK'
  <2>1. tmp' \subseteq File
    BY <1>8, OwnType DEF Write, Fsync, TypeOK
  <2> QED
    BY <1>8, <2>1 DEF Write, Fsync, Goto, lockVars, callVars, TypeOK
<1>9. ASSUME NEW p \in Process, Rename(p) PROVE TypeOK'
  <2>1. call' \in [Process -> Atomic!CallRecord]
    BY <1>9, OutcomeType DEF Rename, Atomic!Outcome
  <2> QED
    BY <1>9, <2>1, OwnType DEF Rename, Names, Goto, lockVars, TypeOK
<1>10. ASSUME NEW p \in Process, SyncDir(p) PROVE TypeOK'
  <2>1. call' \in [Process -> Atomic!CallRecord]
    BY <1>10, SettledType DEF SyncDir
  <2> QED
    BY <1>10, <2>1 DEF SyncDir, Goto, lockVars, TypeOK
<1>11. ASSUME NEW p \in Process, Unlink(p) PROVE TypeOK'
  <2>1. call' \in [Process -> Atomic!CallRecord]
    BY <1>11, OutcomeType DEF Unlink, Atomic!Outcome
  <2> QED
    BY <1>11, <2>1, AbsentType DEF Unlink, Names, Goto, lockVars, TypeOK
<1>12. ASSUME NEW p \in Process, Sweep(p) PROVE TypeOK'
  BY <1>12 DEF Sweep, Goto, lockVars, callVars, TypeOK
<1>13. ASSUME NEW p \in Process, Close(p) \/ Crash(p) PROVE TypeOK'
  <2>1. call' \in [Process -> Atomic!CallRecord]
    BY <1>13, ForgottenType DEF Close, Crash
  <2>2. /\ UNCHANGED <<token, survivors, tmp, lockname, inodes, stamp>>
        /\ pc' = [pc EXCEPT ![p] = "idle"]
        /\ handle' = [handle EXCEPT ![p] = 0]
        /\ locked' = [locked EXCEPT ![p] = FALSE]
    BY <1>13 DEF Close, Crash, Goto
  <2>3. 0 \in 0 .. MaxInode
    BY InodeAssumption
  <2> QED
    BY <2>1, <2>2, <2>3 DEF TypeOK
<1>14. CASE PowerCut
  <2>1. \A f \in File : Kept(f) \subseteq File
    BY DEF Kept, File
  <2>2. token' \in File /\ survivors' \subseteq File
    BY <1>14, <2>1 DEF PowerCut, TypeOK
  <2>3. tmp' \subseteq File
    <3>1. \A f \in File : [f EXCEPT !.whole = FALSE] \in File
      BY DEF File
    <3>2. tmp' = {[f EXCEPT !.whole = FALSE] : f \in tmp} /\ tmp \subseteq File
      BY <1>14 DEF PowerCut, TypeOK
    <3> QED
      BY <3>1, <3>2
  <2>4. call' \in [Process -> Atomic!CallRecord]
    BY <1>14, NoCallType DEF PowerCut
  <2>5. /\ UNCHANGED <<lockname, inodes, stamp>>
        /\ pc' = [p \in Process |-> "idle"]
        /\ handle' = [p \in Process |-> 0]
        /\ locked' = [p \in Process |-> FALSE]
    BY <1>14 DEF PowerCut
  <2>6. 0 \in 0 .. MaxInode
    BY InodeAssumption
  <2> QED
    BY <2>2, <2>3, <2>4, <2>5, <2>6 DEF TypeOK
<1>15. CASE UNCHANGED vars
  BY <1>15 DEF vars, lockVars, callVars, TypeOK
<1> QED
  BY <1>1, <1>2, <1>3, <1>5, <1>6, <1>7, <1>8, <1>9, <1>10, <1>11, <1>12, <1>13, <1>14,
     <1>15 DEF Next, Run

(***************************************************************************)
(* Every variable keeps its type, and no process without an operation      *)
(* under way holds the lock.                                               *)
(***************************************************************************)
THEOREM StoreTypeCorrect == Spec => []TypeOK
<1>1. TypeOK /\ [Next]_vars => TypeOK'
  BY TypeStep
<1> QED
  BY <1>1, TypeInit, PTL DEF Spec

--------------------------------------------------------------------------------
(***************************************************************************)
(* Mutual exclusion. `.token.lock` is never unlinked, so every process     *)
(* that has it open has the same inode open, and the flock on that inode   *)
(* is held once.                                                           *)
(***************************************************************************)
LockInv ==
  /\ \A p \in Process : Inside(p) => locked[p]
  /\ \A p \in Process : pc[p] = "flock" \/ locked[p] => handle[p] = lockname /\ lockname # 0
  /\ \A p, q \in Process : locked[p] /\ locked[q] => p = q

LEMMA LockInit == Init => LockInv
BY DEF Init, LockInv, Inside

LEMMA LockStep == TypeOK /\ LockInv /\ [Next]_vars => LockInv'
<1> SUFFICES ASSUME TypeOK, LockInv, [Next]_vars PROVE LockInv'
  OBVIOUS
<1> USE DEF PC, Inside
<1>1. ASSUME NEW p \in Process, Open(p) PROVE LockInv'
  BY <1>1, InodeAssumption DEF Open, Goto, TypeOK, LockInv
<1>2. ASSUME NEW p \in Process, Flock(p) PROVE LockInv'
  BY <1>2 DEF Flock, Unlocked, Goto, TypeOK, LockInv
<1>3. ASSUME NEW p \in Process, UNCHANGED lockVars,
             NEW from \in PC, NEW to \in PC, Goto(p, from, to),
             to # "flock", from \in {"idle", "open", "flock", "close"} =>
                             to \in {"idle", "open", "close"}
      PROVE  LockInv'
  BY <1>3 DEF Goto, lockVars, TypeOK, LockInv
<1>4. ASSUME NEW p \in Process,
             \/ \E op \in Atomic!Op, base \in Atomic!Stamps : Begin(p, op, base)
             \/ OpenFails(p) \/ ReadFails(p) \/ Load(p) \/ Adopt(p) \/ Swap(p)
             \/ Changed(p) \/ StillDead(p) \/ Create(p) \/ Write(p) \/ Fsync(p)
             \/ WriteFails(p) \/ Rename(p) \/ RenameFails(p) \/ Unlink(p)
             \/ UnlinkFails(p) \/ Sweep(p) \/ SyncDir(p)
      PROVE  LockInv'
  <2>1. \E from, to \in PC :
          /\ Goto(p, from, to) /\ UNCHANGED lockVars
          /\ to # "flock"
          /\ from \in {"idle", "open", "flock", "close"} => to \in {"idle", "open", "close"}
    BY <1>4, Zenon DEF Begin, OpenFails, ReadFails, Load, Adopt, Swap, Changed, StillDead, Create,
                Write, Fsync, WriteFails, Rename, RenameFails, Unlink, UnlinkFails, Sweep,
                SyncDir, Done
  <2> QED
    BY <2>1, <1>3
<1>5. ASSUME NEW p \in Process, Close(p) \/ Crash(p) PROVE LockInv'
  BY <1>5 DEF Close, Crash, Goto, TypeOK, LockInv
<1>6. CASE PowerCut
  BY <1>6 DEF PowerCut, LockInv
<1>7. CASE UNCHANGED vars
  BY <1>7 DEF vars, lockVars, LockInv
<1> QED
  BY <1>1, <1>2, <1>4, <1>5, <1>6, <1>7 DEF Next, Run

LEMMA OneInsideFollows == LockInv => OneInside
BY DEF LockInv, OneInside

(***************************************************************************)
(* Two processes are never inside the critical section at once, although   *)
(* they come and go, die in it, and create the lock file they lock.        *)
(***************************************************************************)
THEOREM MutualExclusion == Spec => []OneInside
<1>1. TypeOK /\ LockInv /\ [Next]_vars => LockInv'
  BY LockStep
<1> QED
  BY <1>1, LockInit, StoreTypeCorrect, OneInsideFollows, PTL DEF Spec

--------------------------------------------------------------------------------
(***************************************************************************)
(* Durability. A file is whole and synced before it is given the name, so  *)
(* whatever the name leads to after a power cut is whole. That a save      *)
(* renames the file it has written, and that it is still there, rests on   *)
(* mutual exclusion: nobody else creates, writes or sweeps meanwhile.      *)
(***************************************************************************)
OnDisk(f) == f.whole /\ f.synced

DurableInv ==
  /\ OnDisk(token) /\ \A f \in survivors : OnDisk(f)
  /\ \A p \in Process : pc[p] = "fsync"  => \A f \in Own(p) : f.whole
  /\ \A p \in Process : pc[p] = "rename" => \A f \in Own(p) : OnDisk(f)
  /\ LiveTmpIsThere

LEMMA DurableInit == Init => DurableInv
BY DEF Init, DurableInv, OnDisk, Absent, LiveTmpIsThere

(***************************************************************************)
(* A step that touches no file, and no save that is past its beginning.    *)
(***************************************************************************)
LEMMA DurableKept ==
  ASSUME DurableInv, UNCHANGED <<token, tmp>>, survivors' \subseteq survivors \cup {token},
         \A p \in Process : pc'[p] \in {"write", "fsync", "rename"} =>
                             pc'[p] = pc[p] /\ call'[p].new = call[p].new
  PROVE  DurableInv'
<1>1. OnDisk(token)' /\ \A f \in survivors' : OnDisk(f)
  BY DEF DurableInv, OnDisk
<1>2. ASSUME NEW p \in Process, pc'[p] \in {"write", "fsync", "rename"}
      PROVE  Own(p)' = Own(p) /\ pc'[p] = pc[p]
  BY <1>2 DEF Own
<1> QED
  BY <1>1, <1>2 DEF DurableInv, OnDisk, LiveTmpIsThere

LEMMA DurableStep == TypeOK /\ LockInv /\ DurableInv /\ [Next]_vars => DurableInv'
<1> SUFFICES ASSUME TypeOK, LockInv, DurableInv, [Next]_vars PROVE DurableInv'
  OBVIOUS
<1> USE DEF PC
<1> DEFINE Saving(p) == pc[p] \in {"write", "fsync", "rename"}
<1>1. ASSUME NEW p \in Process, Inside(p), NEW q \in Process, Saving(q)
      PROVE  q = p
  BY <1>1, OneInsideFollows DEF OneInside, Inside
<1>2. call \in [Process -> Atomic!CallRecord] /\ pc \in [Process -> PC]
  BY DEF TypeOK
<1>3. ASSUME NEW p \in Process, NEW from \in PC, NEW outcome, Done(p, from, outcome)
      PROVE  \A q \in Process : pc'[q] \in {"write", "fsync", "rename"} =>
                                 pc'[q] = pc[q] /\ call'[q].new = call[q].new
  BY <1>2, <1>3 DEF Done, Goto, Atomic!CallRecord
<1>4. ASSUME NEW p \in Process, NEW op \in Atomic!Op, NEW base \in Atomic!Stamps,
             Begin(p, op, base)
      PROVE  DurableInv'
  BY <1>2, <1>4, DurableKept DEF Begin, Goto, Atomic!Invoke
<1>5. ASSUME NEW p \in Process, Open(p) \/ Flock(p) \/ Swap(p) \/ StillDead(p) PROVE DurableInv'
  BY <1>2, <1>5, DurableKept DEF Open, Flock, Swap, StillDead, Goto, callVars
<1>6. ASSUME NEW p \in Process,
             OpenFails(p) \/ ReadFails(p) \/ Load(p) \/ Adopt(p) \/ Changed(p)
               \/ WriteFails(p) \/ UnlinkFails(p)
      PROVE  DurableInv'
  BY <1>3, <1>6, DurableKept DEF OpenFails, ReadFails, Load, Adopt, Changed, WriteFails,
                                 UnlinkFails
<1>7. ASSUME NEW p \in Process, Create(p) PROVE DurableInv'
  <2>1. \A q \in Process : ~Saving(q)
    BY <1>1, <1>7 DEF Create, Goto, Inside
  <2>2. \A q \in Process : Saving(q)' => q = p /\ pc'[q] = "write"
    BY <1>2, <1>7, <2>1 DEF Create, Goto
  <2>3. [at |-> call[p].new, whole |-> FALSE, synced |-> FALSE] \in Own(p)'
    BY <1>7 DEF Create, Own, callVars
  <2> QED
    BY <1>7, <2>2, <2>3 DEF Create, DurableInv, OnDisk, LiveTmpIsThere
<1>8. ASSUME NEW p \in Process, Write(p) PROVE DurableInv'
  <2>1. \A q \in Process : Saving(q)' => q = p /\ pc'[q] = "fsync"
    BY <1>1, <1>2, <1>8 DEF Write, Goto, Inside
  <2>2. \A f \in tmp : Filled(f).whole /\ Filled(f).at = f.at
    BY DEF Filled, TypeOK, File
  <2>3. Own(p)' = {Filled(f) : f \in Own(p)}
    BY <1>8, <2>2 DEF Write, Own, callVars
  <2>4. Own(p) # {}
    BY <1>8 DEF Write, Goto, DurableInv, LiveTmpIsThere
  <2>5. Own(p)' # {} /\ \A f \in Own(p)' : f.whole
    BY <2>2, <2>3, <2>4 DEF Own
  <2> QED
    BY <1>8, <2>1, <2>5 DEF Write, DurableInv, OnDisk, LiveTmpIsThere
<1>9. ASSUME NEW p \in Process, Fsync(p) PROVE DurableInv'
  <2>1. \A q \in Process : Saving(q)' => q = p /\ pc'[q] = "rename"
    BY <1>1, <1>2, <1>9 DEF Fsync, Goto, Inside
  <2>2. \A f \in tmp : /\ Flushed(f).synced /\ Flushed(f).at = f.at
                       /\ Flushed(f).whole = f.whole
    BY DEF Flushed, TypeOK, File
  <2>3. Own(p)' = {Flushed(f) : f \in Own(p)}
    BY <1>9, <2>2 DEF Fsync, Own, callVars
  <2>4. Own(p) # {} /\ \A f \in Own(p) : f.whole
    BY <1>9 DEF Fsync, Goto, DurableInv, LiveTmpIsThere
  <2>5. Own(p)' # {} /\ \A f \in Own(p)' : OnDisk(f)
    BY <2>2, <2>3, <2>4 DEF Own, OnDisk
  <2> QED
    BY <1>9, <2>1, <2>5 DEF Fsync, DurableInv, OnDisk, LiveTmpIsThere
<1>10. ASSUME NEW p \in Process, Rename(p) \/ RenameFails(p) PROVE DurableInv'
  <2>1. \A q \in Process : ~Saving(q)'
    BY <1>1, <1>2, <1>10 DEF Rename, RenameFails, Done, Goto, Inside
  <2>2. \A f \in Own(p) : OnDisk(f)
    BY <1>10 DEF Rename, RenameFails, Done, Goto, DurableInv
  <2>3. OnDisk(token)' /\ \A f \in survivors' : OnDisk(f)
    BY <1>10, <2>2 DEF Rename, RenameFails, Names, DurableInv, OnDisk
  <2> QED
    BY <2>1, <2>3 DEF DurableInv, OnDisk, LiveTmpIsThere
<1>11. ASSUME NEW p \in Process, Unlink(p) \/ Sweep(p) PROVE DurableInv'
  <2>1. \A q \in Process : ~Saving(q)'
    BY <1>1, <1>2, <1>11 DEF Unlink, Sweep, Goto, Inside
  <2>2. OnDisk(token)' /\ \A f \in survivors' : OnDisk(f)
    BY <1>11 DEF Unlink, Sweep, Names, DurableInv, OnDisk, Absent
  <2> QED
    BY <2>1, <2>2 DEF DurableInv, OnDisk, LiveTmpIsThere
<1>12. ASSUME NEW p \in Process, SyncDir(p) PROVE DurableInv'
  BY <1>2, <1>12, DurableKept DEF SyncDir, Goto
<1>13. ASSUME NEW p \in Process, Close(p) \/ Crash(p) PROVE DurableInv'
  BY <1>2, <1>13, DurableKept DEF Close, Crash, Goto
<1>14. CASE PowerCut
  <2>1. \A f \in survivors : Kept(f) = {f}
    BY DEF Kept, DurableInv, OnDisk
  <2> QED
    BY <1>14, <2>1 DEF PowerCut, DurableInv, OnDisk, LiveTmpIsThere
<1>15. CASE UNCHANGED vars
  BY <1>15, DurableKept DEF vars, callVars
<1> QED
  BY <1>4, <1>5, <1>6, <1>7, <1>8, <1>9, <1>10, <1>11, <1>12, <1>13, <1>14, <1>15 DEF Next, Run

LEMMA DurableAlways == Spec => [](TypeOK /\ LockInv /\ DurableInv)
<1>1. TypeOK /\ LockInv /\ [Next]_vars => LockInv'
  BY LockStep
<1>2. TypeOK /\ LockInv /\ DurableInv /\ [Next]_vars => DurableInv'
  BY DurableStep
<1> QED
  BY <1>1, <1>2, LockInit, DurableInit, StoreTypeCorrect, PTL DEF Spec

(***************************************************************************)
(* token.json is whole at every moment, a power cut included: it is        *)
(* replaced by a rename, never written in place.                           *)
(***************************************************************************)
THEOREM NeverTornAlways == Spec => []NeverTorn
<1>1. DurableInv => NeverTorn
  BY DEF DurableInv, OnDisk, NeverTorn
<1> QED
  BY <1>1, DurableAlways, PTL

(***************************************************************************)
(* Deletes sweep every temporary file, and never the one of a live save.   *)
(***************************************************************************)
THEOREM LiveTmpIsNeverSwept == Spec => []LiveTmpIsThere
<1>1. DurableInv => LiveTmpIsThere
  BY DEF DurableInv
<1> QED
  BY <1>1, DurableAlways, PTL

--------------------------------------------------------------------------------
(***************************************************************************)
(* Refinement. What a process has learnt from token.json under the lock is *)
(* still true when it renames or unlinks, and its outcome says how far it  *)
(* has come.                                                               *)
(***************************************************************************)
Before == {"open", "flock", "read", "create", "write", "fsync", "rename", "unlink"}
Save   == {"create", "write", "fsync", "rename"}

CallOK(p) ==
  /\ pc[p] \in Before => call[p].op # "none" /\ call[p].outcome = "pending"
  /\ call[p].op \in {"refresh", "dead"} => call[p].base # 0
  /\ pc[p] = "read" => call[p].op \in {"load", "refresh", "dead"}
  /\ pc[p] \in Save => call[p].op \in {"refresh", "login"}
  /\ pc[p] \in Save /\ call[p].op = "refresh" => token.at # 0 /\ token.at <= call[p].base
  /\ pc[p] = "unlink" => call[p].op \in {"logout", "dead"}
  /\ pc[p] = "unlink" /\ call[p].op = "dead" => token.at = call[p].base
  /\ pc[p] = "sweep" => call[p].outcome \in {"deleted", "kept"}
  /\ pc[p] = "syncdir" => call[p].outcome \in {"wrote", "deleted", "kept"}
  /\ pc[p] = "close" =>
       /\ call[p].outcome # "pending"
       /\ call[p].outcome \in {"wrote", "deleted"} => call[p].settled

CallInv == \A p \in Process : CallOK(p)

LEMMA CallInit == Init => CallInv
BY DEF Init, CallInv, CallOK, Before, Save, Atomic!NoCall

(***************************************************************************)
(* What a call has and keeps, whoever takes the step.                      *)
(***************************************************************************)
LEMMA CallKept ==
  ASSUME NEW p \in Process, CallOK(p), pc'[p] = pc[p], call'[p] = call[p],
         Inside(p) => UNCHANGED token
  PROVE  CallOK(p)'
BY DEF CallOK, Inside, PC, Before, Save

(***************************************************************************)
(* Absent is the one file on the disk whose stamp is 0.                    *)
(***************************************************************************)
LEMMA AbsentIsZero ==
  ASSUME TypeOK, DurableInv
  PROVE  token.at = 0 <=> token = Absent
BY DEF TypeOK, DurableInv, OnDisk, File, Absent

LEMMA CallStep == TypeOK /\ LockInv /\ DurableInv /\ CallInv /\ [Next]_vars => CallInv'
<1> SUFFICES ASSUME TypeOK, LockInv, DurableInv, CallInv, [Next]_vars PROVE CallInv'
  OBVIOUS
<1> USE DEF PC
<1>1. call \in [Process -> Atomic!CallRecord] /\ pc \in [Process -> PC]
  BY DEF TypeOK
<1>2. \A p \in Process : call[p] \in Atomic!CallRecord /\ CallOK(p)
  BY <1>1 DEF CallInv
<1>3. token.at \in 0 .. MaxStamp /\ (token.at = 0 <=> token = Absent)
  BY AbsentIsZero DEF TypeOK, File
\* A step of p that keeps the token, or is made inside: only p's call is to be looked at.
<1>4. ASSUME NEW p \in Process, NEW to \in PC, pc' = [pc EXCEPT ![p] = to],
             NEW c, call' = [call EXCEPT ![p] = c], Inside(p) \/ UNCHANGED token,
             CallOK(p)'
      PROVE  CallInv'
  <2>1. ASSUME NEW q \in Process, q # p PROVE CallOK(q)'
    <3>1. Inside(q) => UNCHANGED token
      BY <1>4, <2>1, OneInsideFollows DEF OneInside
    <3>2. pc'[q] = pc[q] /\ call'[q] = call[q]
      BY <1>1, <1>4, <2>1
    <3> QED
      BY <1>2, <3>1, <3>2, CallKept
  <2> QED
    BY <1>4, <2>1 DEF CallInv
<1>5. ASSUME NEW p \in Process, NEW op \in Atomic!Op, NEW base \in Atomic!Stamps,
             Begin(p, op, base)
      PROVE  CallInv'
  <2> DEFINE c == [Atomic!NoCall EXCEPT !.op = op, !.base = base,
                     !.new = IF op \in {"refresh", "login"} THEN stamp + 1 ELSE 0]
  <2>1. call' = [call EXCEPT ![p] = c] /\ pc' = [pc EXCEPT ![p] = "open"] /\ UNCHANGED token
    BY <1>5 DEF Begin, Atomic!Invoke, Goto
  <2>2. c.op = op /\ c.base = base /\ c.outcome = "pending"
    BY DEF Atomic!NoCall
  <2>3. op # "none" /\ (op \in {"refresh", "dead"} => base # 0)
    BY <1>5 DEF Begin, Atomic!Invoke
  <2>4. CallOK(p)'
    <3> HIDE DEF c
    <3> QED BY <1>1, <2>1, <2>2, <2>3 DEF CallOK, Before, Save
  <2> QED
    BY <1>4, <2>1, <2>4
\* A step that gives p no outcome.
<1>6. ASSUME NEW p \in Process, NEW from \in PC, NEW to \in PC, Goto(p, from, to),
             UNCHANGED <<token, call>>, CallOK(p)'
      PROVE  CallInv'
  <2>1. call' = [call EXCEPT ![p] = call[p]]
    BY <1>1, <1>6
  <2> QED
    BY <1>4, <1>6, <2>1 DEF Goto
<1>7. ASSUME NEW p \in Process, Open(p) PROVE CallInv'
  <2>1. CallOK(p)'
    BY <1>1, <1>2, <1>7 DEF Open, Goto, callVars, CallOK, Before, Save
  <2> QED
    BY <1>6, <1>7, <2>1 DEF Open, callVars
<1>8. ASSUME NEW p \in Process, Flock(p) PROVE CallInv'
  <2>1. call[p].op \in {"load", "refresh", "login", "logout", "dead"}
    BY <1>2, <1>8 DEF Flock, Goto, CallOK, Before, Atomic!CallRecord, Atomic!Op
  <2>2. pc[p] = "flock" /\ UNCHANGED <<token, call>>
    BY <1>8 DEF Flock, Goto, callVars
  <2>3. pc' = [pc EXCEPT ![p] = CASE call[p].op = "login"  -> "create"
                                  [] call[p].op = "logout" -> "unlink"
                                  [] OTHER                 -> "read"]
    BY <1>8 DEF Flock, Goto
  <2>4. \/ call[p].op = "login" /\ pc' = [pc EXCEPT ![p] = "create"]
        \/ call[p].op = "logout" /\ pc' = [pc EXCEPT ![p] = "unlink"]
        \/ call[p].op \in {"load", "refresh", "dead"} /\ pc' = [pc EXCEPT ![p] = "read"]
    BY <2>1, <2>3
  <2>5. CallOK(p)'
    BY <1>1, <1>2, <2>2, <2>4 DEF CallOK, Before, Save
  <2> QED
    BY <1>6, <2>2, <2>4, <2>5 DEF Goto
<1>9. ASSUME NEW p \in Process, Swap(p) \/ StillDead(p) PROVE CallInv'
  <2>1. CallOK(p)'
    BY <1>1, <1>2, <1>3, <1>9 DEF Swap, StillDead, Readable, Goto, callVars, CallOK, Before, Save
  <2> QED
    BY <1>6, <1>9, <2>1 DEF Swap, StillDead, callVars
<1>10. ASSUME NEW p \in Process, Create(p) \/ Write(p) \/ Fsync(p) PROVE CallInv'
  <2>1. CallOK(p)'
    BY <1>1, <1>2, <1>10 DEF Create, Write, Fsync, Goto, callVars, CallOK, Before, Save
  <2> QED
    BY <1>6, <1>10, <2>1 DEF Create, Write, Fsync, callVars
<1>11. ASSUME NEW p \in Process, Sweep(p) PROVE CallInv'
  <2>1. CallOK(p)'
    BY <1>1, <1>2, <1>11 DEF Sweep, Goto, callVars, CallOK, Before, Save
  <2> QED
    BY <1>6, <1>11, <2>1 DEF Sweep, callVars
\* A step that gives p its outcome.
<1>12. ASSUME NEW p \in Process, NEW to \in {"sweep", "syncdir", "close"},
              pc' = [pc EXCEPT ![p] = to],
              NEW outcome \in Atomic!Outcome, call' = [call EXCEPT ![p].outcome = outcome],
              Inside(p) \/ UNCHANGED token,
              to = "sweep" => outcome \in {"deleted", "kept"},
              to = "syncdir" => outcome = "wrote",
              to = "close" => outcome \notin {"pending", "wrote", "deleted"}
       PROVE  CallInv'
  <2>1. call' = [call EXCEPT ![p] = [call[p] EXCEPT !.outcome = outcome]]
    BY <1>12
  <2>2. /\ call'[p].outcome = outcome /\ call'[p].op = call[p].op
        /\ call'[p].base = call[p].base
    BY <1>1, <1>2, <1>12 DEF Atomic!CallRecord
  <2>3. CallOK(p)'
    BY <1>1, <1>2, <1>12, <2>2 DEF CallOK, Before, Save
  <2> QED
    BY <1>4, <1>12, <2>1, <2>3
<1>13. ASSUME NEW p \in Process,
              OpenFails(p) \/ ReadFails(p) \/ Load(p) \/ Adopt(p) \/ Changed(p)
                \/ WriteFails(p) \/ RenameFails(p) \/ UnlinkFails(p)
       PROVE  CallInv'
  <2>1. /\ UNCHANGED token /\ pc' = [pc EXCEPT ![p] = "close"]
        /\ \E outcome \in {"read", "adopted", "kept", "failed"} :
             call' = [call EXCEPT ![p].outcome = outcome]
    BY <1>13 DEF OpenFails, ReadFails, Load, Adopt, Changed, WriteFails, RenameFails,
                 UnlinkFails, Done, Goto
  <2> QED
    BY <1>12, <2>1 DEF Atomic!Outcome
<1>14. ASSUME NEW p \in Process, Rename(p) PROVE CallInv'
  BY <1>12, <1>14 DEF Rename, Goto, Inside, Atomic!Outcome
<1>15. ASSUME NEW p \in Process, Unlink(p) PROVE CallInv'
  BY <1>12, <1>15 DEF Unlink, Goto, Inside, Atomic!Outcome
<1>16. ASSUME NEW p \in Process, SyncDir(p) PROVE CallInv'
  <2>1. /\ call' = [call EXCEPT ![p] = [call[p] EXCEPT !.settled = TRUE]]
        /\ pc[p] = "syncdir" /\ pc' = [pc EXCEPT ![p] = "close"] /\ UNCHANGED token
    BY <1>16 DEF SyncDir, Goto
  <2>2. /\ call'[p].outcome = call[p].outcome /\ call'[p].op = call[p].op
        /\ call'[p].base = call[p].base /\ call'[p].settled
    BY <1>1, <1>2, <2>1 DEF Atomic!CallRecord
  <2>3. CallOK(p)'
    BY <1>1, <1>2, <2>1, <2>2 DEF CallOK, Before, Save
  <2> QED
    BY <1>4, <2>1, <2>3
<1>17. ASSUME NEW p \in Process, Close(p) \/ Crash(p) PROVE CallInv'
  <2>1. /\ call' = [call EXCEPT ![p] = Atomic!NoCall] /\ UNCHANGED token
        /\ pc' = [pc EXCEPT ![p] = "idle"]
    BY <1>17 DEF Close, Crash, Goto
  <2>2. CallOK(p)'
    BY <1>1, <2>1 DEF CallOK, Before, Save, Atomic!NoCall
  <2> QED
    BY <1>4, <2>1, <2>2
<1>18. CASE PowerCut
  BY <1>18 DEF PowerCut, CallInv, CallOK, Before, Save, Atomic!NoCall
<1>19. CASE UNCHANGED vars
  BY <1>2, <1>19, CallKept DEF vars, callVars, CallInv
<1> QED
  BY <1>5, <1>7, <1>8, <1>9, <1>10, <1>11, <1>13, <1>14, <1>15, <1>16, <1>17, <1>18, <1>19
     DEF Next, Run

(***************************************************************************)
(* The step simulation: what is learnt and what is tidied up is a stutter, *)
(* the rename and the unlink are the effect, the close is the return.      *)
(***************************************************************************)
abstract == <<token.at, {f.at : f \in survivors}, stamp, call>>

LEMMA InitSimulated == Init => Atomic!Init
<1> SUFFICES ASSUME Init PROVE Atomic!Init
  OBVIOUS
<1>1. token.at \in {0, 1}
  BY DEF Init, Absent
<1>2. {f.at : f \in survivors} = {token.at}
  BY DEF Init
<1> QED
  BY <1>1, <1>2 DEF Init, Atomic!Init

LEMMA StepSimulated ==
  TypeOK /\ LockInv /\ DurableInv /\ CallInv /\ [Next]_vars => [Atomic!Next]_abstract
<1> SUFFICES ASSUME TypeOK, LockInv, DurableInv, CallInv, [Next]_vars
             PROVE  [Atomic!Next]_abstract
  OBVIOUS
<1> DEFINE Maybe == {f.at : f \in survivors}
<1>1. \A p \in Process : call[p] \in Atomic!CallRecord /\ CallOK(p)
  BY DEF CallInv, TypeOK
<1>2. token.at \in 0 .. MaxStamp /\ (token.at = 0 <=> token = Absent)
  BY AbsentIsZero DEF TypeOK, File
<1>3. ASSUME NEW p \in Process,
             Atomic!Effect(p) \/ Atomic!Fail(p) \/ Atomic!Settle(p) \/ Atomic!Return(p)
               \/ Atomic!Crash(p)
      PROVE  Atomic!Next
  BY <1>3 DEF Atomic!Next
<1>4. ASSUME NEW p \in Process, NEW op \in Atomic!Op, NEW base \in Atomic!Stamps,
             Begin(p, op, base)
      PROVE  Atomic!Next
  BY <1>4 DEF Begin, Atomic!Next
<1>5. ASSUME NEW p \in Process,
             Open(p) \/ Flock(p) \/ Swap(p) \/ StillDead(p) \/ Create(p) \/ Write(p)
               \/ Fsync(p) \/ Sweep(p)
      PROVE  UNCHANGED abstract
  BY <1>5 DEF Open, Flock, Swap, StillDead, Create, Write, Fsync, Sweep, callVars, abstract
<1>6. ASSUME NEW p \in Process, NEW from \in Before, NEW outcome, Done(p, from, outcome),
             UNCHANGED <<token, survivors, stamp>>
      PROVE  /\ Atomic!Asked(p)
             /\ Atomic!Leaves(p, outcome)
  BY <1>1, <1>6 DEF Done, Goto, CallOK, Atomic!Asked, Atomic!Leaves, Atomic!Outcomes
<1>7. ASSUME NEW p \in Process,
             OpenFails(p) \/ ReadFails(p) \/ WriteFails(p) \/ RenameFails(p) \/ UnlinkFails(p)
      PROVE  Atomic!Next
  <2>1. CASE \E from \in Before : Done(p, from, "failed")
    BY <1>3, <1>6, <1>7, <2>1 DEF OpenFails, ReadFails, WriteFails, RenameFails, UnlinkFails,
                                  Atomic!Fail
  <2>2. CASE call[p].op = "logout" /\ token = Absent /\ Done(p, "open", "kept")
             /\ UNCHANGED <<token, survivors, stamp>>
    BY <1>2, <1>3, <1>6, <2>2 DEF Before, Atomic!Effect
  <2>3. CASE call[p].op = "dead" /\ token = Absent /\ Done(p, "read", "kept")
             /\ UNCHANGED <<token, survivors, stamp>>
    <3>1. call[p].base # 0
      BY <1>1, <2>3 DEF CallOK
    <3> QED
      BY <1>2, <1>3, <1>6, <2>3, <3>1 DEF Before, Atomic!Effect
  <2> QED
    BY <1>7, <2>1, <2>2, <2>3 DEF OpenFails, ReadFails, WriteFails, RenameFails, UnlinkFails,
                                  Before
<1>8. ASSUME NEW p \in Process, Load(p) \/ Adopt(p) \/ Changed(p) PROVE Atomic!Next
  BY <1>2, <1>3, <1>6, <1>8 DEF Load, Adopt, Changed, Readable, Before, Atomic!Effect
<1>9. ASSUME NEW p \in Process, Rename(p) PROVE Atomic!Next
  <2>1. PICK f \in Own(p) : token' = f /\ survivors' = survivors \cup {f}
    BY <1>9 DEF Rename, Names
  <2>2. f.at = call[p].new
    BY <2>1 DEF Own
  <2>3. {g.at : g \in survivors'} = Maybe \cup {call[p].new}
    BY <2>1, <2>2
  <2>4. Atomic!Becomes(p, call[p].new, "wrote")
    BY <1>9, <2>1, <2>2, <2>3 DEF Rename, Atomic!Becomes, Atomic!Outcomes
  <2>5. Atomic!Asked(p) /\ call[p].op \in {"refresh", "login"}
        /\ (call[p].op = "refresh" => token.at # 0 /\ token.at <= call[p].base)
    BY <1>1, <1>9 DEF Rename, Goto, CallOK, Before, Save, Atomic!Asked
  <2>6. call[p].op = "refresh" => token.at \in 1 .. call[p].base
    BY <1>1, <1>2, <2>5, StampAssumption DEF Atomic!CallRecord, Atomic!Stamps
  <2>7. Atomic!Effect(p)
    BY <2>4, <2>5, <2>6 DEF Atomic!Effect
  <2> QED
    BY <1>3, <2>7
<1>10. ASSUME NEW p \in Process, Unlink(p) PROVE Atomic!Next
  <2>1. Atomic!Asked(p) /\ call[p].op \in {"logout", "dead"}
        /\ (call[p].op = "dead" => token.at = call[p].base /\ call[p].base # 0)
    BY <1>1, <1>10 DEF Unlink, Goto, CallOK, Before, Atomic!Asked
  <2>2. CASE token # Absent /\ Names(Absent) /\ call' = [call EXCEPT ![p].outcome = "deleted"]
    <3>1. token'.at = 0 /\ {g.at : g \in survivors'} = Maybe \cup {0}
      BY <2>2 DEF Names, Absent
    <3>2. Atomic!Becomes(p, 0, "deleted")
      BY <1>10, <2>2, <3>1 DEF Unlink, Atomic!Becomes, Atomic!Outcomes
    <3> QED
      BY <1>2, <1>3, <2>1, <2>2, <3>2 DEF Atomic!Effect
  <2>3. CASE token = Absent /\ UNCHANGED <<token, survivors>>
             /\ call' = [call EXCEPT ![p].outcome = "kept"]
    <3>1. Atomic!Leaves(p, "kept")
      BY <1>10, <2>3 DEF Unlink, Atomic!Leaves, Atomic!Outcomes
    <3> QED
      BY <1>2, <1>3, <2>1, <2>3, <3>1 DEF Atomic!Effect
  <2> QED
    BY <1>10, <2>2, <2>3 DEF Unlink
<1>11. ASSUME NEW p \in Process, SyncDir(p) PROVE Atomic!Next
  <2>1. call[p].outcome \in {"wrote", "deleted", "kept"}
    BY <1>1, <1>11 DEF SyncDir, Goto, CallOK
  <2>2. {g.at : g \in survivors'} = {token.at}
    BY <1>11 DEF SyncDir
  <2> QED
    BY <1>3, <1>11, <2>1, <2>2 DEF SyncDir, Atomic!Settle
<1>12. ASSUME NEW p \in Process, Close(p) PROVE Atomic!Next
  BY <1>1, <1>3, <1>12 DEF Close, Goto, CallOK, Atomic!Return
<1>13. ASSUME NEW p \in Process, Crash(p) PROVE Atomic!Next
  BY <1>3, <1>13 DEF Crash, Atomic!Crash
<1>14. CASE PowerCut
  <2>1. PICK f \in survivors : token' \in Kept(f)
    BY <1>14 DEF PowerCut
  <2>2. token' = f
    BY <2>1 DEF Kept, DurableInv, OnDisk
  <2>3. token'.at \in Maybe /\ {g.at : g \in survivors'} = {token'.at}
    BY <1>14, <2>2 DEF PowerCut
  <2> QED
    BY <1>14, <2>3 DEF PowerCut, Atomic!PowerCut, Atomic!Next
<1>15. CASE UNCHANGED vars
  BY <1>15 DEF vars, callVars, abstract
<1> QED
  BY <1>4, <1>5, <1>7, <1>8, <1>9, <1>10, <1>11, <1>12, <1>13, <1>14, <1>15 DEF Next, Run

(***************************************************************************)
(* Seen from its callers, every operation of the store happens at once or  *)
(* not at all, and what has been confirmed outlives a power cut.           *)
(***************************************************************************)
THEOREM StoreIsAtomic == Spec => ImplementsAtomicStore
<1>1. TypeOK /\ LockInv /\ DurableInv /\ CallInv /\ [Next]_vars => CallInv'
  BY CallStep
<1>2. Spec => []CallInv
  BY <1>1, CallInit, DurableAlways, PTL DEF Spec
<1>3. TypeOK /\ LockInv /\ DurableInv /\ CallInv /\ [Next]_vars => [Atomic!Next]_abstract
  BY StepSimulated
<1>4. Spec => Atomic!Init /\ [][Atomic!Next]_abstract
  BY <1>2, <1>3, InitSimulated, DurableAlways, PTL DEF Spec
<1> QED
  BY <1>4, PTL DEF ImplementsAtomicStore, Atomic!Spec, abstract
===============================================================================
