------------------------------ MODULE TokenStore ------------------------------
(***************************************************************************)
(* auth/store.rs system call by system call: the flock on .token.lock, the *)
(* temporary file, its fsync, the rename over token.json and the fsync of  *)
(* the directory, in processes that may be killed between any two of them, *)
(* on a machine that may lose power.                                       *)
(*                                                                         *)
(* The lock is taken on an inode, and a name leads to an inode: a process  *)
(* that opened .token.lock before somebody unlinked it would lock another  *)
(* inode than one that opens it after. A file has reached the disk once it *)
(* was fsynced; what a name leads to after a power cut is settled by the   *)
(* fsync of the directory.                                                 *)
(***************************************************************************)
EXTENDS Integers, FiniteSets

CONSTANTS Process, MaxStamp, MaxInode   \* bounds: stamps given, lock files created

ASSUME StampAssumption == MaxStamp \in Nat \ {0}
ASSUME InodeAssumption == MaxInode \in Nat \ {0}

VARIABLES
  token,     \* the file that token.json names
  survivors, \* the files that token.json may name after a power cut
  tmp,       \* the token.json.tmp.* files
  lockname,  \* the inode that .token.lock names, 0 before the first use
  inodes,    \* the lock inodes created so far
  stamp, call,
  pc,        \* the next system call of each process
  handle,    \* the lock inode it has open
  locked     \* does it hold the flock on that inode?

callVars == <<stamp, call>>
lockVars == <<lockname, inodes, handle, locked>>
vars == <<token, survivors, tmp, lockVars, callVars, pc>>

PC == {"idle", "open", "flock", "read", "create", "write", "fsync", "rename",
       "unlink", "sweep", "syncdir", "close"}

(***************************************************************************)
(* `whole`: all of it was written. `synced`: that reached the disk.        *)
(***************************************************************************)
File   == [at: 0 .. MaxStamp, whole: BOOLEAN, synced: BOOLEAN]
Absent == [at |-> 0, whole |-> TRUE, synced |-> TRUE]

Atomic == INSTANCE AtomicTokenStore
            WITH disk <- token.at, maybe <- {f.at : f \in survivors}

Goto(p, from, to) == pc[p] = from /\ pc' = [pc EXCEPT ![p] = to]

\* The process has its outcome, and closes the lock file next.
Done(p, from, outcome) ==
  /\ Goto(p, from, "close")
  /\ call' = [call EXCEPT ![p].outcome = outcome]

Names(f) == token' = f /\ survivors' = survivors \cup {f}

Init ==
  /\ stamp = 1
  /\ token \in {Absent, [Absent EXCEPT !.at = 1]}
  /\ survivors = {token}
  /\ tmp = {}
  /\ lockname = 0 /\ inodes = 0
  /\ call = [p \in Process |-> Atomic!NoCall]
  /\ pc = [p \in Process |-> "idle"]
  /\ handle = [p \in Process |-> 0]
  /\ locked = [p \in Process |-> FALSE]

--------------------------------------------------------------------------------
(***************************************************************************)
(* lock_file: open or create .token.lock, then flock it. The file is       *)
(* closed, and so unlocked, when the operation returns.                    *)
(***************************************************************************)
Begin(p, op, base) ==
  /\ stamp < MaxStamp
  /\ Goto(p, "idle", "open")
  /\ UNCHANGED <<token, survivors, tmp, lockVars>>
  /\ Atomic!Invoke(p, op, base)

\* Wrong: leftovers are swept before the lock is held.
OpenAndSweep(p) ==
  /\ Goto(p, "open", "flock")
  /\ \/ lockname # 0 /\ UNCHANGED <<lockname, inodes>>
     \/ lockname = 0 /\ inodes < MaxInode /\ inodes' = inodes + 1 /\ lockname' = inodes'
  /\ handle' = [handle EXCEPT ![p] = lockname']
  /\ tmp' = {}
  /\ UNCHANGED <<token, survivors, locked, callVars>>

Open(p) ==
  /\ Goto(p, "open", "flock")
  /\ \/ lockname # 0 /\ UNCHANGED <<lockname, inodes>>
     \/ lockname = 0 /\ inodes < MaxInode /\ inodes' = inodes + 1 /\ lockname' = inodes'
  /\ handle' = [handle EXCEPT ![p] = lockname']
  /\ UNCHANGED <<token, survivors, tmp, locked, callVars>>

\* logout with no lock file to be had and no token.json: nothing to do.
OpenFails(p) ==
  /\ \/ Done(p, "open", "failed")
     \/ call[p].op = "logout" /\ token = Absent /\ Done(p, "open", "kept")
  /\ UNCHANGED <<token, survivors, tmp, lockVars, stamp>>

Unlocked(i) == \A q \in Process : ~(locked[q] /\ handle[q] = i)

Flock(p) ==
  /\ Unlocked(handle[p])
  /\ Goto(p, "flock", CASE call[p].op = "login"  -> "create"
                        [] call[p].op = "logout" -> "unlink"
                        [] OTHER                 -> "read")
  /\ locked' = [locked EXCEPT ![p] = TRUE]
  /\ UNCHANGED <<token, survivors, tmp, lockname, inodes, handle, callVars>>

Close(p) ==
  /\ Goto(p, "close", "idle")
  /\ handle' = [handle EXCEPT ![p] = 0]
  /\ locked' = [locked EXCEPT ![p] = FALSE]
  /\ call' = [call EXCEPT ![p] = Atomic!NoCall]
  /\ UNCHANGED <<token, survivors, tmp, lockname, inodes, stamp>>

--------------------------------------------------------------------------------
(***************************************************************************)
(* read_unlocked, and what load, save_atomic(Refresh) and                  *)
(* delete_if_unchanged conclude from it.                                   *)
(***************************************************************************)
Readable == token # Absent /\ token.whole

\* Wrong: a token.json that is missing is waited for, with the lock held.
ReadWaits(p) ==
  /\ token # Absent /\ Done(p, "read", "failed")
  /\ UNCHANGED <<token, survivors, tmp, lockVars, stamp>>

\* Missing or torn, or the read failed. For the delete, missing is no error.
ReadFails(p) ==
  /\ Done(p, "read", IF call[p].op = "dead" /\ token = Absent THEN "kept" ELSE "failed")
  /\ UNCHANGED <<token, survivors, tmp, lockVars, stamp>>

Load(p) ==
  /\ Readable /\ call[p].op = "load"
  /\ Done(p, "read", "read")
  /\ UNCHANGED <<token, survivors, tmp, lockVars, stamp>>

Adopt(p) ==
  /\ Readable /\ call[p].op = "refresh" /\ token.at > call[p].base
  /\ Done(p, "read", "adopted")
  /\ UNCHANGED <<token, survivors, tmp, lockVars, stamp>>

Swap(p) ==
  /\ Readable /\ call[p].op = "refresh" /\ token.at <= call[p].base
  /\ Goto(p, "read", "create")
  /\ UNCHANGED <<token, survivors, tmp, lockVars, callVars>>

Changed(p) ==
  /\ Readable /\ call[p].op = "dead" /\ token.at # call[p].base
  /\ Done(p, "read", "kept")
  /\ UNCHANGED <<token, survivors, tmp, lockVars, stamp>>

StillDead(p) ==
  /\ Readable /\ call[p].op = "dead" /\ token.at = call[p].base
  /\ Goto(p, "read", "unlink")
  /\ UNCHANGED <<token, survivors, tmp, lockVars, callVars>>

--------------------------------------------------------------------------------
(***************************************************************************)
(* save_atomic from the temporary file on.                                 *)
(***************************************************************************)
Own(p) == {f \in tmp : f.at = call[p].new}

Create(p) ==
  /\ Goto(p, "create", "write")
  /\ tmp' = tmp \cup {[at |-> call[p].new, whole |-> FALSE, synced |-> FALSE]}
  /\ UNCHANGED <<token, survivors, lockVars, callVars>>

Filled(f)   == [f EXCEPT !.whole = TRUE]
\* Wrong: nothing waits for the disk.
LeftInPageCache(f) == f
Flushed(f)  == [f EXCEPT !.synced = TRUE]

\* A file that was unlinked meanwhile is written all the same, to no name.
Write(p) ==
  /\ Goto(p, "write", "fsync")
  /\ tmp' = (tmp \ Own(p)) \cup {Filled(f) : f \in Own(p)}
  /\ UNCHANGED <<token, survivors, lockVars, callVars>>

Fsync(p) ==
  /\ Goto(p, "fsync", "rename")
  /\ tmp' = (tmp \ Own(p)) \cup {Flushed(f) : f \in Own(p)}
  /\ UNCHANGED <<token, survivors, lockVars, callVars>>

\* The temporary file stays where it is: no path but the rename's removes it.
WriteFails(p) ==
  /\ \/ Done(p, "create", "failed") \/ Done(p, "write", "failed") \/ Done(p, "fsync", "failed")
  /\ UNCHANGED <<token, survivors, tmp, lockVars, stamp>>

Rename(p) ==
  /\ Goto(p, "rename", "syncdir")
  /\ \E f \in Own(p) : Names(f) /\ tmp' = tmp \ {f}
  /\ call' = [call EXCEPT ![p].outcome = "wrote"]
  /\ UNCHANGED <<lockVars, stamp>>

RenameFails(p) ==
  /\ Done(p, "rename", "failed")
  /\ tmp' = tmp \ Own(p)
  /\ UNCHANGED <<token, survivors, lockVars, stamp>>

\* Wrong: the new name is taken to be on the disk.
SyncNothing(p) ==
  /\ Goto(p, "syncdir", "close")
  /\ call' = [call EXCEPT ![p].settled = TRUE]
  /\ UNCHANGED <<token, survivors, tmp, lockVars, stamp>>

SyncDir(p) ==
  /\ Goto(p, "syncdir", "close")
  /\ survivors' = {token}
  /\ call' = [call EXCEPT ![p].settled = TRUE]
  /\ UNCHANGED <<token, tmp, lockVars, stamp>>

--------------------------------------------------------------------------------
(***************************************************************************)
(* delete and delete_if_unchanged: unlink, sweep the temporary files that  *)
(* a killed process left, sync.                                            *)
(***************************************************************************)
Unlink(p) ==
  /\ Goto(p, "unlink", "sweep")
  /\ \/ token # Absent /\ Names(Absent) /\ call' = [call EXCEPT ![p].outcome = "deleted"]
     \/ token = Absent /\ UNCHANGED <<token, survivors>>
          /\ call' = [call EXCEPT ![p].outcome = "kept"]
  /\ UNCHANGED <<tmp, lockVars, stamp>>

UnlinkFails(p) ==
  /\ Done(p, "unlink", "failed")
  /\ UNCHANGED <<token, survivors, tmp, lockVars, stamp>>

\* Wrong: the lock file goes with the rest.
SweepLockToo(p) ==
  /\ Goto(p, "sweep", "syncdir")
  /\ tmp' = {} /\ lockname' = 0
  /\ UNCHANGED <<token, survivors, inodes, handle, locked, callVars>>

Sweep(p) ==
  /\ Goto(p, "sweep", "syncdir")
  /\ tmp' = {}
  /\ UNCHANGED <<token, survivors, lockVars, callVars>>

--------------------------------------------------------------------------------
\* A process is killed: the kernel closes its lock file.
Crash(p) ==
  /\ pc' = [pc EXCEPT ![p] = "idle"]
  /\ handle' = [handle EXCEPT ![p] = 0]
  /\ locked' = [locked EXCEPT ![p] = FALSE]
  /\ call' = [call EXCEPT ![p] = Atomic!NoCall]
  /\ UNCHANGED <<token, survivors, tmp, lockname, inodes, stamp>>

\* What the disk kept of a file that was never synced is anybody's guess.
Kept(f) == IF f.synced THEN {f} ELSE [at: {f.at}, whole: BOOLEAN, synced: {TRUE}]

PowerCut ==
  /\ \E f \in survivors : token' \in Kept(f)
  /\ survivors' = {token'}
  /\ tmp' = {[f EXCEPT !.whole = FALSE] : f \in tmp}
  /\ pc' = [p \in Process |-> "idle"]
  /\ handle' = [p \in Process |-> 0]
  /\ locked' = [p \in Process |-> FALSE]
  /\ call' = [p \in Process |-> Atomic!NoCall]
  /\ UNCHANGED <<lockname, inodes, stamp>>

Run(p) ==
  \/ Open(p) \/ OpenFails(p)
  \/ ReadFails(p) \/ Load(p) \/ Adopt(p) \/ Swap(p) \/ Changed(p) \/ StillDead(p)
  \/ Create(p) \/ Write(p) \/ Fsync(p) \/ WriteFails(p) \/ Rename(p) \/ RenameFails(p)
  \/ Unlink(p) \/ UnlinkFails(p) \/ Sweep(p) \/ SyncDir(p) \/ Close(p)

Next ==
  \/ \E p \in Process :
       \/ \E op \in Atomic!Op, base \in Atomic!Stamps : Begin(p, op, base)
       \/ Flock(p) \/ Run(p) \/ Crash(p)
  \/ PowerCut

Spec == Init /\ [][Next]_vars

(***************************************************************************)
(* The scheduler runs every process, and flock() is served in turn.        *)
(***************************************************************************)
Fairness == \A p \in Process : WF_vars(Run(p)) /\ SF_vars(Flock(p))

--------------------------------------------------------------------------------
(***************************************************************************)
(* Properties                                                              *)
(***************************************************************************)
(***************************************************************************)
(* The types; and no lock is held by a process that has no operation under *)
(* way.                                                                    *)
(***************************************************************************)
TypeOK ==
  /\ token \in File /\ survivors \subseteq File /\ tmp \subseteq File
  /\ lockname \in 0 .. MaxInode /\ inodes \in 0 .. MaxInode
  /\ stamp \in 0 .. MaxStamp
  /\ call \in [Process -> Atomic!CallRecord]
  /\ pc \in [Process -> PC]
  /\ handle \in [Process -> 0 .. MaxInode]
  /\ locked \in [Process -> BOOLEAN]
  /\ \A p \in Process : pc[p] \in {"idle", "open"} => handle[p] = 0 /\ ~locked[p]

(***************************************************************************)
(* store.rs: "Unlinking a flock file that another process holds or waits   *)
(* on lets a newcomer lock a fresh inode, and two processes would then be  *)
(* inside the critical section at once." They never are.                   *)
(***************************************************************************)
Inside(p) == pc[p] \in PC \ {"idle", "open", "flock", "close"}

OneInside == \A p, q \in Process : Inside(p) /\ Inside(q) => p = q

(***************************************************************************)
(* token.json is whole whenever it is there, after a power cut too: doctor *)
(* reads it without the lock, and the server starts from it.               *)
(***************************************************************************)
NeverTorn == token.whole

(***************************************************************************)
(* "No live tmp file can exist here": a sweep never takes the temporary    *)
(* file of a save under way.                                               *)
(***************************************************************************)
LiveTmpIsThere ==
  \A p \in Process : pc[p] \in {"write", "fsync", "rename"} => Own(p) # {}

(***************************************************************************)
(* Every operation takes effect in one step or not at all, and no power    *)
(* cut undoes one that has returned.                                       *)
(***************************************************************************)
ImplementsAtomicStore == Atomic!Spec

(***************************************************************************)
(* Every operation ends.                                                   *)
(***************************************************************************)
OperationsEnd == \A p \in Process : pc[p] # "idle" ~> pc[p] = "idle"
===============================================================================
