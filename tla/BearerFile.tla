------------------------------ MODULE BearerFile ------------------------------
(***************************************************************************)
(* cli/commands.rs: settle_bearer, by which `serve` and `token` read the   *)
(* bearer of the MCP endpoint from its file, or put one there. Any number  *)
(* of processes do so at once, any of them may be killed, and an operator  *)
(* may remove the file or put another one in its place.                    *)
(*                                                                         *)
(* One action is one system call. Inodes and bearers are numbered as they  *)
(* are made, from one counter: 0 is no inode, no bearer, a blank content.  *)
(* A write of one bearer (64 bytes) is whole or does not happen. Power     *)
(* cuts are not modelled, and so the directory's fsync has no effect.      *)
(***************************************************************************)
EXTENDS Integers

CONSTANTS
  Proc,
  Attempts,     \* BEARER_ATTEMPTS
  MaxFresh,     \* bound on the inodes and bearers made
  MaxTouches    \* bound on what the operator does to the path

ASSUME BearerAttemptsAssumption == Attempts \in Nat \ {0}
ASSUME FreshAssumption == MaxFresh \in Nat
ASSUME TouchesAssumption == MaxTouches \in Nat

VARIABLES
  fresh,      \* how many inodes and bearers there have been
  named,      \* the inode at the bearer path
  content,    \* what each inode holds
  touches,    \* how often the operator has touched the path
  at,         \* where each process is
  fd, lock,   \* the bearer file as the process has it open, its flock on it
  draft,      \* the temp name of a BearerDraft, by the inode it leads to
  read,       \* what read_to_string has so far
  tries,
  result,     \* the bearer settle_bearer returned
  touched     \* history: whether the operator came since the attempt began

fileVars   == <<fresh, named, content, touches>>
bearerVars == <<fileVars, at, fd, lock, draft, read, tries, result, touched>>

Id       == 1 .. MaxFresh
Blank    == 0
Stitched == -1     \* the tail of a bearer after a blank beginning

At(p, from, to) == at[p] = from /\ at' = [at EXCEPT ![p] = to]

\* The fd goes out of scope, and its lock with it.
Close(p) == fd' = [fd EXCEPT ![p] = 0] /\ lock' = [lock EXCEPT ![p] = "none"]

\* The next round of settle_bearer's loop.
Retry(p) ==
  /\ tries' = [tries EXCEPT ![p] = tries[p] + 1]
  /\ at' = [at EXCEPT ![p] = IF tries[p] + 1 = Attempts THEN "failed" ELSE "open"]

Return(p, bearer) ==
  /\ at' = [at EXCEPT ![p] = "done"]
  /\ result' = [result EXCEPT ![p] = bearer]

--------------------------------------------------------------------------------
(***************************************************************************)
(* read_bearer.                                                            *)
(***************************************************************************)
StartBearer(p) ==
  /\ At(p, "idle", "open")
  /\ UNCHANGED <<fileVars, fd, lock, draft, read, tries, result, touched>>

OpenMissing(p) ==
  /\ named = 0
  /\ At(p, "open", "draft")
  /\ touched' = [touched EXCEPT ![p] = FALSE]
  /\ UNCHANGED <<fileVars, fd, lock, draft, read, tries, result>>

OpenToRead(p) ==
  /\ named # 0
  /\ At(p, "open", "lockShared")
  /\ fd' = [fd EXCEPT ![p] = named]
  /\ touched' = [touched EXCEPT ![p] = FALSE]
  /\ UNCHANGED <<fileVars, lock, draft, read, tries, result>>

LockShared(p) ==
  /\ \A q \in Proc \ {p} : fd[q] = fd[p] => lock[q] # "exclusive"
  /\ At(p, "lockShared", "read")
  /\ lock' = [lock EXCEPT ![p] = "shared"]
  /\ UNCHANGED <<fileVars, fd, draft, read, tries, result, touched>>

\* read_to_string reads more than once, until a read returns nothing.
ReadFirst(p) ==
  /\ At(p, "read", "readRest")
  /\ read' = [read EXCEPT ![p] = content[fd[p]]]
  /\ UNCHANGED <<fileVars, fd, lock, draft, tries, result, touched>>

ReadBlank(p) ==
  /\ At(p, "readRest", "openWrite")
  /\ read[p] = Blank /\ content[fd[p]] = Blank
  /\ Close(p)
  /\ UNCHANGED <<fileVars, draft, read, tries, result, touched>>

ReadFound(p) ==
  /\ at[p] = "readRest"
  /\ read[p] # Blank \/ content[fd[p]] # Blank
  /\ Return(p, IF read[p] = Blank THEN Stitched ELSE read[p])
  /\ Close(p)
  /\ UNCHANGED <<fileVars, draft, read, tries, touched>>

--------------------------------------------------------------------------------
(***************************************************************************)
(* create_bearer: a draft, published by a hard link, which fails when the  *)
(* path exists. The draft's bearer has the number of its inode.            *)
(***************************************************************************)
WriteDraft(p) ==
  /\ fresh < MaxFresh
  /\ At(p, "draft", "link")
  /\ fresh' = fresh + 1
  /\ content' = [content EXCEPT ![fresh + 1] = fresh + 1]
  /\ draft' = [draft EXCEPT ![p] = fresh + 1]
  /\ UNCHANGED <<named, touches, fd, lock, read, tries, result, touched>>

\* Wrong: rename, which replaces whatever is there.
RenameDraft(p) ==
  /\ At(p, "link", "unlink")
  /\ named' = draft[p]
  /\ UNCHANGED <<fresh, content, touches, fd, lock, draft, read, tries, result, touched>>

LinkDraft(p) ==
  /\ named = 0
  /\ At(p, "link", "unlink")
  /\ named' = draft[p]
  /\ UNCHANGED <<fresh, content, touches, fd, lock, draft, read, tries, result, touched>>

LinkLoses(p) ==
  /\ at[p] = "link" /\ named # 0
  /\ draft' = [draft EXCEPT ![p] = 0]
  /\ Retry(p)
  /\ UNCHANGED <<fileVars, fd, lock, read, result, touched>>

UnlinkDraft(p) ==
  /\ at[p] = "unlink"
  /\ draft' = [draft EXCEPT ![p] = 0]
  /\ Return(p, content[draft[p]])
  /\ UNCHANGED <<fileVars, fd, lock, read, tries, touched>>

--------------------------------------------------------------------------------
(***************************************************************************)
(* fill_blank_bearer and fill_opened_bearer.                               *)
(***************************************************************************)
OpenToWrite(p) ==
  /\ named # 0
  /\ At(p, "openWrite", "lock")
  /\ fd' = [fd EXCEPT ![p] = named]
  /\ UNCHANGED <<fileVars, lock, draft, read, tries, result, touched>>

GoneBeforeWrite(p) ==
  /\ named = 0
  /\ at[p] = "openWrite"
  /\ Retry(p)
  /\ UNCHANGED <<fileVars, fd, lock, draft, read, result, touched>>

LockExclusive(p) ==
  /\ \A q \in Proc \ {p} : fd[q] = fd[p] => lock[q] = "none"
  /\ At(p, "lock", "check")
  /\ lock' = [lock EXCEPT ![p] = "exclusive"]
  /\ UNCHANGED <<fileVars, fd, draft, read, tries, result, touched>>

StillNamed(p) ==
  /\ named = fd[p]
  /\ At(p, "check", "readAgain")
  /\ UNCHANGED <<fileVars, fd, lock, draft, read, tries, result, touched>>

Replaced(p) ==
  /\ at[p] = "check" /\ named # fd[p]
  /\ Close(p)
  /\ Retry(p)
  /\ UNCHANGED <<fileVars, draft, read, result, touched>>

FilledMeanwhile(p) ==
  /\ at[p] = "readAgain" /\ content[fd[p]] # Blank
  /\ Return(p, content[fd[p]])
  /\ Close(p)
  /\ UNCHANGED <<fileVars, draft, read, tries, touched>>

\* Wrong: the file is not read again under the lock.
WasBlank(p) ==
  /\ At(p, "readAgain", "fill")
  /\ UNCHANGED <<fileVars, fd, lock, draft, read, tries, result, touched>>

StillBlank(p) ==
  /\ At(p, "readAgain", "fill")
  /\ content[fd[p]] = Blank
  /\ UNCHANGED <<fileVars, fd, lock, draft, read, tries, result, touched>>

Fill(p) ==
  /\ fresh < MaxFresh
  /\ At(p, "fill", "sync")
  /\ fresh' = fresh + 1
  /\ content' = [content EXCEPT ![fd[p]] = fresh + 1]
  /\ UNCHANGED <<named, touches, fd, lock, draft, read, tries, result, touched>>

FillSynced(p) ==
  /\ at[p] = "sync"
  /\ Return(p, content[fd[p]])
  /\ Close(p)
  /\ UNCHANGED <<fileVars, draft, read, tries, touched>>

FillFails(p) ==
  /\ At(p, "sync", "rollback")
  /\ UNCHANGED <<fileVars, fd, lock, draft, read, tries, result, touched>>

Rollback(p) ==
  /\ At(p, "rollback", "failed")
  /\ \E left \in {Blank, content[fd[p]]} :    \* it may fail too
       content' = [content EXCEPT ![fd[p]] = left]
  /\ Close(p)
  /\ UNCHANGED <<fresh, named, touches, draft, read, tries, result, touched>>

--------------------------------------------------------------------------------
\* Any other system call may fail, and settle_bearer with it.
BearerError(p) ==
  /\ at[p] \in {"open", "read", "draft", "link", "openWrite", "lock", "check", "readAgain", "fill"}
  /\ at' = [at EXCEPT ![p] = "failed"]
  /\ draft' = [draft EXCEPT ![p] = 0]
  /\ Close(p)
  /\ UNCHANGED <<fileVars, read, tries, result, touched>>

Settled == {"idle", "done", "failed", "killed"}

\* The kernel closes what was open; a temp name stays.
Kill(p) ==
  /\ at[p] \notin Settled
  /\ at' = [at EXCEPT ![p] = "killed"]
  /\ Close(p)
  /\ UNCHANGED <<fileVars, draft, read, tries, result, touched>>

\* The operator removes the file, as logout tells him to, or puts in its
\* place a blank one or one with a bearer of his own.
OperatorDeletes ==
  /\ touches < MaxTouches /\ named # 0
  /\ touches' = touches + 1
  /\ named' = 0
  /\ touched' = [p \in Proc |-> TRUE]
  /\ UNCHANGED <<fresh, content, at, fd, lock, draft, read, tries, result>>

OperatorPuts ==
  /\ touches < MaxTouches /\ fresh < MaxFresh
  /\ touches' = touches + 1
  /\ fresh' = fresh + 1
  /\ named' = fresh + 1
  /\ \E bearer \in {Blank, fresh + 1} :
       content' = [content EXCEPT ![fresh + 1] = bearer]
  /\ touched' = [p \in Proc |-> TRUE]
  /\ UNCHANGED <<at, fd, lock, draft, read, tries, result>>

--------------------------------------------------------------------------------
BearerInit ==
  /\ fresh = 0 /\ named = 0 /\ touches = 0
  /\ content = [i \in Id |-> Blank]
  /\ at = [p \in Proc |-> "idle"]
  /\ fd = [p \in Proc |-> 0] /\ lock = [p \in Proc |-> "none"]
  /\ draft = [p \in Proc |-> 0] /\ read = [p \in Proc |-> Blank]
  /\ tries = [p \in Proc |-> 0] /\ result = [p \in Proc |-> 0]
  /\ touched = [p \in Proc |-> FALSE]

\* The calls of settle_bearer, once it has begun.
SettleStep(p) ==
  \/ OpenMissing(p) \/ OpenToRead(p) \/ LockShared(p) \/ ReadFirst(p)
  \/ ReadBlank(p) \/ ReadFound(p)
  \/ WriteDraft(p) \/ LinkDraft(p) \/ LinkLoses(p) \/ UnlinkDraft(p)
  \/ OpenToWrite(p) \/ GoneBeforeWrite(p) \/ LockExclusive(p) \/ StillNamed(p)
  \/ Replaced(p) \/ FilledMeanwhile(p) \/ StillBlank(p)
  \/ Fill(p) \/ FillSynced(p) \/ FillFails(p) \/ Rollback(p)
  \/ BearerError(p)

BearerNext ==
  \/ \E p \in Proc : StartBearer(p) \/ SettleStep(p) \/ Kill(p)
  \/ OperatorDeletes \/ OperatorPuts

BearerSpec == BearerInit /\ [][BearerNext]_bearerVars

--------------------------------------------------------------------------------
(***************************************************************************)
(* settle_bearer, system call by system call, is the agreement that its    *)
(* comment promises: "exactly one caller generates", with the link or the  *)
(* write under the lock; a rollback takes back only what nobody has read;  *)
(* and what is returned is what there is, though it was read earlier.      *)
(***************************************************************************)
Agreed == INSTANCE AgreedBearer WITH
  Bearers <- Id, None <- Blank, answer <- result,
  bearer <- IF named = 0 THEN Blank ELSE content[named]

ImplementsAgreement == Agreed!Spec

(***************************************************************************)
(* The types; a lock is on an open file, and only a process that is        *)
(* publishing its draft, or was killed in the middle, has a temp name.     *)
(***************************************************************************)
BearerTypeOK ==
  /\ fresh \in 0 .. MaxFresh /\ named \in 0 .. MaxFresh /\ touches \in 0 .. MaxTouches
  /\ content \in [Id -> 0 .. MaxFresh]
  /\ at \in [Proc -> {"idle", "open", "lockShared", "read", "readRest", "draft", "link", "unlink",
                      "openWrite", "lock", "check", "readAgain", "fill", "sync", "rollback",
                      "done", "failed", "killed"}]
  /\ fd \in [Proc -> 0 .. MaxFresh]
  /\ lock \in [Proc -> {"none", "shared", "exclusive"}]
  /\ draft \in [Proc -> 0 .. MaxFresh]
  /\ read \in [Proc -> 0 .. MaxFresh]
  /\ tries \in [Proc -> 0 .. Attempts]
  /\ result \in [Proc -> 0 .. MaxFresh]
  /\ touched \in [Proc -> BOOLEAN]
  /\ \A p \in Proc : /\ lock[p] # "none" => fd[p] # 0
                     /\ draft[p] # 0 => at[p] \in {"link", "unlink", "killed"}

(***************************************************************************)
(* settle_bearer: "each must end up with the value the other sees, because *)
(* `serve` enforces the one it returns". A bearer that was returned is the *)
(* one in the file, and so the one that every other process returns, until *)
(* the operator touches the path.                                          *)
(***************************************************************************)
BearersAgree ==
  \A p \in Proc : at[p] = "done" /\ ~touched[p] => named # 0 /\ result[p] = content[named]
================================================================================
