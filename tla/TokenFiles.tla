------------------------------ MODULE TokenFiles ------------------------------
(***************************************************************************)
(* token.json as a value, and the decisions auth/store.rs takes about it.  *)
(*                                                                         *)
(* A file is known by `at`, the microsecond clock reading stored in it as  *)
(* obtained_at. Every file is stamped by a clock read of its own, so `at`  *)
(* also tells two files apart: it stands for the (mtime, len, inode) that  *)
(* observe() compares. `chain` is history, no field of the file: the       *)
(* stamp of the login that began the chain of refresh tokens the file      *)
(* belongs to, so two chains may be two accounts.                          *)
(***************************************************************************)
EXTENDS Integers

CONSTANT Scope        \* the granted scopes that vet_grant lets through

Writer == {"device_code", "refresh", "unreadable", "absent"}

(***************************************************************************)
(* `ours`: client_id and requested_scope are those of the processes here.  *)
(* A file that is missing, or that this build cannot parse (corrupt, or of *)
(* a newer schema), has no field but its stamp and belongs to no chain.    *)
(***************************************************************************)
File == [at: Nat, chain: Nat, by: Writer, from: Nat,
         scope: Scope \cup {"none"}, ours: BOOLEAN]

NoFile == [at |-> 0, chain |-> 0, by |-> "absent", from |-> 0,
           scope |-> "none", ours |-> FALSE]

UnreadableFile(at) == [NoFile EXCEPT !.at = at, !.by = "unreadable"]

LoginFile(at, scope, ours) ==
  [at |-> at, chain |-> at, by |-> "device_code", from |-> 0,
   scope |-> scope, ours |-> ours]

\* The file a refresh writes: the chain of the file it redeemed, which it
\* names in rotated_from.
RotatedFile(base, at, scope) ==
  [base EXCEPT !.at = at, !.by = "refresh", !.from = base.at, !.scope = scope]

\* observe(): 0 when there is no file.
Observe(f) == f.at

Readable(f) == f.by \in {"device_code", "refresh"}

\* Wrong: only a login is worth keeping, not another process's refresh.
OnlyLoginsWin(disk, base) == disk.by = "device_code" /\ disk.at > base.at

\* save_atomic(Refresh): the file on disk is newer than the one redeemed.
DiskWins(disk, base) == disk.at > base.at

\* Wrong: some file is there.
StillThere(disk, base) == Readable(disk)

\* delete_if_unchanged: the file on disk is the one that was redeemed.
Unchanged(disk, base) == Readable(disk) /\ disk.at = base.at
===============================================================================
