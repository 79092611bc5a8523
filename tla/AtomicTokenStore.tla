--------------------------- MODULE AtomicTokenStore ---------------------------
(***************************************************************************)
(* What auth/store.rs promises its callers: each operation on token.json   *)
(* takes effect in one step, or not at all, and what a completed write or  *)
(* delete has left outlives a power cut. TokenProvider is written as if    *)
(* this were the store; TokenStore shows that the store implements it.     *)
(***************************************************************************)
EXTENDS Integers

CONSTANTS Process, MaxStamp

VARIABLES
  disk,    \* the stamp of token.json, 0 when there is none
  maybe,   \* the stamps a power cut may leave in its place
  stamp,   \* the last stamp given to a file
  call     \* the operation each process has under way

Op      == {"none", "load", "refresh", "login", "logout", "dead"}
Outcome == {"pending", "read", "wrote", "adopted", "deleted", "kept", "failed"}

(***************************************************************************)
(* `base`: the file a refresh redeemed. `new`: the file to be written.     *)
(* `settled`: the effect is on the disk for good.                          *)
(***************************************************************************)
Stamps == 0 .. MaxStamp
CallRecord == [op: Op, base: Stamps, new: Stamps, outcome: Outcome, settled: BOOLEAN]
NoCall == [op |-> "none", base |-> 0, new |-> 0, outcome |-> "pending", settled |-> FALSE]

Asked(p) == call[p].op # "none" /\ call[p].outcome = "pending"

Outcomes(p, outcome) == call' = [call EXCEPT ![p].outcome = outcome]

Becomes(p, at, outcome) ==
  /\ disk' = at
  /\ maybe' = maybe \cup {at}
  /\ Outcomes(p, outcome)
  /\ UNCHANGED stamp

Leaves(p, outcome) ==
  /\ Outcomes(p, outcome)
  /\ UNCHANGED <<disk, maybe, stamp>>

(***************************************************************************)
(* A caller names the file it wants replaced or deleted, and stamps the    *)
(* file it brings. A login names none.                                     *)
(***************************************************************************)
Invoke(p, op, base) ==
  /\ call[p] = NoCall
  /\ op # "none"
  /\ op \in {"refresh", "dead"} <=> base # 0
  /\ base <= stamp
  /\ stamp' = IF op \in {"refresh", "login"} THEN stamp + 1 ELSE stamp
  /\ call' = [call EXCEPT ![p] = [NoCall EXCEPT
                !.op = op, !.base = base,
                !.new = IF op \in {"refresh", "login"} THEN stamp + 1 ELSE 0]]
  /\ UNCHANGED <<disk, maybe>>

Effect(p) ==
  LET c == call[p] IN
  /\ Asked(p)
  /\ \/ c.op = "load"    /\ disk # 0      /\ Leaves(p, "read")
     \/ c.op = "refresh" /\ disk > c.base /\ Leaves(p, "adopted")
     \/ c.op = "refresh" /\ disk \in 1 .. c.base /\ Becomes(p, c.new, "wrote")
     \/ c.op = "login"   /\ Becomes(p, c.new, "wrote")
     \/ c.op = "logout"  /\ disk # 0      /\ Becomes(p, 0, "deleted")
     \/ c.op = "logout"  /\ disk = 0      /\ Leaves(p, "kept")
     \/ c.op = "dead"    /\ disk = c.base /\ Becomes(p, 0, "deleted")
     \/ c.op = "dead"    /\ disk # c.base /\ Leaves(p, "kept")

\* No file where one is needed, or an I/O error: nothing has changed.
Fail(p) == Asked(p) /\ Leaves(p, "failed")

Settle(p) ==
  /\ call[p].outcome \in {"wrote", "deleted", "kept"}
  /\ maybe' = {disk}
  /\ call' = [call EXCEPT ![p].settled = TRUE]
  /\ UNCHANGED <<disk, stamp>>

Return(p) ==
  /\ call[p].outcome # "pending"
  /\ call[p].outcome \in {"wrote", "deleted"} => call[p].settled
  /\ call' = [call EXCEPT ![p] = NoCall]
  /\ UNCHANGED <<disk, maybe, stamp>>

\* A process dies, or all of them with the machine.
Crash(p) ==
  /\ call' = [call EXCEPT ![p] = NoCall]
  /\ UNCHANGED <<disk, maybe, stamp>>

PowerCut ==
  /\ disk' \in maybe
  /\ maybe' = {disk'}
  /\ call' = [p \in Process |-> NoCall]
  /\ UNCHANGED stamp

Init ==
  /\ stamp = 1
  /\ disk \in {0, 1}
  /\ maybe = {disk}
  /\ call = [p \in Process |-> NoCall]

Next ==
  \/ \E p \in Process :
       \/ \E op \in Op, base \in Stamps : stamp < MaxStamp /\ Invoke(p, op, base)
       \/ Effect(p) \/ Fail(p) \/ Settle(p) \/ Return(p) \/ Crash(p)
  \/ PowerCut

Spec == Init /\ [][Next]_<<disk, maybe, stamp, call>>
===============================================================================
