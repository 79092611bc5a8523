----------------------------- MODULE MCTokenStore -----------------------------
(***************************************************************************)
(* An instance of TokenStore for TLC, with the server and a command or     *)
(* `doctor`; and, side by side with it, one of TokenProvider with two      *)
(* threads of the server: what waits for a lock of the token's. Each is    *)
(* checked from all of its initial states while the other stays in one.    *)
(***************************************************************************)
EXTENDS TokenStore

CONSTANTS p1, p2, w1, w2

VARIABLES disk, clock, logins, pending, st, threadPc, noted, base, minted, tries, answer, during

providerVars == <<disk, clock, logins, pending, st, threadPc, noted, base, minted, tries, answer, during>>

Provider == INSTANCE TokenProvider WITH
              Provider <- {p1}, Thread <- {w1, w2}, Owner <- [t \in {w1, w2} |-> p1],
              MaxLogins <- 2, EpochWrap <- 2, Configured <- {TRUE}, Scope <- {"Read"},
              stamp <- clock, pc <- threadPc

StoreStart    == Init /\ token = Absent
ProviderStart == Provider!Init /\ disk = Provider!NoFile

StoreIdle    == StoreStart    /\ UNCHANGED vars
ProviderIdle == ProviderStart /\ UNCHANGED providerVars

LocksInit ==
  \/ Init       /\ ProviderStart
  \/ StoreStart /\ Provider!Init
LocksNext ==
  \/ ProviderIdle /\ Next
  \/ StoreIdle /\ Provider!Next
LocksSpec == LocksInit /\ [][LocksNext]_<<vars, providerVars>> /\ Fairness /\ Provider!Fairness

(***************************************************************************)
(* TokenProvider's property: a thread that holds the state mutex gives it  *)
(* back, whichever way its refresh ends.                                   *)
(***************************************************************************)
MutexIsReleased == Provider!MutexIsReleased
===============================================================================
