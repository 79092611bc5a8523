------------------------------- MODULE GraphGate -------------------------------
(***************************************************************************)
(* sem.rs: the counting semaphore that bounds the requests in flight to    *)
(* Graph, a count under a mutex and a condition variable.                  *)
(*                                                                         *)
(* Dropping a permit is two steps, the increment under the mutex and the   *)
(* notify_one after it. A thread that was woken has to take the mutex      *)
(* again, and a thread that comes along meanwhile may be first. The        *)
(* condition variable may also wake a thread for no reason.                *)
(***************************************************************************)
EXTENDS Integers, FiniteSets

CONSTANTS Worker,    \* threads that run tool calls
          Permits    \* TODO_MCP_GRAPH_CONCURRENCY

ASSUME WorkerAssumption  == IsFiniteSet(Worker)
ASSUME PermitsAssumption == Permits \in Nat \ {0}

VARIABLES available, \* the count
          gate       \* where each thread is with it

gateVars == <<available, gate>>

\* "woken" is out of wait_timeout and without the mutex, "dropping" between
\* the increment and the notify_one.
Place == {"out", "waiting", "woken", "in", "dropping"}
In(place) == {w \in Worker : gate[w] = place}

GateInit ==
  /\ available = Permits
  /\ gate = [w \in Worker |-> "out"]

Move(w, from, to) == gate[w] \in from /\ gate' = [gate EXCEPT ![w] = to]

--------------------------------------------------------------------------------
(***************************************************************************)
(* acquire_timeout, one action per pass of its loop.                       *)
(***************************************************************************)
\* Wrong: whoever was woken takes it that a permit is there.
TakeUnchecked(w) ==
  /\ Move(w, {"out", "woken"}, "in")
  /\ available > 0 \/ gate[w] = "woken"
  /\ available' = available - 1

Take(w) ==
  /\ Move(w, {"out", "woken"}, "in")
  /\ available > 0
  /\ available' = available - 1

Wait(w) ==
  /\ Move(w, {"out", "woken"}, "waiting")
  /\ available = 0
  /\ UNCHANGED available

\* The timeout has passed, or the wakeup is spurious.
Wake(w) ==
  /\ Move(w, {"waiting"}, "woken")
  /\ UNCHANGED available

GiveUp(w) ==
  /\ Move(w, {"out", "woken"}, "out")
  /\ available = 0
  /\ UNCHANGED available

--------------------------------------------------------------------------------
(***************************************************************************)
(* Permit::drop.                                                           *)
(***************************************************************************)
Drop(w) ==
  /\ Move(w, {"in"}, "dropping")
  /\ available' = available + 1

\* Wrong: the waiters are left to their timeouts.
NotifyNobody(w) ==
  /\ Move(w, {"dropping"}, "out")
  /\ UNCHANGED available

Notify(w) ==
  /\ \/ In("waiting") = {} /\ Move(w, {"dropping"}, "out")
     \/ \E v \in In("waiting") :
          /\ gate[w] = "dropping"
          /\ gate' = [gate EXCEPT ![w] = "out", ![v] = "woken"]
  /\ UNCHANGED available

GateNext ==
  \E w \in Worker : \/ Take(w) \/ Wait(w) \/ Wake(w) \/ GiveUp(w)
                    \/ Drop(w) \/ Notify(w)

GateSpec == GateInit /\ [][GateNext]_gateVars

--------------------------------------------------------------------------------
GateTypeOK ==
  /\ available \in Int
  /\ gate \in [Worker -> Place]

(***************************************************************************)
(* sem.rs: "This is the Graph concurrency ceiling." No permit is lost or   *)
(* made up on any path, timeouts included, and so never more than Permits  *)
(* requests are in flight.                                                 *)
(***************************************************************************)
PermitsAreConserved ==
  /\ available >= 0
  /\ available + Cardinality(In("in")) = Permits

(***************************************************************************)
(* "a permit may have arrived on this very wake": a thread sleeps beside a *)
(* free permit only while somebody else, woken or about to notify, answers *)
(* for that permit. No wakeup is lost.                                     *)
(***************************************************************************)
NoPermitIsIdle ==
  In("waiting") # {} =>
    available <= Cardinality(In("woken") \cup In("dropping"))
================================================================================
