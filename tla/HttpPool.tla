------------------------------- MODULE HttpPool -------------------------------
(***************************************************************************)
(* `serve` from its first statement to its exit (cli/commands.rs) and the  *)
(* worker pool it ends in (http.rs): the flags of Shutdown and the signal  *)
(* handlers that read and set them, the boot, the workers that answer      *)
(* requests and may panic, the supervisor that looks after them every 200  *)
(* ms and replaces a limited number of them, and the drain.                *)
(*                                                                         *)
(* A handler runs in whatever thread the signal hits, beside all the       *)
(* others, one handler per signal at a time; the three actions registered  *)
(* for a signal run in the order they were registered in. tiny_http is     *)
(* external: a worker gets a request, nothing, or an error from it, and a  *)
(* request dropped by a panic is answered by it with a 500.                *)
(***************************************************************************)
EXTENDS Naturals

CONSTANTS
  Signal,        \* SIGINT, SIGTERM
  Slot,          \* of the pool, WORKERS of them
  MaxRespawns,
  MaxDeliveries  \* bound on the signals sent

ASSUME RespawnsAssumption == MaxRespawns \in Nat
ASSUME DeliveriesAssumption == MaxDeliveries \in Nat

VARIABLES
  phase,       \* of the main thread
  booting, stopping,   \* Shutdown
  handler,     \* how far the handler of each signal has come
  delivered,   \* history: the signals delivered so far
  worker,      \* the thread in each slot of `workers`
  unseen,      \* slots the supervisor's pass, or the drain, has not reached
  respawns,
  deadline,    \* whether the time of the drain has passed
  unfinished,
  exit         \* how the process ended

serveVars == <<phase, booting, stopping, handler, delivered, worker, unseen, respawns,
               deadline, unfinished, exit>>

Up == exit = "none"

\* Slots whose thread has not ended: looking at a request or for one.
Alive == {w \in Slot : worker[w] \in {"loop", "recv", "busy"}}

--------------------------------------------------------------------------------
(***************************************************************************)
(* Shutdown::install: exit if booting, exit if stopping, set stopping.     *)
(***************************************************************************)
ExitIf(flag, s, next) ==
  /\ exit' = IF flag THEN "signal" ELSE exit
  /\ handler' = [handler EXCEPT ![s] = IF flag THEN "idle" ELSE next]
  /\ UNCHANGED <<phase, booting, stopping, worker, unseen, respawns, deadline, unfinished>>

\* A signal is delivered, and its handler begins.
ExitIfBooting(s) ==
  /\ Up /\ delivered < MaxDeliveries
  /\ handler[s] = "idle"
  /\ delivered' = delivered + 1
  /\ ExitIf(booting, s, "stopping")

ExitIfStopping(s) ==
  /\ Up /\ handler[s] = "stopping"
  /\ ExitIf(stopping, s, "set")
  /\ UNCHANGED delivered

SetStopping(s) ==
  /\ Up /\ handler[s] = "set"
  /\ stopping' = TRUE
  /\ handler' = [handler EXCEPT ![s] = "idle"]
  /\ UNCHANGED <<phase, booting, delivered, worker, unseen, respawns, deadline, unfinished, exit>>

HandlerStep(s) == ExitIfStopping(s) \/ SetStopping(s)

--------------------------------------------------------------------------------
(***************************************************************************)
(* serve(): the configuration and the bearer, then the boot refresh, after *)
(* which it may or may not serve without a token, then the listener.       *)
(***************************************************************************)
Main(from, to) == Up /\ phase = from /\ phase' = to

End(how) ==
  /\ exit' = how
  /\ UNCHANGED <<phase, booting, stopping, handler, delivered, worker, unseen, respawns,
                 deadline, unfinished>>

\* settle_bearer is BearerFile; a signal in it is a Kill there.
BearerReady ==
  /\ Main("bearer", "boot")
  /\ UNCHANGED <<booting, stopping, handler, delivered, worker, unseen, respawns, deadline,
                 unfinished, exit>>

BootFails == Up /\ phase \in {"bearer", "boot"} /\ End("error")

\* Shutdown::serving.
BootEnds ==
  /\ Main("boot", "bind")
  /\ booting' = FALSE
  /\ UNCHANGED <<stopping, handler, delivered, worker, unseen, respawns, deadline, unfinished, exit>>

\* The listener binds, and the workers are spawned.
PoolStarts ==
  /\ Main("bind", "supervise")
  /\ worker' = [w \in Slot |-> "loop"]
  /\ UNCHANGED <<booting, stopping, handler, delivered, unseen, respawns, deadline, unfinished, exit>>

BindFails == Up /\ phase = "bind" /\ End("error")

--------------------------------------------------------------------------------
(***************************************************************************)
(* worker_loop and handle_request.                                         *)
(***************************************************************************)
Thread(w, from, to) ==
  /\ Up /\ worker[w] = from
  /\ worker' = [worker EXCEPT ![w] = to]
  /\ UNCHANGED <<phase, booting, stopping, handler, delivered, unseen, respawns, deadline,
                 unfinished, exit>>

Loop(w)     == Thread(w, "loop", IF stopping THEN "gone" ELSE "recv")
Receive(w)  == Thread(w, "recv", "busy")
Timeout(w)  == Thread(w, "recv", "loop")      \* 500 ms, or unblock()
RecvFails(w) == Thread(w, "recv", "gone")
\* The answer is written, that of a tool that panicked included.
Served(w)   == Thread(w, "busy", "loop")
\* A panic in the guards or in the writing ends the loop.
Panic(w)    == Thread(w, "busy", "gone")

--------------------------------------------------------------------------------
(***************************************************************************)
(* run_http: the supervisor.                                               *)
(***************************************************************************)
Supervising == Up /\ phase = "supervise"

\* Wrong: a thread that has ended is not one to look at.
LookAtLive ==
  /\ Supervising /\ ~stopping /\ unseen = {}
  /\ unseen' = Alive
  /\ UNCHANGED <<phase, booting, stopping, handler, delivered, worker, respawns, deadline,
                 unfinished, exit>>

\* Another pass, 200 ms later, over the threads the pool still has.
Look ==
  /\ Supervising /\ ~stopping /\ unseen = {}
  /\ unseen' = {w \in Slot : worker[w] # "none"}
  /\ UNCHANGED <<phase, booting, stopping, handler, delivered, worker, respawns, deadline,
                 unfinished, exit>>

SeeAlive(w) ==
  /\ Supervising /\ w \in unseen
  /\ w \in Alive
  /\ unseen' = unseen \ {w}
  /\ UNCHANGED <<phase, booting, stopping, handler, delivered, worker, respawns, deadline,
                 unfinished, exit>>

\* Ended because of the flag, not replaced.
SeeEnded(w) ==
  /\ Supervising /\ w \in unseen
  /\ worker[w] = "gone" /\ stopping
  /\ worker' = [worker EXCEPT ![w] = "none"]
  /\ unseen' = unseen \ {w}
  /\ UNCHANGED <<phase, booting, stopping, handler, delivered, respawns, deadline, unfinished, exit>>

\* The new thread is looked at in this pass too.
Respawn(w) ==
  /\ Supervising /\ w \in unseen
  /\ worker[w] = "gone" /\ ~stopping
  /\ respawns < MaxRespawns
  /\ respawns' = respawns + 1
  /\ worker' = [worker EXCEPT ![w] = "loop"]
  /\ UNCHANGED <<phase, booting, stopping, handler, delivered, unseen, deadline, unfinished, exit>>

\* Too many of them, or a thread that cannot be spawned.
Collapse(w) ==
  /\ Supervising /\ w \in unseen
  /\ worker[w] = "gone" /\ ~stopping
  /\ End("error")

(***************************************************************************)
(* The drain: one thread after the other, all until the same deadline.     *)
(***************************************************************************)
DrainBegins ==
  /\ stopping /\ unseen = {}
  /\ Main("supervise", "drain")
  /\ unseen' = {w \in Slot : worker[w] # "none"}
  /\ UNCHANGED <<booting, stopping, handler, delivered, worker, respawns, deadline, unfinished, exit>>

Draining == Up /\ phase = "drain"

DrainTimesOut ==
  /\ Draining /\ ~deadline
  /\ deadline' = TRUE
  /\ UNCHANGED <<phase, booting, stopping, handler, delivered, worker, unseen, respawns,
                 unfinished, exit>>

Joined(w) ==
  /\ Draining /\ w \in unseen
  /\ worker[w] = "gone"
  /\ worker' = [worker EXCEPT ![w] = "none"]
  /\ unseen' = unseen \ {w}
  /\ UNCHANGED <<phase, booting, stopping, handler, delivered, respawns, deadline, unfinished, exit>>

\* Wrong: a worker in a request is waited for, however long it takes.
AbandonIdle(w) ==
  /\ Draining /\ w \in unseen
  /\ worker[w] \in {"loop", "recv"} /\ deadline
  /\ unseen' = unseen \ {w}
  /\ unfinished' = unfinished + 1
  /\ UNCHANGED <<phase, booting, stopping, handler, delivered, worker, respawns, deadline, exit>>

\* Wrong: only a worker that was seen in a request counts as unfinished.
AbandonUncounted(w) ==
  /\ Draining /\ w \in unseen
  /\ w \in Alive /\ deadline
  /\ unseen' = unseen \ {w}
  /\ unfinished' = unfinished + IF worker[w] = "busy" THEN 1 ELSE 0
  /\ UNCHANGED <<phase, booting, stopping, handler, delivered, worker, respawns, deadline, exit>>

Abandoned(w) ==
  /\ Draining /\ w \in unseen
  /\ w \in Alive /\ deadline
  /\ unseen' = unseen \ {w}
  /\ unfinished' = unfinished + 1
  /\ UNCHANGED <<phase, booting, stopping, handler, delivered, worker, respawns, deadline, exit>>

Drained == Draining /\ unseen = {} /\ End("stopped")

--------------------------------------------------------------------------------
ServeInit ==
  /\ phase = "bearer" /\ booting = TRUE /\ stopping = FALSE
  /\ handler = [s \in Signal |-> "idle"] /\ delivered = 0
  /\ worker = [w \in Slot |-> "none"] /\ unseen = {}
  /\ respawns = 0 /\ deadline = FALSE /\ unfinished = 0 /\ exit = "none"

\* The main thread, from the boot refresh on.
MainStep ==
  \/ BootEnds \/ PoolStarts \/ BindFails
  \/ Look \/ DrainBegins \/ Drained
  \/ \E w \in Slot : SeeAlive(w) \/ SeeEnded(w) \/ Respawn(w) \/ Collapse(w)
                       \/ Joined(w) \/ Abandoned(w)

WorkerStep(w) ==
  Loop(w) \/ Receive(w) \/ Timeout(w) \/ RecvFails(w) \/ Served(w) \/ Panic(w)

PoolStep ==
  \/ MainStep \/ DrainTimesOut
  \/ \E w \in Slot : WorkerStep(w)

PoolNext ==
  \/ BearerReady \/ BootFails \/ PoolStep
  \/ \E s \in Signal : ExitIfBooting(s) \/ HandlerStep(s)

PoolSpec == ServeInit /\ [][PoolNext]_serveVars

(***************************************************************************)
(* The main thread runs on: the boot refresh, a bind and a join all have a *)
(* timeout. A signal handler runs to its end, and time passes. Nothing is  *)
(* assumed of the workers: a request may take for ever.                    *)
(***************************************************************************)
PoolFairness ==
  /\ WF_serveVars(MainStep)
  /\ WF_serveVars(DrainTimesOut)
  /\ \A s \in Signal : WF_serveVars(HandlerStep(s))

--------------------------------------------------------------------------------
(***************************************************************************)
(* run_http: a process that has logged `stopped` without the warning has   *)
(* answered every request a worker had taken, those a pass of the          *)
(* supervisor was about to look at as the signal came included.            *)
(***************************************************************************)
DrainedIsAnswered == exit = "stopped" /\ unfinished = 0 => Alive = {}

(***************************************************************************)
(* A signal ends the process, whatever phase it comes in and whether or    *)
(* not its requests end.                                                   *)
(***************************************************************************)
SignalEndsServe == delivered > 0 ~> ~Up

(***************************************************************************)
(* worker_loop: a panic "must not leave a listening socket with no         *)
(* acceptors": a thread that has ended is replaced, or the process stops.  *)
(***************************************************************************)
WorkersAreReplaced ==
  \A w \in Slot : worker[w] = "gone" ~> worker[w] # "gone" \/ stopping \/ ~Up
================================================================================
