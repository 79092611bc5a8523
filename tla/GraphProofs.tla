------------------------------ MODULE GraphProofs ------------------------------
(***************************************************************************)
(* Proofs about GraphGate and GraphCalls, for any number of threads,       *)
(* permits, attempts, pages and mutations.                                 *)
(***************************************************************************)
EXTENDS GraphCalls, FiniteSetTheorems, TLAPS

--------------------------------------------------------------------------------
(***************************************************************************)
(* The gate by itself. Who is awake answers for a permit in the count.     *)
(***************************************************************************)
Awake == In("woken") \cup In("dropping")

GateInv == GateTypeOK /\ PermitsAreConserved /\ NoPermitIsIdle

LEMMA InIsFinite ==
  ASSUME NEW place
  PROVE  IsFiniteSet(In(place)) /\ Cardinality(In(place)) \in Nat
<1>1. In(place) \in SUBSET Worker
  BY DEF In
<1>2. IsFiniteSet(In(place))
  BY <1>1, WorkerAssumption, FS_Subset
<1> QED
  BY <1>2, FS_CardinalityType

LEMMA AwakeIsFinite == IsFiniteSet(Awake) /\ Cardinality(Awake) \in Nat
<1>1. Awake \in SUBSET Worker
  BY DEF Awake, In
<1>2. IsFiniteSet(Awake)
  BY <1>1, WorkerAssumption, FS_Subset
<1> QED
  BY <1>2, FS_CardinalityType

LEMMA AwakeGrowsOrShrinksByOne ==
  ASSUME NEW w
  PROVE  /\ w \in Awake => Cardinality(Awake \ {w}) = Cardinality(Awake) - 1
         /\ w \notin Awake => Cardinality(Awake \cup {w}) = Cardinality(Awake) + 1
         /\ w \in Awake => Cardinality(Awake \cup {w}) = Cardinality(Awake)
         /\ IsFiniteSet(Awake \ {w})
BY AwakeIsFinite, FS_RemoveElement, FS_AddElement

LEMMA GateInit_Inv == GateInit => GateInv
<1> SUFFICES ASSUME GateInit PROVE GateInv
  OBVIOUS
<1>1. In("in") = {} /\ In("waiting") = {}
  BY DEF GateInit, In
<1>2. Cardinality(In("in")) = 0
  BY <1>1, FS_EmptySet
<1> QED
  BY <1>1, <1>2, PermitsAssumption
     DEF GateInit, GateInv, GateTypeOK, PermitsAreConserved, NoPermitIsIdle, Place

LEMMA GateStep_Inv == GateInv /\ [GateNext]_gateVars => GateInv'
<1> SUFFICES ASSUME GateInv, [GateNext]_gateVars PROVE GateInv'
  OBVIOUS
<1> USE DEF Place
<1>0. /\ GateTypeOK /\ available \in Int /\ available >= 0
      /\ available + Cardinality(In("in")) = Permits
      /\ In("waiting") # {} => available <= Cardinality(Awake)
      /\ Cardinality(In("in")) \in Nat /\ Cardinality(Awake) \in Nat
  BY InIsFinite, AwakeIsFinite
     DEF GateInv, GateTypeOK, PermitsAreConserved, NoPermitIsIdle, Awake
<1>1. CASE UNCHANGED gateVars
  BY <1>1 DEF gateVars, GateInv, GateTypeOK, PermitsAreConserved, NoPermitIsIdle, In
<1>2. ASSUME NEW w \in Worker, Take(w) PROVE GateInv'
  <2>1. Move(w, {"out", "woken"}, "in") /\ available > 0 /\ available' = available - 1
    BY <1>2 DEF Take
  <2>2. /\ In("in")' = In("in") \cup {w} /\ w \notin In("in")
        /\ In("waiting")' = In("waiting") /\ Awake' = Awake \ {w}
    BY <2>1, <1>0 DEF Move, In, Awake, GateTypeOK
  <2>3. Cardinality(In("in") \cup {w}) = Cardinality(In("in")) + 1
    BY <2>2, InIsFinite, FS_AddElement
  <2>4. Cardinality(Awake \ {w}) \in Nat /\ Cardinality(Awake \ {w}) >= Cardinality(Awake) - 1
    <3>1. Cardinality(Awake \ {w}) \in Nat
      BY AwakeGrowsOrShrinksByOne, FS_CardinalityType
    <3>2. CASE w \in Awake
      BY <3>1, <3>2, <1>0, AwakeGrowsOrShrinksByOne
    <3>3. CASE w \notin Awake
      <4>1. Awake \ {w} = Awake
        BY <3>3
      <4> QED
        BY <4>1, <1>0
    <3> QED
      BY <3>2, <3>3
  <2>5. GateTypeOK'
    BY <2>1, <1>0 DEF Move, GateTypeOK
  <2>6. PermitsAreConserved'
    BY <2>1, <2>2, <2>3, <1>0, PermitsAssumption DEF PermitsAreConserved
  <2>7. NoPermitIsIdle'
    BY <2>1, <2>2, <2>4, <1>0 DEF NoPermitIsIdle, Awake
  <2> QED
    BY <2>5, <2>6, <2>7 DEF GateInv
<1>3. ASSUME NEW w \in Worker, Wait(w) \/ GiveUp(w) PROVE GateInv'
  <2>1. PICK to \in {"waiting", "out"} : Move(w, {"out", "woken"}, to)
    BY <1>3 DEF Wait, GiveUp
  <2>2. available = 0 /\ available' = 0
    BY <1>3 DEF Wait, GiveUp
  <2>3. In("in")' = In("in")
    BY <2>1, <1>0 DEF Move, In, GateTypeOK
  <2>4. GateTypeOK'
    BY <2>1, <2>2, <1>0 DEF Move, GateTypeOK
  <2>5. Cardinality(Awake') \in Nat
    <3>1. Awake' \in SUBSET Worker
      BY DEF Awake, In
    <3> QED
      BY <3>1, WorkerAssumption, FS_Subset, FS_CardinalityType
  <2>6. PermitsAreConserved' /\ NoPermitIsIdle'
    BY <2>2, <2>3, <2>5, <1>0 DEF PermitsAreConserved, NoPermitIsIdle, Awake
  <2> QED
    BY <2>4, <2>6 DEF GateInv
<1>4. ASSUME NEW w \in Worker, Wake(w) PROVE GateInv'
  <2>1. Move(w, {"waiting"}, "woken") /\ available' = available
    BY <1>4 DEF Wake
  <2>2. /\ In("in")' = In("in") /\ Awake' = Awake \cup {w} /\ In("waiting") # {}
    BY <2>1, <1>0 DEF Move, In, Awake, GateTypeOK
  <2>3. Cardinality(Awake \cup {w}) \in Nat /\ Cardinality(Awake \cup {w}) >= Cardinality(Awake)
    <3>1. CASE w \in Awake
      <4>1. Cardinality(Awake \cup {w}) = Cardinality(Awake)
        BY <3>1, AwakeGrowsOrShrinksByOne, Zenon
      <4> QED
        BY <4>1, <1>0
    <3>2. CASE w \notin Awake
      BY <3>2, <1>0, AwakeGrowsOrShrinksByOne
    <3> QED
      BY <3>1, <3>2
  <2>4. GateTypeOK'
    BY <2>1, <1>0 DEF Move, GateTypeOK
  <2>5. PermitsAreConserved'
    BY <2>1, <2>2, <1>0 DEF PermitsAreConserved
  <2>6. NoPermitIsIdle'
    BY <2>1, <2>2, <2>3, <1>0 DEF NoPermitIsIdle, Awake
  <2> QED
    BY <2>4, <2>5, <2>6 DEF GateInv
<1>5. ASSUME NEW w \in Worker, Drop(w) PROVE GateInv'
  <2>1. Move(w, {"in"}, "dropping") /\ available' = available + 1
    BY <1>5 DEF Drop
  <2>2. /\ In("in")' = In("in") \ {w} /\ w \in In("in")
        /\ Awake' = Awake \cup {w} /\ w \notin Awake /\ In("waiting")' = In("waiting")
    BY <2>1, <1>0 DEF Move, In, Awake, GateTypeOK
  <2>3. Cardinality(In("in") \ {w}) = Cardinality(In("in")) - 1
    BY <2>2, InIsFinite, FS_RemoveElement
  <2>4. Cardinality(Awake \cup {w}) = Cardinality(Awake) + 1
    BY <2>2, AwakeGrowsOrShrinksByOne
  <2>5. GateTypeOK'
    BY <2>1, <1>0 DEF Move, GateTypeOK
  <2>6. PermitsAreConserved'
    <3>1. Cardinality(In("in")') = Cardinality(In("in")) - 1
      BY <2>2, <2>3, Zenon
    <3> QED
      BY <2>1, <3>1, <1>0, PermitsAssumption DEF PermitsAreConserved
  <2>7. NoPermitIsIdle'
    BY <2>1, <2>2, <2>4, <1>0 DEF NoPermitIsIdle, Awake
  <2> QED
    BY <2>5, <2>6, <2>7 DEF GateInv
<1>6. ASSUME NEW w \in Worker, Notify(w) PROVE GateInv'
  <2>0. available' = available
    BY <1>6 DEF Notify
  <2>1. CASE In("waiting") = {} /\ Move(w, {"dropping"}, "out")
    <3>1. In("in")' = In("in") /\ In("waiting")' = {}
      BY <2>1, <1>0 DEF Move, In, GateTypeOK
    <3>2. GateTypeOK'
      BY <2>0, <2>1, <1>0 DEF Move, GateTypeOK
    <3> QED
      BY <2>0, <3>1, <3>2, <1>0 DEF GateInv, PermitsAreConserved, NoPermitIsIdle
  <2>2. ASSUME NEW v \in In("waiting"), gate[w] = "dropping",
               gate' = [gate EXCEPT ![w] = "out", ![v] = "woken"]
        PROVE  GateInv'
    <3>1. /\ In("in")' = In("in") /\ In("waiting") # {}
          /\ Awake' = (Awake \ {w}) \cup {v} /\ w \in Awake /\ v \notin Awake \ {w}
      BY <2>2, <1>0 DEF In, Awake, GateTypeOK
    <3>2. Cardinality((Awake \ {w}) \cup {v}) = Cardinality(Awake)
      <4>1. Cardinality(Awake \ {w}) = Cardinality(Awake) - 1 /\ IsFiniteSet(Awake \ {w})
        BY <3>1, AwakeGrowsOrShrinksByOne
      <4>2. Cardinality((Awake \ {w}) \cup {v}) = Cardinality(Awake \ {w}) + 1
        BY <4>1, <3>1, FS_AddElement
      <4> QED
        BY <4>1, <4>2, <1>0
    <3>3. GateTypeOK'
      BY <2>0, <2>2, <1>0 DEF GateTypeOK
    <3> QED
      BY <2>0, <3>1, <3>2, <3>3, <1>0
         DEF GateInv, PermitsAreConserved, NoPermitIsIdle, Awake
  <2> QED
    BY <1>6, <2>1, <2>2 DEF Notify
<1> QED
  BY <1>1, <1>2, <1>3, <1>4, <1>5, <1>6 DEF GateNext

LEMMA GateSpec_Inv == GateSpec => []GateInv
BY GateInit_Inv, GateStep_Inv, PTL DEF GateSpec

(***************************************************************************)
(* Every step of GraphCalls is a step of the gate or leaves it alone: no   *)
(* path of retry::send takes or gives back a permit past sem.rs.           *)
(***************************************************************************)
THEOREM CallsUseTheGate == Spec => GateSpec
<1>1. Init => GateInit
  BY DEF Init
<1>2. [Next]_vars => [GateNext]_gateVars
  BY DEF Next, vars, gateVars, GateNext, Proceed, BeginWrite, BeginRead, SkipMutation,
         NextMutation, WritesEnd, NextPage, WalkStops, NextRound, SendExpired, SendExhausted,
         TakeRequest, TokenRefused, GateTake, GateWait, GateWake, GateGivesUp, Exchange,
         PermitDropped, Unauthorized, Retried, WaitTooLong, PreferDropped, SendFails,
         MutationDone, PageHasNext, LastPage, BatchAnswered, SubsThrottled, Finish,
         DeadlinePasses
<1> QED
  BY <1>1, <1>2, PTL DEF Spec, GateSpec

(***************************************************************************)
(* sem.rs: "This is the Graph concurrency ceiling." The count and the      *)
(* permits in hand always make Permits, so that never more requests are in *)
(* flight, whoever times out or is woken for nothing.                      *)
(***************************************************************************)
THEOREM CeilingHolds == Spec => []PermitsAreConserved
<1>1. GateInv => PermitsAreConserved
  BY DEF GateInv
<1> QED
  BY <1>1, CallsUseTheGate, GateSpec_Inv, PTL

(***************************************************************************)
(* sem.rs, Permit::drop and acquire_timeout: no wakeup is lost. While a    *)
(* thread sleeps at the gate, every permit in the count is answered for by *)
(* a thread that is awake.                                                 *)
(***************************************************************************)
THEOREM NoWakeupIsLost == Spec => []NoPermitIsIdle
<1>1. GateInv => NoPermitIsIdle
  BY DEF GateInv
<1> QED
  BY <1>1, CallsUseTheGate, GateSpec_Inv, PTL

--------------------------------------------------------------------------------
(***************************************************************************)
(* The calls. What a send has spent of the allowance of its mutation, and  *)
(* what holds of a call `c` at `p`: the budget covers the attempts that    *)
(* this mutation and the ones after it may still make.                     *)
(***************************************************************************)
Spent(c) == c.attempt + (IF c.auth_retried THEN 1 ELSE 0)

Sending == {"send", "gate", "notify", "answered"}

InBounds(p, c) ==
  /\ p = "send" => c.attempt < MaxAttempts
  /\ p \in Sending \ {"send"} => c.attempt \in 1 .. MaxAttempts
  /\ p = "next" => c.attempt = 0 /\ ~c.auth_retried

Covered(p, c) ==
  c.tool = "write" /\ p \in Sending \cup {"next"} =>
    /\ c.method # "GET"
    /\ p \in Sending => c.todo > 0
    /\ ForWrites(c.todo) <= c.left + Spent(c)

CallOK(p, c) == p \in PC /\ c \in Call /\ InBounds(p, c) /\ Covered(p, c) /\ ~c.lost

CallsInv ==
  /\ pc \in [Worker -> PC]
  /\ call \in [Worker -> Call]
  /\ \A w \in Worker : CallOK(pc[w], call[w])

LEMMA ForWritesStep ==
  /\ \A n \in Nat : ForWrites(n) \in Nat
  /\ ForWrites(0) = 0
  /\ \A n \in Nat \ {0} : ForWrites(n - 1) = ForWrites(n) - (MaxAttempts + 1)
BY AttemptsAssumption DEF ForWrites

LEMMA NoCallType == NoCall \in Call
BY DEF NoCall, Call, Tool, Method, Result

LEMMA BetweenType ==
  ASSUME NEW c \in Call
  PROVE  /\ Between(c) \in Call
         /\ Between(c).attempt = 0 /\ ~Between(c).auth_retried /\ ~Between(c).lost
         /\ Between(c).tool = c.tool /\ Between(c).method = c.method
         /\ Between(c).todo = c.todo /\ Between(c).left = c.left
BY DEF Between, NoCall, Call, Tool, Method, Result

LEMMA UpdateType ==
  ASSUME NEW c \in Call, NEW left \in Nat, NEW attempt \in Nat, NEW retried \in BOOLEAN
  PROVE  /\ [c EXCEPT !.left = left, !.attempt = attempt] \in Call
         /\ [c EXCEPT !.auth_retried = retried, !.attempt = attempt] \in Call
BY DEF Call

\* The next mutation starts with what the allowance has left for it.
LEMMA MutationOverOK ==
  ASSUME NEW p, NEW c, CallOK(p, c), c.tool = "write", c.todo > 0,
         p \in Sending \cup {"next"}
  PROVE  CallOK("next", [Between(c) EXCEPT !.todo = @ - 1])
<1> DEFINE d == [Between(c) EXCEPT !.todo = @ - 1]
<1>1. c \in Call /\ c.todo \in Nat \ {0} /\ c.left \in Nat /\ c.attempt \in Nat
      /\ c.auth_retried \in BOOLEAN
  BY DEF CallOK, Call
<1>2. /\ d \in Call /\ d.attempt = 0 /\ ~d.auth_retried /\ ~d.lost
      /\ d.tool = "write" /\ d.method = c.method /\ d.todo = c.todo - 1 /\ d.left = c.left
  <2>1. Between(c) \in Call /\ Between(c).todo = c.todo
    BY <1>1, BetweenType
  <2>2. d \in Call
    BY <1>1, <2>1 DEF Call
  <2> QED
    BY <1>1, <2>1, <2>2, BetweenType DEF Call
<1>3. c.attempt <= MaxAttempts
  BY <1>1, AttemptsAssumption DEF CallOK, InBounds, Sending
<1>4. ForWrites(c.todo) <= c.left + Spent(c) /\ Spent(c) <= MaxAttempts + 1 /\ Spent(c) \in Nat
  BY <1>1, <1>3, AttemptsAssumption DEF CallOK, Covered, Spent, Sending
<1>5. ForWrites(d.todo) <= d.left
  BY <1>1, <1>2, <1>4, ForWritesStep, AttemptsAssumption
<1>6. InBounds("next", d)
  BY <1>2 DEF InBounds, Sending
<1>7. Covered("next", d)
  BY <1>1, <1>2, <1>5 DEF Covered, Spent, Sending, CallOK
<1> QED
  BY <1>2, <1>6, <1>7 DEF CallOK, PC

LEMMA OutsideOK ==
  ASSUME NEW c \in Call, NEW p \in {"idle", "finish"}, ~c.lost
  PROVE  CallOK(p, c)
BY DEF CallOK, PC, InBounds, Covered, Sending

LEMMA EndsOK ==
  ASSUME NEW c \in Call, NEW result \in Result
  PROVE  CallOK("finish", [NoCall EXCEPT !.tool = c.tool, !.result = result])
<1>1. [NoCall EXCEPT !.tool = c.tool, !.result = result] \in Call
  BY NoCallType DEF Call
<1>2. ~[NoCall EXCEPT !.tool = c.tool, !.result = result].lost
  BY DEF NoCall
<1> QED
  BY <1>1, <1>2, OutsideOK

\* A read or a batch between two requests.
LEMMA BetweenOK ==
  ASSUME NEW p \in {"next", "send"}, NEW c \in Call, NEW n \in Nat, c.tool # "write"
  PROVE  CallOK(p, [Between(c) EXCEPT !.done = n]) /\ CallOK(p, Between(c))
<1>1. Between(c) \in Call /\ [Between(c) EXCEPT !.done = n] \in Call
  BY BetweenType DEF Call
<1>2. /\ Between(c).attempt = 0 /\ ~Between(c).auth_retried /\ ~Between(c).lost
      /\ Between(c).tool # "write"
  BY BetweenType
<1>3. \A field \in {"attempt", "auth_retried", "lost", "tool"} :
        [Between(c) EXCEPT !.done = n][field] = Between(c)[field]
  BY <1>1 DEF Call
<1> QED
  BY <1>1, <1>2, <1>3, AttemptsAssumption DEF CallOK, InBounds, Covered, Sending, PC

\* One call moves on and the others stay.
LEMMA OneMoves ==
  ASSUME CallsInv, NEW w \in Worker, NEW p, NEW c, CallOK(p, c),
         pc' = [pc EXCEPT ![w] = p], call' = [call EXCEPT ![w] = c]
  PROVE  CallsInv'
BY DEF CallsInv, CallOK

LEMMA InitCalls == Init => CallsInv
<1> SUFFICES ASSUME Init PROVE CallsInv
  OBVIOUS
<1>1. \A w \in Worker : pc[w] = "idle" /\ call[w] = NoCall
  BY DEF Init
<1>2. CallOK("idle", NoCall)
  BY NoCallType, OutsideOK DEF NoCall
<1> QED
  BY <1>1, <1>2, NoCallType DEF Init, CallsInv, PC

LEMMA FailsKeeps ==
  ASSUME CallsInv, NEW w \in Worker, NEW from \in Sending, NEW result \in Result,
         Fails(w, from, result)
  PROVE  CallsInv'
<1>1. CallOK(pc[w], call[w]) /\ call[w] \in Call
  BY DEF CallsInv
<1>2. CASE call[w].tool = "write" /\ MutationOver(w, from)
  <2>1. call[w].todo > 0
    BY <1>1, <1>2 DEF CallOK, Covered, MutationOver, Goto
  <2>2. CallOK("next", [Between(call[w]) EXCEPT !.todo = @ - 1])
    BY <1>1, <1>2, <2>1, MutationOverOK DEF MutationOver, Goto
  <2> QED
    BY <1>2, <2>2, OneMoves DEF MutationOver, Goto
<1>3. CASE Ends(w, from, result)
  BY <1>1, <1>3, EndsOK, OneMoves DEF Ends, Goto
<1> QED
  BY <1>2, <1>3 DEF Fails

LEMMA CallsStep == CallsInv /\ [Next]_vars => CallsInv'
<1> SUFFICES ASSUME CallsInv, [Next]_vars PROVE CallsInv'
  OBVIOUS
<1>1. CASE UNCHANGED vars
  BY <1>1 DEF vars, CallsInv
<1>2. ASSUME NEW w \in Worker, UNCHANGED <<pc, call>> PROVE CallsInv'
  BY <1>2 DEF CallsInv
<1> SUFFICES ASSUME NEW w \in Worker,
                    \/ BeginWrite(w) \/ BeginRead(w)
                    \/ Proceed(w) \/ GateWake(w) \/ DeadlinePasses(w)
             PROVE  CallsInv'
  BY <1>1 DEF Next
<1> DEFINE c == call[w]
<1>3. CallOK(pc[w], c) /\ c \in Call /\ pc \in [Worker -> PC] /\ call \in [Worker -> Call]
  BY DEF CallsInv
<1>4. /\ c.todo \in Nat /\ c.left \in Nat /\ c.attempt \in Nat /\ c.done \in Nat
      /\ c.auth_retried \in BOOLEAN /\ c.tool \in Tool /\ c.lost \in BOOLEAN
  BY <1>3 DEF Call
<1>5. ASSUME BeginWrite(w) PROVE CallsInv'
  <2>1. PICK n \in 1 .. MaxItems, m \in Method \ {"GET"} :
          call' = [call EXCEPT ![w] = [NoCall EXCEPT !.tool = "write", !.method = m,
                                                     !.todo = n, !.left = ForWrites(n)]]
    BY <1>5 DEF BeginWrite
  <2> DEFINE d == [NoCall EXCEPT !.tool = "write", !.method = m,
                                 !.todo = n, !.left = ForWrites(n)]
  <2>2. n \in Nat /\ ForWrites(n) \in Nat
    BY ItemsAssumption, ForWritesStep
  <2>3. d \in Call
    BY <2>2, NoCallType DEF Call, Tool, Method
  <2>4. d.attempt = 0 /\ ~d.auth_retried /\ d.method = m /\ d.todo = n /\ d.left = ForWrites(n)
        /\ ~d.lost
    BY DEF NoCall
  <2>5. CallOK("next", d)
    BY <2>2, <2>3, <2>4 DEF CallOK, PC, InBounds, Covered, Spent, Sending
  <2> QED
    BY <1>5, <2>1, <2>5, OneMoves DEF BeginWrite, Goto
<1>6. ASSUME BeginRead(w) PROVE CallsInv'
  <2>1. PICK batch \in BOOLEAN :
          call' = [call EXCEPT ![w] =
                    [NoCall EXCEPT !.tool = IF batch THEN "batch" ELSE "read",
                                   !.method = IF batch THEN "POST" ELSE "GET",
                                   !.left = MaxPages]]
    BY <1>6 DEF BeginRead
  <2> DEFINE d == [NoCall EXCEPT !.tool = IF batch THEN "batch" ELSE "read",
                                 !.method = IF batch THEN "POST" ELSE "GET",
                                 !.left = MaxPages]
  <2>2. d \in Call
    BY PagesAssumption, NoCallType DEF Call, Tool, Method
  <2>3. d.attempt = 0 /\ ~d.auth_retried /\ ~d.lost /\ d.tool # "write"
    BY DEF NoCall
  <2>4. CallOK("next", d)
    BY <2>2, <2>3 DEF CallOK, PC, InBounds, Covered, Sending
  <2> QED
    BY <1>6, <2>1, <2>4, OneMoves DEF BeginRead, Goto
<1>7. ASSUME Finish(w) PROVE CallsInv'
  <2>1. CallOK("idle", NoCall)
    BY NoCallType, OutsideOK DEF NoCall
  <2> QED
    BY <1>7, <2>1, OneMoves DEF Finish, Goto
<1>8. ASSUME SkipMutation(w) PROVE CallsInv'
  <2>1. CallOK("next", [Between(c) EXCEPT !.todo = @ - 1])
    BY <1>3, <1>8, MutationOverOK DEF SkipMutation, MutationOver, Goto
  <2> QED
    BY <1>8, <2>1, OneMoves DEF SkipMutation, MutationOver, Goto
<1>9. ASSUME NEW from \in Sending \cup {"next"}, NEW result \in Result, Ends(w, from, result)
      PROVE  CallsInv'
  BY <1>3, <1>9, EndsOK, OneMoves DEF Ends, Goto
<1>10. ASSUME WritesEnd(w) \/ WalkStops(w) \/ LastPage(w) \/ BatchAnswered(w)
       PROVE  CallsInv'
  BY <1>9, <1>10 DEF WritesEnd, WalkStops, LastPage, BatchAnswered, Sending, Result
<1>11. ASSUME NextMutation(w) \/ NextPage(w) PROVE CallsInv'
  <2>1. pc[w] = "next" /\ pc' = [pc EXCEPT ![w] = "send"] /\ call' = call
        /\ (c.tool = "write" => c.todo > 0)
    BY <1>11 DEF NextMutation, NextPage, Goto
  <2>2. CallOK("send", c)
    BY <1>3, <1>4, <2>1, AttemptsAssumption DEF CallOK, PC, InBounds, Covered, Sending
  <2>3. call' = [call EXCEPT ![w] = c]
    BY <1>3, <2>1
  <2> QED
    BY <2>1, <2>2, <2>3, OneMoves
<1>12. ASSUME NextRound(w) PROVE CallsInv'
  <2> DEFINE d == [c EXCEPT !.done = @ + 1]
  <2>1. d \in Call /\ d.attempt = c.attempt /\ d.tool # "write" /\ d.lost = c.lost
    BY <1>3, <1>4, <1>12 DEF Call, NextRound
  <2>2. CallOK("send", d)
    BY <1>3, <1>12, <2>1, AttemptsAssumption
       DEF CallOK, PC, InBounds, Covered, Sending, NextRound, Goto
  <2> QED
    BY <1>12, <2>2, OneMoves DEF NextRound, Goto
<1>13. ASSUME SendExpired(w) \/ SendExhausted(w) \/ TokenRefused(w) \/ GateGivesUp(w)
                \/ WaitTooLong(w) \/ SendFails(w)
       PROVE  CallsInv'
  BY <1>13, FailsKeeps
     DEF SendExpired, SendExhausted, TokenRefused, GateGivesUp, WaitTooLong, SendFails,
         Sending, Result
<1>14. ASSUME TakeRequest(w) PROVE CallsInv'
  <2> DEFINE d == [c EXCEPT !.left = @ - 1, !.attempt = @ + 1]
  <2>1. c.left > 0 /\ pc[w] = "send" /\ call' = [call EXCEPT ![w] = d]
        /\ pc' = [pc EXCEPT ![w] = "gate"]
    BY <1>14 DEF TakeRequest, Goto
  <2>2. /\ d \in Call /\ d.attempt = c.attempt + 1 /\ d.left = c.left - 1 /\ d.tool = c.tool
        /\ d.method = c.method /\ d.todo = c.todo /\ d.auth_retried = c.auth_retried /\ d.lost = c.lost
    <3>1. c.left - 1 \in Nat /\ c.attempt + 1 \in Nat
      BY <1>4, <2>1
    <3>2. d \in Call
      BY <1>3, <3>1, UpdateType
    <3> QED
      BY <1>3, <3>2 DEF Call
  <2>3. Spent(d) + d.left = Spent(c) + c.left
    BY <1>4, <2>2 DEF Spent
  <2>4. InBounds("gate", d)
    BY <1>3, <1>4, <2>1, <2>2, AttemptsAssumption DEF CallOK, InBounds, Sending
  <2>5. Covered("gate", d)
    BY <1>3, <1>4, <2>1, <2>2, <2>3 DEF CallOK, Covered, Sending, Spent
  <2> QED
    <3>1. ~d.lost
      BY <1>3, <2>2 DEF CallOK
    <3>2. CallOK("gate", d)
      BY <2>2, <2>4, <2>5, <3>1 DEF CallOK, PC
    <3> QED
      BY <2>1, <3>2, OneMoves
<1>15. ASSUME GateTake(w) \/ GateWait(w) \/ GateWake(w) PROVE CallsInv'
  BY <1>2, <1>15 DEF GateTake, GateWait, GateWake
<1>16. ASSUME Exchange(w) \/ PermitDropped(w) PROVE CallsInv'
  <2>1. PICK to \in {"notify", "answered"} :
          pc[w] \in {"gate", "notify"} /\ pc' = [pc EXCEPT ![w] = to] /\ call' = call
    BY <1>16 DEF Exchange, PermitDropped, Goto
  <2>2. CallOK(to, c)
    BY <1>3, <2>1 DEF CallOK, PC, InBounds, Covered, Sending
  <2>3. call' = [call EXCEPT ![w] = c]
    BY <1>3, <2>1
  <2> QED
    BY <2>1, <2>2, <2>3, OneMoves
<1>17. ASSUME Unauthorized(w) PROVE CallsInv'
  <2> DEFINE d == [c EXCEPT !.auth_retried = TRUE, !.attempt = @ - 1]
  <2>1. ~c.auth_retried /\ pc[w] = "answered" /\ call' = [call EXCEPT ![w] = d]
        /\ pc' = [pc EXCEPT ![w] = "send"]
    BY <1>17 DEF Unauthorized, Goto
  <2>2. c.attempt \in 1 .. MaxAttempts
    BY <1>3, <2>1 DEF CallOK, InBounds, Sending
  <2>3. /\ d \in Call /\ d.attempt = c.attempt - 1 /\ d.left = c.left /\ d.tool = c.tool
        /\ d.method = c.method /\ d.todo = c.todo /\ d.auth_retried /\ d.lost = c.lost
    <3>1. c.attempt - 1 \in Nat
      BY <2>2, AttemptsAssumption
    <3>2. d \in Call
      BY <1>3, <3>1, UpdateType
    <3> QED
      BY <1>3, <3>2 DEF Call
  <2>4. Spent(d) = Spent(c)
    BY <1>4, <2>1, <2>3 DEF Spent
  <2>5. InBounds("send", d)
    BY <2>2, <2>3, AttemptsAssumption DEF InBounds, Sending
  <2>6. Covered("send", d)
    BY <1>3, <2>1, <2>3, <2>4 DEF CallOK, Covered, Sending
  <2> QED
    <3>1. ~d.lost
      BY <1>3, <2>3 DEF CallOK
    <3>2. CallOK("send", d)
      BY <2>3, <2>5, <2>6, <3>1 DEF CallOK, PC
    <3> QED
      BY <2>1, <3>2, OneMoves
<1>18. ASSUME Retried(w) PROVE CallsInv'
  <2>1. PICK o \in Outcomes : TriesAgain(c, o) /\ call' = [call EXCEPT ![w] = After(c, o)]
    BY <1>18 DEF Retried
  <2> DEFINE d == After(c, o)
  <2>2. pc[w] = "answered" /\ pc' = [pc EXCEPT ![w] = "send"] /\ c.attempt < MaxAttempts
    BY <1>18, <2>1 DEF Retried, Goto, TriesAgain
  <2>3. /\ d \in Call /\ d.attempt = c.attempt /\ d.left = c.left /\ d.tool = c.tool
        /\ d.method = c.method /\ d.todo = c.todo /\ d.auth_retried = c.auth_retried /\ ~d.lost
    <3> DEFINE lost == c.lost \/ /\ c.tool = "write" /\ ~IsIdempotent(c.method)
                                 /\ o.applied /\ o.answer = "broken"
    <3>1. o.applied \in BOOLEAN
      BY DEF Outcomes
    <3>2. lost \in BOOLEAN /\ ~lost
      BY <1>3, <2>1 DEF CallOK, TriesAgain, Retryable
    <3>3. d = [c EXCEPT !.lost = lost]
      BY DEF After
    <3> HIDE DEF lost, d
    <3>4. d \in Call /\ d.lost = lost
      BY <1>3, <3>2, <3>3 DEF Call
    <3>5. ~d.lost
      BY <3>2, <3>4
    <3> QED
      BY <1>3, <3>3, <3>4, <3>5 DEF Call
  <2> HIDE DEF d
  <2>4. CallOK("send", d)
    BY <1>3, <2>2, <2>3 DEF CallOK, PC, InBounds, Covered, Spent, Sending
  <2> QED
    BY <2>1, <2>2, <2>4, OneMoves DEF d
<1>19. ASSUME PreferDropped(w) PROVE CallsInv'
  <2>1. c.method = "GET" /\ pc[w] = "answered" /\ pc' = [pc EXCEPT ![w] = "send"]
        /\ call' = [call EXCEPT ![w] = Between(c)]
    BY <1>19 DEF PreferDropped, DegradesOn, Goto
  <2>2. c.tool # "write"
    BY <1>3, <2>1 DEF CallOK, Covered, Sending
  <2> QED
    BY <1>3, <1>4, <2>1, <2>2, BetweenOK, OneMoves
<1>20. ASSUME MutationDone(w) PROVE CallsInv'
  <2>1. Fails(w, "answered", "failed")
    BY <1>20 DEF MutationDone, Fails
  <2> QED
    BY <2>1, FailsKeeps DEF Sending, Result
<1>21. ASSUME PageHasNext(w) PROVE CallsInv'
  <2>1. c.tool # "write" /\ pc' = [pc EXCEPT ![w] = "next"]
        /\ call' = [call EXCEPT ![w] = [Between(c) EXCEPT !.done = Between(c).done + 1]]
    BY <1>21 DEF PageHasNext, Goto
  <2>2. Between(c).done + 1 \in Nat
    BY <1>3, BetweenType DEF Call
  <2> QED
    BY <1>3, <2>1, <2>2, BetweenOK, OneMoves
<1>22. ASSUME SubsThrottled(w) PROVE CallsInv'
  BY <1>3, <1>4, <1>22, BetweenOK, OneMoves DEF SubsThrottled, Goto
<1>23. ASSUME DeadlinePasses(w) PROVE CallsInv'
  <2> DEFINE d == [c EXCEPT !.expired = TRUE]
  <2>1. /\ d \in Call /\ d.attempt = c.attempt /\ d.left = c.left /\ d.tool = c.tool
        /\ d.method = c.method /\ d.todo = c.todo /\ d.auth_retried = c.auth_retried /\ d.lost = c.lost
    BY <1>3 DEF Call
  <2>2. CallOK(pc[w], d)
    BY <1>3, <2>1 DEF CallOK, InBounds, Covered, Spent
  <2>3. pc' = [pc EXCEPT ![w] = pc[w]]
    BY <1>3, <1>23 DEF DeadlinePasses
  <2> QED
    BY <1>23, <2>2, <2>3, OneMoves DEF DeadlinePasses
<1> QED
  BY <1>5, <1>6, <1>7, <1>8, <1>10, <1>11, <1>12, <1>13, <1>14, <1>15, <1>16, <1>17, <1>18,
     <1>19, <1>20, <1>21, <1>22, <1>23 DEF Proceed

LEMMA CallsAlways == Spec => []CallsInv
BY InitCalls, CallsStep, PTL DEF Spec

(***************************************************************************)
(* graph/mod.rs, Budget::for_writes: "this allowance never stops a         *)
(* mutation retry.rs would have sent": a write that is about to send has a *)
(* request left, however many attempts, 401s and refused tokens the        *)
(* mutations before it have cost, for any number of them.                  *)
(***************************************************************************)
THEOREM AllowanceIsEnough == Spec => []AllowanceStopsNoMutation
<1>1. CallsInv => AllowanceStopsNoMutation
  <2> SUFFICES ASSUME CallsInv, NEW w \in Worker, call[w].tool = "write", pc[w] = "send"
               PROVE  call[w].left > 0
    BY DEF AllowanceStopsNoMutation
  <2> DEFINE c == call[w]
  <2>1. CallOK("send", c) /\ c \in Call
    BY DEF CallsInv
  <2>2. c.todo \in Nat /\ c.left \in Nat /\ c.attempt \in Nat /\ c.auth_retried \in BOOLEAN
    BY <2>1 DEF Call
  <2>3. c.todo > 0 /\ c.attempt < MaxAttempts /\ ForWrites(c.todo) <= c.left + Spent(c)
    BY <2>1 DEF CallOK, InBounds, Covered, Sending
  <2>4. Spent(c) <= MaxAttempts /\ Spent(c) \in Nat
    BY <2>2, <2>3, AttemptsAssumption DEF Spent
  <2>5. ForWrites(c.todo) >= MaxAttempts + 1
    BY <2>2, <2>3, ForWritesStep, AttemptsAssumption
  <2> QED
    BY <2>2, <2>3, <2>4, <2>5, ForWritesStep, AttemptsAssumption
<1> QED
  BY <1>1, CallsAlways, PTL

(***************************************************************************)
(* graph/mod.rs, is_idempotent: a POST or a PATCH that Graph has carried   *)
(* out and not confirmed is sent again only after a 503 or a 504, on no    *)
(* path through the retries, the 401 and the loop over the mutations.      *)
(***************************************************************************)
THEOREM NothingIsRepeated == Spec => []OnlyGatewaysRepeat
<1>1. CallsInv => OnlyGatewaysRepeat
  BY DEF CallsInv, CallOK, OnlyGatewaysRepeat
<1> QED
  BY <1>1, CallsAlways, PTL

--------------------------------------------------------------------------------
(***************************************************************************)
(* The types, and where a thread is with the gate and with its call.       *)
(***************************************************************************)
PlacesMatch ==
  \A w \in Worker :
    /\ gate[w] = "dropping" <=> pc[w] = "notify"
    /\ pc[w] \notin {"gate", "notify"} => gate[w] = "out"

PlacesInv == GateTypeOK /\ CallsInv /\ PlacesMatch /\ preferTz \in BOOLEAN

LEMMA InitPlaces == Init => PlacesMatch
BY DEF Init, GateInit, PlacesMatch

\* A thread that holds nothing of the gate moves on.
LEMMA OutMoves ==
  ASSUME PlacesInv, NEW w \in Worker, NEW from, NEW to, Goto(w, from, to), to # "notify",
         gate[w] = "out", gate' = gate
  PROVE  PlacesMatch'
BY DEF PlacesInv, PlacesMatch, CallsInv, Goto

LEMMA FailsGoes ==
  ASSUME NEW w \in Worker, NEW from, NEW result, Fails(w, from, result)
  PROVE  Goto(w, from, "next") \/ Goto(w, from, "finish")
BY DEF Fails, MutationOver, Ends

LEMMA PlacesStep == PlacesInv /\ [Next]_vars => PlacesMatch'
<1> SUFFICES ASSUME PlacesInv, [Next]_vars PROVE PlacesMatch'
  OBVIOUS
<1>1. CASE UNCHANGED vars
  BY <1>1 DEF vars, PlacesInv, PlacesMatch
<1> SUFFICES ASSUME NEW w \in Worker,
                    \/ BeginWrite(w) \/ BeginRead(w)
                    \/ Proceed(w) \/ GateWake(w) \/ DeadlinePasses(w)
             PROVE  PlacesMatch'
  BY <1>1 DEF Next
<1>2. /\ gate \in [Worker -> Place] /\ pc \in [Worker -> PC] /\ PlacesMatch
  BY DEF PlacesInv, GateTypeOK, CallsInv
<1>3. ASSUME NEW from \in {"idle", "next", "send", "answered", "finish"}, NEW to \in PC,
             Goto(w, from, to), to # "notify", UNCHANGED gateVars
      PROVE  PlacesMatch'
  <2>1. gate[w] = "out" /\ gate' = gate
    BY <1>2, <1>3 DEF PlacesMatch, Goto, gateVars
  <2> QED
    BY <1>3, <2>1, OutMoves
<1>4. ASSUME \/ BeginWrite(w) \/ BeginRead(w) \/ Finish(w) \/ SkipMutation(w)
             \/ NextMutation(w) \/ WritesEnd(w) \/ NextPage(w) \/ WalkStops(w) \/ NextRound(w)
             \/ TakeRequest(w) \/ Unauthorized(w) \/ Retried(w) \/ PreferDropped(w)
             \/ MutationDone(w) \/ PageHasNext(w) \/ LastPage(w) \/ BatchAnswered(w)
             \/ SubsThrottled(w)
      PROVE  PlacesMatch'
  BY <1>3, <1>4
     DEF BeginWrite, BeginRead, Finish, SkipMutation, NextMutation, WritesEnd, NextPage,
         WalkStops, NextRound, TakeRequest, Unauthorized, Retried, PreferDropped,
         MutationDone, PageHasNext, LastPage, BatchAnswered, SubsThrottled, MutationOver,
         Ends, PC, gateVars
<1>5. ASSUME SendExpired(w) \/ SendExhausted(w) \/ WaitTooLong(w) \/ SendFails(w)
      PROVE  PlacesMatch'
  <2>1. PICK from \in {"send", "answered"} :
          (\E result \in Result : Fails(w, from, result)) /\ UNCHANGED gateVars
    BY <1>5 DEF SendExpired, SendExhausted, WaitTooLong, SendFails, Result, gateVars
  <2> QED
    BY <2>1, <1>3, FailsGoes DEF PC
<1>6. ASSUME TokenRefused(w) PROVE PlacesMatch'
  BY <1>6, FailsGoes, OutMoves DEF TokenRefused, gateVars
<1>7. ASSUME GateTake(w) \/ GateWait(w) \/ GateWake(w) PROVE PlacesMatch'
  <2>1. PICK to \in {"in", "waiting", "woken"} :
          /\ pc[w] = "gate" /\ pc' = pc
          /\ gate' = [gate EXCEPT ![w] = to]
    BY <1>7 DEF GateTake, GateWait, GateWake, Take, Wait, Wake, Move
  <2> QED
    BY <1>2, <2>1 DEF PlacesMatch
<1>8. ASSUME GateGivesUp(w) PROVE PlacesMatch'
  <2>1. PICK to \in {"next", "finish"} :
          pc[w] = "gate" /\ pc' = [pc EXCEPT ![w] = to] /\ gate' = [gate EXCEPT ![w] = "out"]
    BY <1>8, FailsGoes DEF GateGivesUp, GiveUp, Move, Goto
  <2> QED
    BY <1>2, <2>1 DEF PlacesMatch
<1>9. ASSUME Exchange(w) PROVE PlacesMatch'
  BY <1>2, <1>9 DEF Exchange, Drop, Move, Goto, PlacesMatch
<1>10. ASSUME PermitDropped(w) PROVE PlacesMatch'
  <2>1. pc[w] = "notify" /\ pc' = [pc EXCEPT ![w] = "answered"]
    BY <1>10 DEF PermitDropped, Goto
  <2>2. CASE gate' = [gate EXCEPT ![w] = "out"]
    BY <1>2, <2>1, <2>2 DEF PlacesMatch
  <2>3. ASSUME NEW v \in In("waiting"), gate' = [gate EXCEPT ![w] = "out", ![v] = "woken"]
        PROVE  PlacesMatch'
    <3>1. v \in Worker /\ gate[v] = "waiting" /\ v # w /\ pc[v] = "gate"
      BY <1>2, <2>1, <2>3 DEF In, PlacesMatch
    <3> QED
      BY <1>2, <2>1, <2>3, <3>1 DEF PlacesMatch
  <2> QED
    BY <1>10, <2>2, <2>3 DEF PermitDropped, Notify, Move
<1>11. ASSUME DeadlinePasses(w) PROVE PlacesMatch'
  BY <1>2, <1>11 DEF DeadlinePasses, PlacesMatch, gateVars
<1> QED
  BY <1>4, <1>5, <1>6, <1>7, <1>8, <1>9, <1>10, <1>11 DEF Proceed

LEMMA PreferType == preferTz \in BOOLEAN /\ [Next]_vars => preferTz' \in BOOLEAN
<1> SUFFICES ASSUME preferTz \in BOOLEAN, [Next]_vars PROVE preferTz' \in BOOLEAN
  OBVIOUS
<1>1. preferTz' = preferTz \/ preferTz' = FALSE
  BY DEF Next, vars, gateVars, Proceed, BeginWrite, BeginRead, SkipMutation,
         NextMutation, WritesEnd, NextPage, WalkStops, NextRound, SendExpired, SendExhausted,
         TakeRequest, TokenRefused, GateTake, GateWait, GateWake, GateGivesUp, Exchange,
         PermitDropped, Unauthorized, Retried, WaitTooLong, PreferDropped, SendFails,
         MutationDone, PageHasNext, LastPage, BatchAnswered, SubsThrottled, Finish,
         DeadlinePasses
<1> QED
  BY <1>1

(***************************************************************************)
(* Every variable of the gate and of the calls keeps its type, and a       *)
(* thread is at the gate, or owes it a notify_one, just when its call is   *)
(* there: no error path of retry::send leaves a permit behind.             *)
(***************************************************************************)
THEOREM GraphTypeCorrect == Spec => []TypeOK
<1>1. Init => PlacesInv
  <2>1. Init => GateTypeOK /\ preferTz \in BOOLEAN
    BY GateInit_Inv DEF Init, GateInv
  <2> QED
    BY <2>1, InitCalls, InitPlaces DEF PlacesInv
<1>2. PlacesInv /\ GateTypeOK' /\ [Next]_vars => PlacesInv'
  BY PlacesStep, CallsStep, PreferType DEF PlacesInv
<1>3. Spec => []GateTypeOK
  <2>1. GateInv => GateTypeOK
    BY DEF GateInv
  <2> QED
    BY <2>1, CallsUseTheGate, GateSpec_Inv, PTL
<1>4. PlacesInv => TypeOK
  BY DEF PlacesInv, PlacesMatch, CallsInv, TypeOK
<1> QED
  BY <1>1, <1>2, <1>3, <1>4, PTL DEF Spec

================================================================================
