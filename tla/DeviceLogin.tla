----------------------------- MODULE DeviceLogin ------------------------------
(***************************************************************************)
(* `login`: the device-code loop (auth/device_code.rs), what Entra may say *)
(* to each poll (auth/entra.rs), and finish_login (cli/commands.rs), which *)
(* vets the grant and saves token.json. Seconds; a sleep may oversleep and *)
(* a poll takes its time. The process may be interrupted anywhere.         *)
(***************************************************************************)
EXTENDS Grants, Integers

CONSTANTS
  MaxInterval,   \* MAX_INTERVAL
  Offers,        \* [interval, expiresIn]: what the device endpoint may answer
  Bodies,        \* [error, codes, described]: the error bodies of a poll
  Granted,       \* the scopes a poll may grant; NoScope when it says nothing
  NoScope,
  Delays,        \* how long a sleep or a poll takes more than it should
  Choice         \* the configured scope

ASSUME IntervalAssumption == MaxInterval \in Nat \ {0}
ASSUME OffersAssumption == Offers \subseteq [interval : Nat, expiresIn : Nat]
ASSUME DelaysAssumption == Delays \subseteq Nat

VARIABLES
  step,        \* where login() is
  clock,
  lifeEnds,    \* the deadline
  interval,
  told,        \* history: the interval Entra has asked for, unclamped
  lastPoll,    \* history: when the last poll was sent
  answered,    \* what the successful poll carried
  tokenFile,   \* the grant token.json was saved for, "before" if untouched
  loginResult

loginVars == <<step, clock, lifeEnds, interval, told, lastPoll, answered, tokenFile, loginResult>>

LoginEnded == step = "ended"

Clamp(n)     == IF n < 1 THEN 1 ELSE IF n > MaxInterval THEN MaxInterval ELSE n
AtLeastOne(n) == IF n < 1 THEN 1 ELSE n

LoginAt(from, to) == step = from /\ step' = to

EndLogin(result) == step' = "ended" /\ loginResult' = result

--------------------------------------------------------------------------------
(***************************************************************************)
(* device_code::login.                                                     *)
(***************************************************************************)
DeviceAuthorization ==
  /\ LoginAt("start", "sleep")
  /\ \E offer \in Offers :
       /\ lifeEnds' = clock + AtLeastOne(offer.expiresIn)
       /\ interval' = Clamp(offer.interval)
       /\ told' = offer.interval
  /\ UNCHANGED <<clock, lastPoll, answered, tokenFile, loginResult>>

AuthorizationFails ==
  /\ step = "start"
  /\ EndLogin("error")
  /\ UNCHANGED <<clock, lifeEnds, interval, told, lastPoll, answered, tokenFile>>

Sleep ==
  /\ LoginAt("sleep", "awake")
  /\ \E late \in Delays : clock' = clock + interval + late
  /\ UNCHANGED <<lifeEnds, interval, told, lastPoll, answered, tokenFile, loginResult>>

CodeExpired ==
  /\ step = "awake" /\ clock > lifeEnds
  /\ EndLogin("expired")
  /\ UNCHANGED <<clock, lifeEnds, interval, told, lastPoll, answered, tokenFile>>

Poll ==
  /\ clock <= lifeEnds
  /\ LoginAt("awake", "polling")
  /\ lastPoll' = clock
  /\ UNCHANGED <<clock, lifeEnds, interval, told, answered, tokenFile, loginResult>>

--------------------------------------------------------------------------------
(***************************************************************************)
(* redeem_device_code, and what the loop makes of it.                      *)
(***************************************************************************)
PollTakes == \E late \in Delays : clock' = clock + late

Pending ==
  /\ LoginAt("polling", "sleep")
  /\ PollTakes
  /\ UNCHANGED <<lifeEnds, interval, told, lastPoll, answered, tokenFile, loginResult>>

\* Wrong: the next sleep is as long as the last.
SlowDownIgnored ==
  /\ LoginAt("polling", "sleep")
  /\ PollTakes
  /\ told' = told + 5
  /\ UNCHANGED <<lifeEnds, interval, lastPoll, answered, tokenFile, loginResult>>

SlowDown ==
  /\ LoginAt("polling", "sleep")
  /\ PollTakes
  /\ interval' = IF interval + 5 > MaxInterval THEN MaxInterval ELSE interval + 5
  /\ told' = told + 5
  /\ UNCHANGED <<lifeEnds, lastPoll, answered, tokenFile, loginResult>>

Temporary ==
  /\ LoginAt("polling", "sleep")
  /\ \E body \in Bodies : ~FailureFrom(body).terminal
  /\ PollTakes
  /\ UNCHANGED <<lifeEnds, interval, told, lastPoll, answered, tokenFile, loginResult>>

\* A terminal error of Entra, or no answer that can be read.
PollFails ==
  /\ step = "polling"
  /\ \/ \E body \in Bodies : FailureFrom(body).terminal /\ EndLogin("refused")
     \/ EndLogin("error")
  /\ PollTakes
  /\ UNCHANGED <<lifeEnds, interval, told, lastPoll, answered, tokenFile>>

Success ==
  /\ LoginAt("polling", "vet")
  /\ PollTakes
  /\ answered' \in [scope : Granted \cup {NoScope}, refreshToken : BOOLEAN]
  /\ UNCHANGED <<lifeEnds, interval, told, lastPoll, tokenFile, loginResult>>

--------------------------------------------------------------------------------
(***************************************************************************)
(* finish_login.                                                           *)
(***************************************************************************)
EffectiveScope == IF answered.scope = NoScope THEN Requested(Choice) ELSE answered.scope

Vetted == VetGrant(EffectiveScope, Requested(Choice))

\* Wrong: a grant is saved before it is vetted.
SaveUnvetted ==
  /\ answered.refreshToken
  /\ LoginAt("vet", "report")
  /\ tokenFile' = Vetted
  /\ UNCHANGED <<clock, lifeEnds, interval, told, lastPoll, answered, loginResult>>

\* save_atomic up to its rename. The user has yet to hear of it.
Save ==
  /\ Vetted \notin Refusals /\ answered.refreshToken
  /\ LoginAt("vet", "report")
  /\ tokenFile' = Vetted
  /\ UNCHANGED <<clock, lifeEnds, interval, told, lastPoll, answered, loginResult>>

\* After the rename nothing can fail, but the process may still be interrupted.
ReportSaved ==
  /\ step = "report"
  /\ EndLogin("saved")
  /\ UNCHANGED <<clock, lifeEnds, interval, told, lastPoll, answered, tokenFile>>

SaveFails ==
  /\ step = "vet" /\ Vetted \notin Refusals /\ answered.refreshToken
  /\ EndLogin("error")
  /\ UNCHANGED <<clock, lifeEnds, interval, told, lastPoll, answered, tokenFile>>

GrantRefused ==
  /\ step = "vet" /\ (Vetted \in Refusals \/ ~answered.refreshToken)
  /\ EndLogin("refused")
  /\ UNCHANGED <<clock, lifeEnds, interval, told, lastPoll, answered, tokenFile>>

\* exit_on_interrupt: SIGINT and SIGTERM end a one-shot command.
Interrupted ==
  /\ ~LoginEnded
  /\ EndLogin("interrupted")
  /\ UNCHANGED <<clock, lifeEnds, interval, told, lastPoll, answered, tokenFile>>

--------------------------------------------------------------------------------
LoginInit ==
  /\ step = "start" /\ clock = 0 /\ lifeEnds = 0
  /\ interval = 1 /\ told = 0 /\ lastPoll = 0
  /\ answered = [scope |-> NoScope, refreshToken |-> FALSE]
  /\ tokenFile = "before" /\ loginResult = "none"

LoginStep ==
  \/ Sleep \/ CodeExpired \/ Poll
  \/ Pending \/ SlowDown \/ Temporary \/ PollFails \/ Success
  \/ Save \/ ReportSaved \/ SaveFails \/ GrantRefused

LoginNext == DeviceAuthorization \/ AuthorizationFails \/ LoginStep \/ Interrupted

LoginSpec == LoginInit /\ [][LoginNext]_loginVars

--------------------------------------------------------------------------------
(***************************************************************************)
(* The loop's side of RFC 8628, which entra.rs cites: two polls of a code  *)
(* are never nearer to each other than the interval asked for, with five   *)
(* seconds more after every slow_down, up to the limit of the loop; and    *)
(* none is sent for a code that is past its lifetime.                      *)
(***************************************************************************)
PollsKeepTheInterval ==
  [][lastPoll' # lastPoll =>
       /\ lastPoll' - lastPoll >= (IF told > MaxInterval THEN MaxInterval ELSE told)
       /\ lastPoll' <= lifeEnds]_loginVars

(***************************************************************************)
(* finish_login: "A refused grant returns before the TokenFile is built,   *)
(* so nothing is saved and an existing token.json is untouched". A new     *)
(* file is there only while a save is being reported, after it, or where   *)
(* the process was interrupted in between; a login reported as saved is    *)
(* there; and what is saved carries no more than the operator asked for,   *)
(* even where Entra granted more or, by its silence, just that.            *)
(***************************************************************************)
OnlyVettedLoginsAreSaved ==
  /\ loginResult = "saved" => tokenFile # "before"
  /\ tokenFile # "before" =>
       /\ step = "report" \/ loginResult \in {"saved", "interrupted"}
       /\ tokenFile \in {"ReadOnly", "ReadWrite"}
       /\ Choice = "Read" => tokenFile = "ReadOnly"
       /\ answered.scope # NoScope => answered.scope \cap AllScopes = {}
================================================================================
