-------------------------------- MODULE Startup --------------------------------
(***************************************************************************)
(* What `doctor` reports of a machine, and whether `serve` starts on it    *)
(* (cli/commands.rs, config.rs, and the checks of auth/mod.rs). A machine  *)
(* is an environment, a data directory, a bearer file and what Microsoft   *)
(* would answer; token.json may be changed by a login or a logout while    *)
(* the report is written. Paths, numbers and zones are valid or rejected;  *)
(* lines that are not findings are left out.                               *)
(***************************************************************************)
EXTENDS Grants, FiniteSets

CONSTANTS
  Machines,   \* [rejected, client, scope, tz, dir, bearer, listens, entra, graphUp];
              \* entra is [says, scope]
  Files       \* token.json: [client, requested, granted, private], Absent or Corrupt

Absent  == [kind |-> "absent"]
Corrupt == [kind |-> "corrupt"]
FileOf(client, requested, granted, private) ==
  [kind |-> "file", client |-> client, requested |-> requested, granted |-> granted,
   private |-> private]

\* The bearer file is there, or blank and can be filled ("regular"); is not there and
\* can be created ("absent"); or it, its link's target, or its directory does not allow
\* that: a directory that is missing, not writable or without hard links, a blank file
\* that is read-only.
BearerStates ==
  {"regular", "absent", "notRegular", "dangling", "unreadable", "uncreatable", "unfillable"}

ASSUME MachinesAssumption ==
  \A m \in Machines : m.bearer \in BearerStates /\ m.listens \in BOOLEAN

\* token.json is none, cannot be read, or has its fields.
ASSUME FilesAssumption == \A f \in Files : f \in {Absent, Corrupt} \/ f.kind = "file"

NoMachine == [dir |-> "none"]

VARIABLES
  section,     \* of the report: the next one to write
  machine,
  tokenJson,
  loaded,      \* token.json as the token store section found it
  reported,    \* how often each cause was reported as a finding
  disturbed    \* history: whether a login or a logout came in between

startVars == <<section, machine, tokenJson, loaded, reported, disturbed>>

--------------------------------------------------------------------------------
(***************************************************************************)
(* resolve_config: a rejected variable falls back to its default.          *)
(***************************************************************************)
IsRejected(var)  == var \in machine.rejected
ClientId         == IF IsRejected("CLIENT_ID") THEN "none" ELSE machine.client
ScopeChoice      == IF IsRejected("SCOPE") THEN "ReadWrite" ELSE machine.scope
RequestedScope   == Requested(ScopeChoice)

\* load_config with Need::ClientId, which `serve` and `login` ask for.
ServeIssues == machine.rejected \cup (IF ClientId = "none" THEN {"CLIENT_ID"} ELSE {})

--------------------------------------------------------------------------------
(***************************************************************************)
(* TokenProvider::token of a process that has just begun, on token.json    *)
(* as it is: a grant, or why there is none.                                *)
(***************************************************************************)
TokenOutcome(file) ==
  IF file = Absent THEN "notLoggedIn"
  ELSE IF file = Corrupt THEN "store"
  ELSE IF file.client # ClientId THEN "wrongApp"
  ELSE IF file.requested # RequestedScope THEN "scopeChanged"
  ELSE IF machine.entra.says # "granted" THEN machine.entra.says
  ELSE LET grant == VetGrant(machine.entra.scope, RequestedScope)
       IN  IF grant \notin Refusals /\ machine.dir = "unusable" THEN "store" ELSE grant

HasToken(outcome) == outcome \in {"ReadOnly", "ReadWrite"}

\* What it leaves: the rotated file, or none after the death of its token.
TokenLeaves(file) ==
  LET outcome == TokenOutcome(file)
  IN  IF HasToken(outcome) THEN FileOf(file.client, file.requested, machine.entra.scope, TRUE)
      ELSE IF outcome = "dead" /\ machine.dir # "unusable" THEN Absent ELSE file

--------------------------------------------------------------------------------
(***************************************************************************)
(* serve(): how it ends before it serves, or that it does. `follow` is     *)
(* TODO_MCP_START_WITHOUT_TOKEN, `file` token.json.                        *)
(***************************************************************************)
KeepsServingWithoutToken == {"notLoggedIn", "unreachable", "refused", "dead"}

\* settle_bearer finds one, creates one or fills a blank file.
BearerSettled == machine.bearer \in {"absent", "regular"}

\* run_http: the address can be bound, and the workers started.
Listens == machine.listens

BootsOn(outcome, follow) == HasToken(outcome) \/ (follow /\ outcome \in KeepsServingWithoutToken)

ServeExit(follow, file) ==
  IF ServeIssues # {} \/ machine.dir = "unusable" \/ ~BearerSettled THEN "2"
  ELSE IF BootsOn(TokenOutcome(file), follow) THEN (IF Listens THEN "serving" ELSE "1")
  ELSE IF TokenOutcome(file) = "notLoggedIn" THEN "3" ELSE "1"

--------------------------------------------------------------------------------
(***************************************************************************)
(* doctor().                                                               *)
(***************************************************************************)
Report(causes) ==
  reported' = [c \in DOMAIN reported \cup causes |->
                 (IF c \in DOMAIN reported THEN reported[c] ELSE 0) + (IF c \in causes THEN 1 ELSE 0)]

If(condition, cause) == IF condition THEN {cause} ELSE {}

Section(from, to) == section = from /\ section' = to

RunDoctor ==
  /\ Section("none", "configuration")
  /\ machine' \in Machines
  /\ tokenJson' \in Files
  /\ UNCHANGED <<loaded, reported, disturbed>>

ReportConfiguration ==
  /\ Section("configuration", "directory")
  /\ Report(machine.rejected
            \cup If(~IsRejected("CLIENT_ID") /\ machine.client = "none", "clientUnset")
            \cup If(~IsRejected("TZ") /\ ~machine.tz, "tzUnset"))
  /\ UNCHANGED <<machine, tokenJson, loaded, disturbed>>

\* A bearer file that cannot be read counts as present or absent, a blank one as
\* present, and one that cannot be created as absent: only its metadata is asked for.
ReportDirectory ==
  /\ Section("directory", "store")
  /\ Report(IF IsRejected("DATA_DIR") THEN {}
            ELSE If(machine.dir = "unusable", "dirUnusable") \cup If(machine.dir = "loose", "dirLoose")
                 \cup If(machine.bearer \in {"notRegular", "dangling"}, "bearer"))
  /\ UNCHANGED <<machine, tokenJson, loaded, disturbed>>

GraphNeeds == {"CLIENT_ID", "TENANT", "SCOPE", "DATA_DIR"}

\* The one gate of the live refresh.
RefreshRuns(file) ==
  /\ machine.rejected \cap GraphNeeds = {}
  /\ ClientId # "none"
  /\ file.kind = "file" /\ file.client = ClientId /\ file.requested = RequestedScope

\* Wrong: another application's file is left to the refresh to report.
StoreCausesOfScope(file) ==
  IF file = Absent THEN {"notLoggedIn"}
  ELSE IF file = Corrupt THEN {"store"}
  ELSE If(~file.private, "fileMode")
       \cup If(~IsRejected("SCOPE") /\ file.requested # RequestedScope, "scopeChanged")
       \cup If(~RefreshRuns(file) /\ Forbidden(file.granted) # {}, "forbidden")

StoreCauses(file) ==
  IF file = Absent THEN {"notLoggedIn"}
  ELSE IF file = Corrupt THEN {"store"}
  ELSE If(~file.private, "fileMode")
       \cup If(ClientId # "none" /\ file.client # ClientId, "wrongApp")
       \cup If(~IsRejected("SCOPE") /\ file.requested # RequestedScope, "scopeChanged")
       \cup If(~RefreshRuns(file) /\ Forbidden(file.granted) # {}, "forbidden")

ReportStore ==
  /\ Section("store", "graph")
  /\ IF IsRejected("DATA_DIR") THEN loaded' = Absent /\ UNCHANGED reported
     ELSE loaded' = tokenJson /\ Report(StoreCauses(tokenJson))
  /\ UNCHANGED <<machine, tokenJson, disturbed>>

\* The provider reads token.json again, and then asks for the lists.
ReportGraph ==
  /\ Section("graph", "done")
  /\ RefreshRuns(loaded)
  /\ tokenJson' = TokenLeaves(tokenJson)
  /\ Report(IF HasToken(TokenOutcome(tokenJson)) THEN If(~machine.graphUp, "graph")
            ELSE {TokenOutcome(tokenJson)})
  /\ UNCHANGED <<machine, loaded, disturbed>>

SkipGraph ==
  /\ Section("graph", "done")
  /\ ~RefreshRuns(loaded)
  /\ UNCHANGED <<machine, tokenJson, loaded, reported, disturbed>>

\* Another process's login or logout.
FileChanges ==
  /\ section \in {"directory", "store", "graph"} /\ ~disturbed
  /\ disturbed' = TRUE
  /\ tokenJson' \in Files \ {tokenJson}
  /\ UNCHANGED <<section, machine, loaded, reported>>

--------------------------------------------------------------------------------
StartInit ==
  /\ section = "none" /\ machine = NoMachine
  /\ tokenJson = Absent /\ loaded = Absent
  /\ reported = <<>> /\ disturbed = FALSE

StartNext ==
  \/ RunDoctor \/ ReportConfiguration \/ ReportDirectory \/ ReportStore
  \/ ReportGraph \/ SkipGraph \/ FileChanges

StartSpec == StartInit /\ [][StartNext]_startVars

--------------------------------------------------------------------------------
Findings == {c \in DOMAIN reported : reported[c] > 0}

(***************************************************************************)
(* Where doctor says "No findings.", serve starts, with each variable left *)
(* out or rejected and each state of the files, unless token.json changed  *)
(* under the report: everything that stops serve is among what doctor      *)
(* looks at, but for what only serve tries. That is to read, create or     *)
(* fill the bearer file, which ends it with 2, and to listen, with 1.      *)
(***************************************************************************)
BearerUntried == {"unreadable", "uncreatable", "unfillable"}

CleanReportMeansServeStarts ==
  section = "done" /\ Findings = {} /\ ~disturbed =>
    \A follow \in BOOLEAN :
      ServeExit(follow, tokenJson) =
        IF machine.bearer \in BearerUntried THEN "2" ELSE IF Listens THEN "serving" ELSE "1"
================================================================================
