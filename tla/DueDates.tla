-------------------------------- MODULE DueDates --------------------------------
(***************************************************************************)
(* domain/datetime.rs, the due window of domain/filter.rs and the sections *)
(* of todo_agenda (tools/read.rs): what date a task is due on, and where   *)
(* that puts it today.                                                     *)
(*                                                                         *)
(* Times are counted in quarters of an hour. A zone is [before, after, at]: *)
(* its offset up to the instant at, and from it on. A Graph date is        *)
(* [wall, zone], a wall clock in a zone that may have no known name.       *)
(*                                                                         *)
(* A case is a task [due, status, flagged, completedOn] and the moment,    *)
(* [now, tz], at which a tool is asked; meant is the date its owner gave.  *)
(***************************************************************************)
EXTENDS Integers, FiniteSets, FiniteSetsExt

CONSTANTS
  Zones,        \* every zone known by name
  Dates,        \* the dates tasks are due on, as day numbers
  Moments,      \* the instants at which tools are asked
  Horizons,     \* horizon_days
  CompletedDays \* include_completed_since_days

Day     == 96
Probes  == 12           \* steps of shift_forward_to_valid
Unknown == [before |-> 0, after |-> 0, at |-> -1000]   \* a zone in neither table
NoDate  == -1000
NoDue   == [wall |-> NoDate, zone |-> Unknown]
NoCase  == [kind |-> "none"]

VARIABLE dateCase

--------------------------------------------------------------------------------
(***************************************************************************)
(* datetime.rs.                                                            *)
(***************************************************************************)
OffsetAt(z, instant) == IF instant < z.at THEN z.before ELSE z.after
WallAt(z, instant)   == instant + OffsetAt(z, instant)
DateAt(z, instant)   == WallAt(z, instant) \div Day

\* from_local_datetime: none, one or two.
FromLocal(z, wall) ==
  {u \in {wall - z.before, wall - z.after} : WallAt(z, u) = wall}

\* The earlier of two; of none, that of the first wall clock after that is one.
LocalToInstant(z, wall) ==
  LET tries == {k \in 0 .. Probes : FromLocal(z, wall + k) # {}}
  IN  IF tries = {} THEN NoDate ELSE Min(FromLocal(z, wall + Min(tries)))

\* Wrong: the date as it stands, whatever its zone.
DateAsWritten(due, tz) == IF due.zone = Unknown THEN NoDate ELSE due.wall \div Day

LocalDate(due, tz) ==
  IF due.zone = Unknown \/ LocalToInstant(due.zone, due.wall) = NoDate THEN NoDate
  ELSE DateAt(tz, LocalToInstant(due.zone, due.wall))

\* date_value of a write: midnight in the zone that is named with it.
GraphMidnight(date, z) == [wall |-> date * Day, zone |-> z]

\* Zones and dates are whole quarters and days, and what stands for none is none.
ASSUME ZonesAssumption == \A z \in Zones : z \in [before : Int, after : Int, at : Int] /\ z # Unknown
ASSUME DatesAssumption ==
  /\ Dates \subseteq Int /\ Moments \subseteq Int /\ Horizons \subseteq Nat
  /\ \A z \in Zones, now \in Moments : DateAt(z, now) # NoDate

--------------------------------------------------------------------------------
(***************************************************************************)
(* filter.rs: score, and the due window of matches. Day 0 is a Monday.     *)
(***************************************************************************)
DueLocal(task, tz) == LocalDate(task.due, tz)

DueOk(window, task, due, today) ==
  LET dated == due # NoDate IN
  CASE window = "any"          -> TRUE
    [] window = "overdue"      -> dated /\ due < today
    [] window = "today"        -> due = today
    [] window = "tomorrow"     -> due = today + 1
    [] window = "this_week"    -> dated /\ due \in today .. today + 6 - (today % 7)
    [] window = "next_7_days"  -> dated /\ due \in today .. today + 7
    [] window = "no_due_date"  -> task.due = NoDue
    [] window = "has_due_date" -> task.due # NoDue

StatusOk(wanted, task) ==
  CASE wanted = "open"      -> task.status # "completed"
    [] wanted = "completed" -> task.status = "completed"
    [] wanted = "any"       -> TRUE

TaskMatches(task, wanted, window, tz, today) ==
  StatusOk(wanted, task) /\ DueOk(window, task, DueLocal(task, tz), today)

--------------------------------------------------------------------------------
(***************************************************************************)
(* read.rs: the one section of the agenda a task is in, if any, and the    *)
(* overdue_count of todo_lists.                                            *)
(***************************************************************************)
\* Wrong: a date that cannot be resolved counts as no date.
OpenSectionOf(task, due, today, horizon) ==
  CASE due = NoDate                                    -> "no_due_date"
    [] due # NoDate /\ due < today                     -> "overdue"
    [] due = today                                     -> "due_today"
    [] due # NoDate /\ due > today + horizon           -> "nowhere"
    [] OTHER                                           -> "due_soon"

OpenSection(task, due, today, horizon) ==
  CASE due # NoDate /\ due < today                     -> "overdue"
    [] due = today                                     -> "due_today"
    [] due # NoDate /\ due \in today + 1 .. today + horizon -> "due_soon"
    [] due = NoDate /\ task.due = NoDue               -> "no_due_date"
    [] OTHER                                           -> "nowhere"

AgendaSection(task, tz, today, horizon, completedDays) ==
  IF task.status = "completed"
  THEN IF task.completedOn # NoDate /\ task.completedOn >= today - completedDays
       THEN "recently_completed" ELSE "nowhere"
  ELSE IF task.flagged THEN "flagged_emails"
  ELSE OpenSection(task, DueLocal(task, tz), today, horizon)

CountedOverdue(task, tz, today) ==
  task.status # "completed" /\ DueLocal(task, tz) # NoDate /\ DueLocal(task, tz) < today

--------------------------------------------------------------------------------
\* How Graph may give back a date that was set in zone z: as it was written,
\* or in another zone that has no second wall clock for that instant.
GivenBack(date, z) ==
  LET midnight == GraphMidnight(date, z)
      instant  == LocalToInstant(z, midnight.wall)
  IN  {midnight} \cup
      {[wall |-> WallAt(s, instant), zone |-> s] :
         s \in {s \in Zones : instant # NoDate /\ Cardinality(FromLocal(s, WallAt(s, instant))) = 1}}

DatedTask(due, status, flagged, completedOn) ==
  [due |-> due, status |-> status, flagged |-> flagged, completedOn |-> completedOn]

AskDate ==
  /\ dateCase = NoCase
  /\ \E date \in Dates, tz \in Zones : \E due \in GivenBack(date, tz) :
       dateCase' = [kind |-> "date", meant |-> date, due |-> due, tz |-> tz]

AskAgenda ==
  /\ dateCase = NoCase
  /\ \E date \in Dates, tz \in Zones, now \in Moments, horizon \in Horizons, days \in CompletedDays :
     \E due \in {NoDue, [wall |-> date * Day, zone |-> Unknown], GraphMidnight(date, tz)},
        status \in {"notStarted", "completed"}, flagged \in BOOLEAN, completedOn \in {NoDate, date} :
       dateCase' = [kind |-> "agenda", task |-> DatedTask(due, status, flagged, completedOn),
                    tz |-> tz, today |-> DateAt(tz, now), horizon |-> horizon, days |-> days]

DateDone == dateCase # NoCase /\ dateCase' = NoCase

DateInit == dateCase = NoCase
DateNext == AskDate \/ AskAgenda \/ DateDone
DateSpec == DateInit /\ [][DateNext]_dateCase

--------------------------------------------------------------------------------
(***************************************************************************)
(* A task is due on the date its owner gave, whatever zone Graph returns   *)
(* that date in, and whatever the clocks do at that midnight: local        *)
(* midnight may not exist, or come twice. The exception is a date that the *)
(* zone itself leaves out (datetime.rs, "the naive reading is wrong by a   *)
(* day for much of the planet").                                           *)
(***************************************************************************)
DatesAreThoseMeant ==
  dateCase.kind = "date" =>
    \/ LocalDate(dateCase.due, dateCase.tz) = dateCase.meant
    \/ LocalToInstant(dateCase.tz, dateCase.meant * Day) = NoDate

(***************************************************************************)
(* The agenda, the search filters and the counts of todo_lists are three   *)
(* pieces of code for one question. An open task that is no flagged email  *)
(* is in the section that the search finds it under, and in none only if   *)
(* it is due beyond the horizon or its zone is unknown, when no filter but *)
(* has_due_date finds it either.                                           *)
(***************************************************************************)
AgendaAgreesWithSearch ==
  dateCase.kind = "agenda" =>
    LET task    == dateCase.task
        today   == dateCase.today
        section == AgendaSection(task, dateCase.tz, today, dateCase.horizon, dateCase.days)
        Finds(window) == TaskMatches(task, "open", window, dateCase.tz, today)
    IN  /\ (section = "overdue") => Finds("overdue")
        /\ CountedOverdue(task, dateCase.tz, today) <=> Finds("overdue")
        /\ task.status # "completed" /\ ~task.flagged =>
             /\ (section = "overdue") <=> Finds("overdue")
             /\ (section = "due_today") <=> Finds("today")
             /\ (section = "no_due_date") <=> Finds("no_due_date")
             /\ Finds("next_7_days") /\ dateCase.horizon >= 7 => section \in {"due_today", "due_soon"}
             /\ section = "nowhere" => Finds("has_due_date") /\ ~Finds("overdue") /\ ~Finds("today")
        /\ section = "recently_completed" => ~Finds("any")
================================================================================
