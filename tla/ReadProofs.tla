------------------------------- MODULE ReadProofs -------------------------------
(***************************************************************************)
(* What the tools that read promise, each for itself: the date of a task,  *)
(* the section of the agenda it is in, the pages of a search, the list     *)
(* that is found by a name, and the text of a body; for any zones, dates,  *)
(* tasks, limits, names and bodies.                                        *)
(***************************************************************************)
EXTENDS DueDates, SearchCursor, ListNames, Bodies, TLAPS, SequenceTheorems, FiniteSetTheorems, WellFoundedInduction

\* A set of numbers has a least.
LEMMA LeastNatural ==
  ASSUME NEW S \in SUBSET Nat, S # {}
  PROVE  \E n \in S : \A k \in S : n <= k
<1>1. \E n \in S : \A k \in S : ~(<<k, n>> \in OpToRel(<, Nat))
  BY NatLessThanWellFounded, WFMin
<1>2. PICK n \in S : \A k \in S : ~(<<k, n>> \in OpToRel(<, Nat))
  BY <1>1
<1>3. \A k \in S : <<k, n>> \in OpToRel(<, Nat) <=> k < n
  BY DEF OpToRel
<1>4. ASSUME NEW k \in S PROVE n <= k
  <2>1. n \in Nat /\ k \in Nat /\ ~(k < n)
    BY <1>2, <1>3
  <2> QED
    BY <2>1
<1> QED
  BY <1>4

--------------------------------------------------------------------------------
(***************************************************************************)
(* Due dates, in any zones.                                                *)
(***************************************************************************)
Zone3 == [before : Int, after : Int, at : Int]

\* The least of a set of numbers.
LEMMA MinIsLeast ==
  ASSUME NEW S \in SUBSET Nat, S # {}
  PROVE  Min(S) \in S /\ \A k \in S : Min(S) <= k
BY LeastNatural DEF Min

LEMMA PairIsFinite == \A a, b : IsFiniteSet({a} \cup {b})
BY FS_Singleton, FS_AddElement

\* The instants of a wall clock, and the first of them.
LEMMA FromLocalIsRight ==
  ASSUME NEW z \in Zone3, NEW wall \in Int, FromLocal(z, wall) # {}
  PROVE  /\ Min(FromLocal(z, wall)) \in FromLocal(z, wall)
         /\ \A u \in FromLocal(z, wall) : u \in Int /\ WallAt(z, u) = wall
<1>1. \A u \in FromLocal(z, wall) : u \in Int /\ WallAt(z, u) = wall
  BY DEF FromLocal, Zone3
<1>2. \E u \in FromLocal(z, wall) : \A v \in FromLocal(z, wall) : u <= v
  <2>1. PICK a \in Int, b \in Int : FromLocal(z, wall) \subseteq {a, b} /\ a <= b
    <3>1. FromLocal(z, wall) \subseteq {wall - z.before, wall - z.after}
      BY DEF FromLocal
    <3>2. wall - z.before \in Int /\ wall - z.after \in Int
      BY DEF Zone3
    <3>3. CASE wall - z.before <= wall - z.after
      BY <3>1, <3>2, <3>3
    <3>4. CASE wall - z.after <= wall - z.before
      BY <3>1, <3>2, <3>4
    <3> QED
      BY <3>2, <3>3, <3>4
  <2>2. CASE a \in FromLocal(z, wall)
    BY <2>1, <2>2
  <2>3. CASE a \notin FromLocal(z, wall)
    BY <2>1, <2>3
  <2> QED
    BY <2>2, <2>3
<1> QED
  BY <1>1, <1>2 DEF Min

\* The instant that stands for a wall clock: shifted forward to one that is valid.
LEMMA LocalToInstantIsRight ==
  ASSUME NEW z \in Zone3, NEW wall \in Int
  PROVE  \/ LocalToInstant(z, wall) = NoDate
         \/ /\ LocalToInstant(z, wall) \in Int
            /\ \E k \in 0 .. Probes : WallAt(z, LocalToInstant(z, wall)) = wall + k
<1> DEFINE tries == {k \in 0 .. Probes : FromLocal(z, wall + k) # {}}
<1>1. CASE tries = {}
  BY <1>1 DEF LocalToInstant
<1>2. CASE tries # {}
  <2>1. tries \in SUBSET Nat
    BY DEF Probes
  <2>2. Min(tries) \in tries
    BY <1>2, <2>1, MinIsLeast
  <2>3. Min(tries) \in 0 .. Probes /\ wall + Min(tries) \in Int /\ FromLocal(z, wall + Min(tries)) # {}
    BY <2>1, <2>2
  <2>4. LocalToInstant(z, wall) = Min(FromLocal(z, wall + Min(tries)))
    BY <1>2 DEF LocalToInstant
  <2> HIDE DEF tries
  <2> QED
    BY <2>3, <2>4, FromLocalIsRight
<1> QED
  BY <1>1, <1>2

\* A wall clock that a zone has once stands for that instant.
LEMMA OnlyInstant ==
  ASSUME NEW z \in Zone3, NEW u \in Int, Cardinality(FromLocal(z, WallAt(z, u))) = 1
  PROVE  LocalToInstant(z, WallAt(z, u)) = u
<1> DEFINE wall  == WallAt(z, u)
           tries == {k \in 0 .. Probes : FromLocal(z, wall + k) # {}}
<1>1. wall \in Int /\ u \in FromLocal(z, wall)
  BY DEF FromLocal, WallAt, OffsetAt, Zone3
<1>2. IsFiniteSet(FromLocal(z, wall))
  <2>1. IsFiniteSet({wall - z.before} \cup {wall - z.after})
    BY PairIsFinite
  <2>2. FromLocal(z, wall) \in SUBSET ({wall - z.before} \cup {wall - z.after})
    BY DEF FromLocal
  <2> QED
    BY <2>1, <2>2, FS_Subset
<1>3. FromLocal(z, wall) = {u}
  <2>1. \E x : FromLocal(z, wall) = {x}
    BY <1>2, FS_Singleton
  <2> QED
    BY <1>1, <2>1
<1>4. 0 \in tries /\ tries \in SUBSET Nat
  <2>1. wall + 0 = wall
    BY <1>1
  <2> QED
    BY <1>3, <2>1 DEF Probes
<1>5. Min(tries) = 0 /\ tries # {}
  <2>1. Min(tries) \in tries /\ Min(tries) <= 0
    BY <1>4, MinIsLeast
  <2> QED
    BY <1>4, <2>1
<1>6. wall + Min(tries) = wall
  BY <1>1, <1>5
<1>7. LocalToInstant(z, wall) = Min(FromLocal(z, wall + Min(tries)))
  BY <1>5 DEF LocalToInstant
<1>8. Min({u}) = u
  BY DEF Min
<1> HIDE DEF wall, tries
<1>9. LocalToInstant(z, wall) = u
  BY <1>3, <1>6, <1>7, <1>8
<1> QED
  BY <1>9 DEF wall

\* A few quarters after midnight it is still that day.
LEMMA StillThatDay ==
  ASSUME NEW date \in Int, NEW k \in 0 .. Probes
  PROVE  (date * Day + k) \div Day = date
BY DEF Day, Probes

\* A date that comes back is the one that was given.
LEMMA DateComesBack ==
  ASSUME NEW date \in Int, NEW tz \in Zones, NEW due \in GivenBack(date, tz)
  PROVE  LocalDate(due, tz) = date \/ LocalToInstant(tz, date * Day) = NoDate
<1> DEFINE instant == LocalToInstant(tz, date * Day)
<1> SUFFICES ASSUME instant # NoDate PROVE LocalDate(due, tz) = date
  OBVIOUS
<1>1. tz \in Zone3 /\ tz # Unknown /\ date * Day \in Int
  BY ZonesAssumption DEF Zone3, Day
<1>2. PICK k \in 0 .. Probes : instant \in Int /\ WallAt(tz, instant) = date * Day + k
  BY <1>1, LocalToInstantIsRight
<1> HIDE DEF instant
<1>3. DateAt(tz, instant) = date
  BY <1>2, StillThatDay DEF DateAt
<1>4. CASE due = GraphMidnight(date, tz)
  BY <1>1, <1>3, <1>4 DEF GraphMidnight, LocalDate, instant
<1>5. CASE due # GraphMidnight(date, tz)
  <2>1. PICK s \in Zones : /\ due = [wall |-> WallAt(s, instant), zone |-> s]
                           /\ Cardinality(FromLocal(s, WallAt(s, instant))) = 1
    BY <1>5 DEF GivenBack, GraphMidnight, instant
  <2>2. s \in Zone3 /\ s # Unknown
    BY ZonesAssumption DEF Zone3
  <2>3. LocalToInstant(s, WallAt(s, instant)) = instant
    BY <1>2, <2>1, <2>2, OnlyInstant
  <2>4. due.zone = s /\ due.wall = WallAt(s, instant) /\ instant # NoDate
    BY <2>1 DEF instant
  <2> QED
    BY <1>3, <2>2, <2>3, <2>4 DEF LocalDate
<1> QED
  BY <1>4, <1>5

(***************************************************************************)
(* A date is what its owner meant, in any zones (datetime.rs).             *)
(***************************************************************************)
THEOREM DatesComeBack == DateSpec => []DatesAreThoseMeant
<1>1. DateInit => DatesAreThoseMeant
  BY DEF DateInit, DatesAreThoseMeant, NoCase
<1>2. DatesAreThoseMeant /\ [DateNext]_dateCase => DatesAreThoseMeant'
  <2> SUFFICES ASSUME DatesAreThoseMeant, [DateNext]_dateCase PROVE DatesAreThoseMeant'
    OBVIOUS
  <2>1. CASE AskDate
    <3>1. PICK date \in Dates, tz \in Zones : \E due \in GivenBack(date, tz) :
            dateCase' = [kind |-> "date", meant |-> date, due |-> due, tz |-> tz]
      BY <2>1 DEF AskDate
    <3>2. PICK due \in GivenBack(date, tz) :
            dateCase' = [kind |-> "date", meant |-> date, due |-> due, tz |-> tz]
      BY <3>1
    <3>3. LocalDate(due, tz) = date \/ LocalToInstant(tz, date * Day) = NoDate
      BY DatesAssumption, DateComesBack
    <3>4. dateCase'.due = due /\ dateCase'.tz = tz /\ dateCase'.meant = date
      BY <3>2
    <3> QED
      BY <3>3, <3>4 DEF DatesAreThoseMeant
  <2>2. CASE AskAgenda \/ DateDone
    <3>1. AskAgenda => dateCase'.kind = "agenda"
      <4> HIDE DEF DatedTask, DateAt, GraphMidnight, NoDue
      <4> QED
        BY DEF AskAgenda
    <3>2. dateCase'.kind # "date"
      BY <2>2, <3>1 DEF DateDone, NoCase
    <3> QED
      BY <3>2 DEF DatesAreThoseMeant
  <2>3. CASE UNCHANGED dateCase
    BY <2>3 DEF DatesAreThoseMeant
  <2> QED
    BY <2>1, <2>2, <2>3 DEF DateNext
<1> QED
  BY <1>1, <1>2, PTL DEF DateSpec

\* What the agenda says of a task, the search does.
LEMMA AgendaIsAgreed ==
  ASSUME AskAgenda
  PROVE  AgendaAgreesWithSearch'
<1>1. PICK date \in Dates, tz \in Zones, moment \in Moments, horizon \in Horizons, days \in CompletedDays :
        \E due \in {NoDue, [wall |-> date * Day, zone |-> Unknown], GraphMidnight(date, tz)},
           status \in {"notStarted", "completed"}, flagged \in BOOLEAN, completedOn \in {NoDate, date} :
          dateCase' = [kind |-> "agenda", task |-> DatedTask(due, status, flagged, completedOn),
                       tz |-> tz, today |-> DateAt(tz, moment), horizon |-> horizon, days |-> days]
  BY DEF AskAgenda
<1>2. PICK due \in {NoDue, [wall |-> date * Day, zone |-> Unknown], GraphMidnight(date, tz)},
           status \in {"notStarted", "completed"}, flagged \in BOOLEAN, completedOn \in {NoDate, date} :
        dateCase' = [kind |-> "agenda", task |-> DatedTask(due, status, flagged, completedOn),
                     tz |-> tz, today |-> DateAt(tz, moment), horizon |-> horizon, days |-> days]
  BY <1>1
<1> DEFINE task  == DatedTask(due, status, flagged, completedOn)
           today == DateAt(tz, moment)
           on    == DueLocal(task, tz)
<1>3. today \in Int /\ today # NoDate /\ horizon \in Nat
  BY DatesAssumption, ZonesAssumption DEF DateAt, WallAt, OffsetAt, Day
<1>4. task.due = NoDue => on = NoDate
  BY DEF DueLocal, LocalDate, NoDue
<1>5. task.status = status /\ task.flagged = flagged /\ task.due = due
  BY DEF DatedTask
<1>6. /\ dateCase'.task = task /\ dateCase'.tz = tz /\ dateCase'.today = today
      /\ dateCase'.horizon = horizon /\ dateCase'.days = days
  BY <1>2
<1> HIDE DEF task, today
<1>7. \A window : TaskMatches(task, "open", window, tz, today) <=>
                    status # "completed" /\ DueOk(window, task, on, today)
  BY <1>5 DEF TaskMatches, StatusOk
<1>8. CountedOverdue(task, tz, today) <=> (status # "completed" /\ on # NoDate /\ on < today)
  BY <1>5 DEF CountedOverdue
<1>9. /\ DueOk("overdue", task, on, today) <=> (on # NoDate /\ on < today)
      /\ DueOk("today", task, on, today) <=> (on = today)
      /\ DueOk("next_7_days", task, on, today) <=> (on # NoDate /\ on \in today .. today + 7)
      /\ DueOk("no_due_date", task, on, today) <=> (task.due = NoDue)
      /\ DueOk("has_due_date", task, on, today) <=> (task.due # NoDue)
  BY DEF DueOk
<1> DEFINE section == AgendaSection(task, tz, today, horizon, days)
           open    == OpenSection(task, on, today, horizon)
<1> HIDE DEF on, open
<1>10. /\ (open = "overdue") <=> (on # NoDate /\ on < today)
       /\ (open = "due_today") <=> (on = today)
       /\ (open = "no_due_date") <=> (task.due = NoDue)
       /\ on # NoDate /\ on \in today .. today + 7 /\ horizon >= 7 => open \in {"due_today", "due_soon"}
       /\ open = "nowhere" => task.due # NoDue /\ ~(on # NoDate /\ on < today) /\ on # today
       /\ open # "recently_completed"
  BY <1>3, <1>4 DEF open, OpenSection
<1>11. /\ status = "completed" => section \in {"recently_completed", "nowhere"}
       /\ status # "completed" /\ flagged => section = "flagged_emails"
       /\ status # "completed" /\ ~flagged => section = open
  BY <1>5 DEF AgendaSection, open, on
<1> HIDE DEF section
<1>12. /\ section = "overdue" => TaskMatches(task, "open", "overdue", tz, today)
       /\ CountedOverdue(task, tz, today) <=> TaskMatches(task, "open", "overdue", tz, today)
       /\ status # "completed" /\ ~flagged =>
            /\ (section = "overdue") <=> TaskMatches(task, "open", "overdue", tz, today)
            /\ (section = "due_today") <=> TaskMatches(task, "open", "today", tz, today)
            /\ (section = "no_due_date") <=> TaskMatches(task, "open", "no_due_date", tz, today)
            /\ TaskMatches(task, "open", "next_7_days", tz, today) /\ horizon >= 7 =>
                 section \in {"due_today", "due_soon"}
            /\ section = "nowhere" => /\ TaskMatches(task, "open", "has_due_date", tz, today)
                                      /\ ~TaskMatches(task, "open", "overdue", tz, today)
                                      /\ ~TaskMatches(task, "open", "today", tz, today)
       /\ section = "recently_completed" => ~TaskMatches(task, "open", "any", tz, today)
  BY <1>7, <1>8, <1>9, <1>10, <1>11
<1> QED
  BY <1>5, <1>6, <1>12 DEF AgendaAgreesWithSearch, section

(***************************************************************************)
(* The three pieces of code agree on each task, on any day and in any      *)
(* zone (read.rs, filter.rs).                                              *)
(***************************************************************************)
THEOREM AgendaAndSearchAgree == DateSpec => []AgendaAgreesWithSearch
<1>1. DateInit => AgendaAgreesWithSearch
  BY DEF DateInit, AgendaAgreesWithSearch, NoCase
<1>2. AgendaAgreesWithSearch /\ [DateNext]_dateCase => AgendaAgreesWithSearch'
  <2> SUFFICES ASSUME AgendaAgreesWithSearch, [DateNext]_dateCase PROVE AgendaAgreesWithSearch'
    OBVIOUS
  <2>1. CASE AskAgenda
    BY <2>1, AgendaIsAgreed
  <2>2. CASE AskDate \/ DateDone
    <3>1. dateCase'.kind # "agenda"
      BY <2>2 DEF AskDate, DateDone, NoCase
    <3> QED
      BY <3>1 DEF AgendaAgreesWithSearch
  <2>3. CASE UNCHANGED dateCase
    BY <2>3 DEF AgendaAgreesWithSearch
  <2> QED
    BY <2>1, <2>2, <2>3 DEF DateNext
<1> QED
  BY <1>1, <1>2, PTL DEF DateSpec

--------------------------------------------------------------------------------
(***************************************************************************)
(* The pages of a search.                                                  *)
(***************************************************************************)
Offered(c)   == c # NoCursor => c.o \in Nat /\ c.g \in Nat
UpToDate(c)  == c = NoCursor \/ (c.a = mailbox /\ c.g = generation)
ShownUpTo(o) == o <= Len(Sorted(matching)) /\ walked = SubSeq(Sorted(matching), 1, o)

\* The world, and what a search has to go by.
WalkTypeOK ==
  /\ matching \subseteq Tasks /\ began \subseteq Tasks /\ generation \in Nat /\ mailbox \in {"pending", "mbx"}
  /\ Offered(answer.cursor)
  /\ entry # NoEntry => entry.tasks \subseteq Tasks
  /\ search # NoSearch => /\ search.limit \in Nat /\ Offered(search.cursor) /\ mailbox = "mbx"
                          /\ search.got.tasks \subseteq Tasks

\* A walk that is still to the point has shown what comes before its cursor,
\* of the tasks that match now and did when it began.
WalkInv ==
  ~excused =>
    /\ search # NoSearch =>
         /\ search.got.tasks = matching
         /\ UpToDate(search.cursor) => matching = began /\ ShownUpTo(search.cursor.o)
    /\ search = NoSearch /\ answer.cursor # NoCursor =>
         /\ mailbox = "mbx" /\ answer.cursor.g <= generation
         /\ UpToDate(answer.cursor) => matching = began /\ ShownUpTo(answer.cursor.o)
    /\ search = NoSearch /\ answer.cursor = NoCursor /\ answer.kind = "page" => walked = Sorted(began)

--------------------------------------------------------------------------------
LEMMA SortedIsASeq ==
  ASSUME NEW tasks, IsFiniteSet(tasks)
  PROVE  \E S : Sorted(tasks) \in Seq(S)
<1> DEFINE first(i) == CHOOSE task \in tasks : Cardinality({other \in tasks : other < task}) = i - 1
           S == {first(i) : i \in 1 .. Cardinality(tasks)}
<1>1. Cardinality(tasks) \in Nat
  BY FS_CardinalityType
<1>2. Sorted(tasks) = [i \in 1 .. Cardinality(tasks) |-> first(i)]
  BY DEF Sorted
<1>3. \A i \in 1 .. Cardinality(tasks) : first(i) \in S
  OBVIOUS
<1> HIDE DEF first
<1>4. [i \in 1 .. Cardinality(tasks) |-> first(i)] \in Seq(S)
  BY <1>1, <1>3, IsASeq
<1> QED
  BY <1>2, <1>4

LEMMA TasksAreSorted ==
  ASSUME NEW tasks \in SUBSET Tasks
  PROVE  /\ \E S : Sorted(tasks) \in Seq(S)
         /\ Len(Sorted(tasks)) \in Nat
  BY TasksAssumption, FS_Subset, SortedIsASeq, LenProperties

\* How many of the tasks come before one.
Before(tasks, task) == {other \in tasks : other < task}

LEMMA BeforeGrows ==
  ASSUME NEW tasks \in SUBSET Int, IsFiniteSet(tasks), NEW s \in tasks, NEW t \in tasks, s < t
  PROVE  /\ Cardinality(Before(tasks, s)) \in Nat /\ Cardinality(Before(tasks, t)) \in Nat
         /\ Cardinality(Before(tasks, s)) < Cardinality(Before(tasks, t))
<1>1. IsFiniteSet(Before(tasks, s)) /\ IsFiniteSet(Before(tasks, t))
  BY FS_Subset DEF Before
<1>2. Before(tasks, s) \cup {s} \subseteq Before(tasks, t) /\ s \notin Before(tasks, s)
  <2>1. s \in Int /\ t \in Int /\ ~(s < s)
    OBVIOUS
  <2>2. ASSUME NEW other \in tasks, other < s PROVE other < t
    <3>1. other \in Int
      OBVIOUS
    <3> QED
      BY <2>1, <2>2, <3>1
  <2> QED
    BY <2>1, <2>2 DEF Before
<1>3. IsFiniteSet(Before(tasks, s) \cup {s})
      /\ Cardinality(Before(tasks, s) \cup {s}) = Cardinality(Before(tasks, s)) + 1
  BY <1>1, <1>2, FS_AddElement
<1>4. Cardinality(Before(tasks, s) \cup {s}) <= Cardinality(Before(tasks, t))
  BY <1>1, <1>2, FS_Subset
<1> QED
  BY <1>1, <1>3, <1>4, FS_CardinalityType

\* As many come before the tasks as there are places from the first to the last.
LEMMA EachPlaceIsTaken ==
  ASSUME NEW tasks \in SUBSET Int, IsFiniteSet(tasks), NEW i \in 1 .. Cardinality(tasks)
  PROVE  \E task \in tasks : Cardinality(Before(tasks, task)) = i - 1
<1> DEFINE n == Cardinality(tasks)
           rank == [task \in tasks |-> Cardinality(Before(tasks, task)) + 1]
<1>1. n \in Nat
  BY FS_CardinalityType
<1>2. \A task \in tasks : Cardinality(Before(tasks, task)) \in Nat /\ Cardinality(Before(tasks, task)) < n
  <2>1. SUFFICES ASSUME NEW task \in tasks
                 PROVE  Cardinality(Before(tasks, task)) \in Nat /\ Cardinality(Before(tasks, task)) < n
    OBVIOUS
  <2>2. Before(tasks, task) \in SUBSET tasks /\ task \notin Before(tasks, task)
    BY DEF Before
  <2>3. IsFiniteSet(Before(tasks, task)) /\ Cardinality(Before(tasks, task)) <= n
        /\ n # Cardinality(Before(tasks, task))
    BY <2>2, FS_Subset
  <2> QED
    BY <1>1, <2>3, FS_CardinalityType
<1>3. rank \in [tasks -> 1 .. n]
  BY <1>1, <1>2
<1>4. \A s, t \in tasks : s # t => rank[s] # rank[t]
  <2>1. SUFFICES ASSUME NEW s \in tasks, NEW t \in tasks, s < t
                 PROVE  rank[s] # rank[t]
    OBVIOUS
  <2> QED
    BY <2>1, BeforeGrows
<1>5. rank \in Injection(tasks, 1 .. n)
  BY <1>3, <1>4 DEF Injection, IsInjective
<1>6. IsFiniteSet(1 .. n) /\ Cardinality(1 .. n) = n
  BY <1>1, FS_Interval
<1>7. rank \in Surjection(tasks, 1 .. n)
  BY <1>5, <1>6, FS_Injection
<1>8. PICK task \in tasks : rank[task] = i
  BY <1>7 DEF Surjection
<1> QED
  BY <1>1, <1>2, <1>8

\* The sorted tasks are all of them, each once, in ascending order.
LEMMA SortedIsInOrder ==
  ASSUME NEW tasks \in SUBSET Int, IsFiniteSet(tasks)
  PROVE  /\ DOMAIN Sorted(tasks) = 1 .. Cardinality(tasks)
         /\ {Sorted(tasks)[i] : i \in 1 .. Cardinality(tasks)} = tasks
         /\ \A i, j \in 1 .. Cardinality(tasks) : i < j => Sorted(tasks)[i] < Sorted(tasks)[j]
<1> DEFINE n == Cardinality(tasks)
<1>1. \A i \in 1 .. n : Sorted(tasks)[i] \in tasks /\ Cardinality(Before(tasks, Sorted(tasks)[i])) = i - 1
  BY EachPlaceIsTaken DEF Sorted, Before
<1>2. \A i, j \in 1 .. n : i < j => Sorted(tasks)[i] < Sorted(tasks)[j]
  <2>1. SUFFICES ASSUME NEW i \in 1 .. n, NEW j \in 1 .. n, i < j, ~(Sorted(tasks)[i] < Sorted(tasks)[j])
                 PROVE  FALSE
    OBVIOUS
  <2>2. Sorted(tasks)[j] < Sorted(tasks)[i] \/ Sorted(tasks)[j] = Sorted(tasks)[i]
    <3>1. Sorted(tasks)[i] \in Int /\ Sorted(tasks)[j] \in Int
      BY <1>1
    <3> QED
      BY <2>1, <3>1
  <2>3. CASE Sorted(tasks)[j] < Sorted(tasks)[i]
    <3>1. Cardinality(Before(tasks, Sorted(tasks)[j])) < Cardinality(Before(tasks, Sorted(tasks)[i]))
      BY <1>1, <2>3, BeforeGrows
    <3> QED
      BY <1>1, <2>1, <3>1
  <2>4. CASE Sorted(tasks)[j] = Sorted(tasks)[i]
    BY <1>1, <2>1, <2>4
  <2> QED
    BY <2>2, <2>3, <2>4
<1>3. ASSUME NEW task \in tasks PROVE \E i \in 1 .. n : Sorted(tasks)[i] = task
  <2>1. n \in Nat /\ IsFiniteSet(Before(tasks, task)) /\ Before(tasks, task) \in SUBSET tasks
        /\ task \notin Before(tasks, task)
    BY FS_Subset, FS_CardinalityType DEF Before
  <2>2. Cardinality(Before(tasks, task)) \in Nat /\ Cardinality(Before(tasks, task)) < n
    BY <2>1, FS_Subset, FS_CardinalityType
  <2> DEFINE i == Cardinality(Before(tasks, task)) + 1
  <2>3. i \in 1 .. n /\ i - 1 = Cardinality(Before(tasks, task))
    BY <2>1, <2>2
  <2> HIDE DEF i
  <2>4. Sorted(tasks)[i] \in tasks /\ Cardinality(Before(tasks, Sorted(tasks)[i])) = Cardinality(Before(tasks, task))
    BY <1>1, <2>3
  <2>5. ~(Sorted(tasks)[i] < task)
    <3>1. ~(Cardinality(Before(tasks, task)) < Cardinality(Before(tasks, task)))
      BY <2>2
    <3> QED
      BY <2>4, <3>1, BeforeGrows
  <2>6. ~(task < Sorted(tasks)[i])
    <3>1. ~(Cardinality(Before(tasks, task)) < Cardinality(Before(tasks, task)))
      BY <2>2
    <3> QED
      BY <2>4, <3>1, BeforeGrows
  <2>7. task \in Int /\ Sorted(tasks)[i] \in Int
    BY <2>4
  <2>8. Sorted(tasks)[i] = task
    BY <2>5, <2>6, <2>7
  <2> QED
    BY <2>3, <2>8
<1> QED
  BY <1>1, <1>2, <1>3 DEF Sorted

\* A page that is kept has no more than the whole one.
LEMMA HalvingsAreNoMore ==
  ASSUME NEW n \in Nat, NEW keep \in Halvings(n)
  PROVE  keep \in 0 .. n
  BY DEF Halvings

LEMMA SubSeqLength ==
  ASSUME NEW s, NEW o \in Nat, NEW n \in Nat, NEW limit \in Nat
  PROVE  Len(SubSeq(s, o + 1, SmallerOf(o + limit, n))) \in Nat
<1> DEFINE end == SmallerOf(o + limit, n)
<1>1. end \in Nat
  BY DEF SmallerOf
<1> HIDE DEF end
<1>2. SubSeq(s, o + 1, end) \in Seq({s[i] : i \in o + 1 .. end})
  BY <1>1, SubSeqProperties
<1> QED
  BY <1>2, LenProperties DEF end

\* What was shown, and the page that comes after it.
LEMMA PageFollows ==
  ASSUME NEW S, NEW s \in Seq(S), NEW o \in Nat, o <= Len(s), NEW limit \in Nat,
         NEW keep \in Halvings(Len(SubSeq(s, o + 1, SmallerOf(o + limit, Len(s)))))
  PROVE  /\ keep \in Nat /\ o + keep <= Len(s)
         /\ SubSeq(s, 1, o) \o SubSeq(SubSeq(s, o + 1, SmallerOf(o + limit, Len(s))), 1, keep)
              = SubSeq(s, 1, o + keep)
<1> DEFINE end == SmallerOf(o + limit, Len(s))
           whole == SubSeq(s, o + 1, end)
<1>1. Len(s) \in Nat
  BY LenProperties
<1>2. end \in Nat /\ end <= Len(s) /\ o <= end
  BY <1>1 DEF SmallerOf
<1>3. whole \in Seq(S) /\ Len(whole) = end - o
  <2>1. CASE o = end
    BY <2>1, <1>1, <1>2, SubSeqEmpty, EmptySeq
  <2>2. CASE o # end
    <3>1. o + 1 \in 1 .. Len(s) /\ end \in o .. Len(s) /\ o + 1 <= end
      BY <2>2, <1>1, <1>2
    <3> HIDE DEF end
    <3>2. whole \in Seq(S) /\ Len(whole) = end - (o + 1) + 1
      BY <3>1, SubSeqProperties
    <3> QED
      BY <3>2, <1>2
  <2> QED
    BY <2>1, <2>2
<1>4. keep \in 0 .. Len(whole)
  BY <1>2, <1>3, HalvingsAreNoMore
<1> HIDE DEF end, whole
<1>5. keep \in Nat /\ o + keep <= end
  BY <1>2, <1>3, <1>4
<1>6. SubSeq(whole, 1, keep) = SubSeq(s, o + 1, o + keep)
  <2>1. CASE keep = 0
    BY <2>1, <1>3, SubSeqEmpty
  <2>2. CASE keep # 0
    <3>1. o + 1 \in 1 .. Len(s) + 1 /\ end \in o .. Len(s)
      BY <1>1, <1>2
    <3>2. 1 \in 1 .. Len(whole) + 1 /\ keep \in 0 .. Len(whole)
      BY <1>2, <1>3, <1>4
    <3>3. \A i \in 1 .. keep : whole[i] = s[o + i]
      BY <1>1, <1>2, <1>3, <1>4, <3>1, SubSeqProperties DEF whole
    <3> QED
      BY <3>1, <3>2, <3>3, <1>1, <1>2, <1>3, <1>5
  <2> QED
    BY <2>1, <2>2
<1>7. SubSeq(s, 1, o) \o SubSeq(s, o + 1, o + keep) = SubSeq(s, 1, o + keep)
  BY <1>1, <1>2, <1>5, ConcatAdjacentSubSeq
<1> QED
  BY <1>2, <1>5, <1>6, <1>7 DEF whole, end

\* Reading the tasks: a walk that is not excused goes on with all that match.
LEMMA GatherKeeps ==
  ASSUME WalkTypeOK, WalkInv, NEW cursor, NEW limit \in Nat, Gather(cursor, limit),
         \/ cursor = NoCursor /\ walked' = <<>> /\ began' = search'.got.tasks
         \/ cursor # NoCursor /\ cursor = answer.cursor /\ UNCHANGED <<walked, began>>
  PROVE  WalkTypeOK' /\ WalkInv'
<1>1. /\ search' # NoSearch /\ search'.cursor = cursor /\ search'.limit = limit
      /\ mailbox' = "mbx" /\ generation' \in Nat
      /\ UNCHANGED <<matching, answer>>
  <2>1. \E got : search' = [cursor |-> cursor, limit |-> limit, got |-> got]
    BY DEF Gather
  <2>2. search' # NoSearch
    <3>1. DOMAIN search' # DOMAIN NoSearch
      BY <2>1 DEF NoSearch
    <3> QED
      BY <3>1
  <2>3. mailbox' = "mbx" /\ generation' \in Nat
    BY DEF Gather, WalkTypeOK
  <2> QED
    BY <2>1, <2>2, <2>3 DEF Gather
<1>2. WalkTypeOK'
  <2>1. entry'.tasks \subseteq Tasks /\ search'.got = entry'
    BY DEF Gather, WalkTypeOK
  <2> QED
    BY <1>1, <2>1 DEF WalkTypeOK, Offered, NoCursor
<1>3. ASSUME ~excused'
      PROVE  search'.got.tasks = matching /\ (cursor # NoCursor => ~excused)
  <2>1. excused' = ((cursor # NoCursor /\ excused) \/ search'.got # [tasks |-> matching, complete |-> TRUE])
    BY DEF Gather
  <2>2. ~((cursor # NoCursor /\ excused) \/ search'.got # [tasks |-> matching, complete |-> TRUE])
    BY <1>3, <2>1
  <2>3. search'.got = [tasks |-> matching, complete |-> TRUE] /\ (cursor # NoCursor => ~excused)
    BY <2>2
  <2> QED
    BY <2>3
<1>4. ASSUME ~excused', UpToDate(cursor)'
      PROVE  (matching = began /\ ShownUpTo(cursor.o))'
  <2>1. CASE cursor = NoCursor
    <3>1. matching' = began'
      BY <2>1, <1>1, <1>3, <1>4
    <3>2. walked' = <<>> /\ cursor.o = 0
      BY <2>1 DEF NoCursor
    <3>3. SubSeq(Sorted(matching'), 1, 0) = <<>>
      BY SubSeqEmpty
    <3>4. 0 <= Len(Sorted(matching'))
      BY <1>2, TasksAreSorted DEF WalkTypeOK
    <3> QED
      BY <3>1, <3>2, <3>3, <3>4 DEF ShownUpTo
  <2>2. CASE cursor # NoCursor
    <3>1. ~excused /\ search = NoSearch /\ cursor = answer.cursor /\ UNCHANGED <<walked, began>>
      BY <2>2, <1>3, <1>4 DEF Gather
    <3>2. mailbox = "mbx"
      BY <2>2, <3>1 DEF WalkInv
    <3>3. UNCHANGED <<mailbox, generation>>
      BY <3>2 DEF Gather
    <3>4. UpToDate(cursor)
      BY <1>4, <3>3 DEF UpToDate
    <3>5. matching = began /\ ShownUpTo(cursor.o)
      BY <2>2, <3>1, <3>4 DEF WalkInv
    <3> QED
      BY <1>1, <3>1, <3>5 DEF ShownUpTo
  <2> QED
    BY <2>1, <2>2
<1>5. WalkInv'
  BY <1>1, <1>3, <1>4 DEF WalkInv
<1> QED
  BY <1>2, <1>5

\* The page shown comes after what was, and its cursor says up to where.
LEMMA ReturnPageKeeps ==
  ASSUME WalkTypeOK, WalkInv, ReturnPage
  PROVE  WalkTypeOK' /\ WalkInv'
<1> DEFINE scored == Sorted(search.got.tasks)
           o      == search.cursor.o
           whole  == SubSeq(scored, o + 1, SmallerOf(o + search.limit, Len(scored)))
<1>1. /\ search # NoSearch /\ search' = NoSearch
      /\ search.limit \in Nat /\ Offered(search.cursor) /\ mailbox = "mbx"
      /\ UNCHANGED <<cacheVars, matching, began, excused>>
  BY DEF ReturnPage, WalkTypeOK
<1>2. UpToDate(search.cursor)
  BY DEF ReturnPage, UpToDate, Validate
<1>3. o \in Nat
  BY <1>1 DEF Offered, NoCursor
<1>4. ~excused => search.got.tasks = matching /\ matching = began /\ ShownUpTo(o)
  BY <1>1, <1>2 DEF WalkInv
<1>5. CASE answer'.kind = "tooLarge" /\ answer'.cursor = NoCursor
  BY <1>1, <1>5 DEF WalkTypeOK, WalkInv, cacheVars, Offered
<1>6. ASSUME NEW keep \in Halvings(Len(whole)),
             answer' = [kind |-> "page", page |-> SubSeq(whole, 1, keep),
                        cursor |-> CursorOfPage(o, Len(whole), Len(scored), keep)],
             walked' = walked \o SubSeq(whole, 1, keep)
      PROVE  WalkTypeOK' /\ WalkInv'
  <2>1. answer'.cursor = IF o + keep >= Len(scored) THEN NoCursor
                         ELSE [o |-> o + keep, a |-> mailbox, t |-> now, g |-> generation]
    BY <1>6 DEF CursorOfPage, MakeCursor
  <2>2. keep \in Nat
    <3>1. Len(scored) \in Nat
      BY <1>1, TasksAreSorted
    <3> HIDE DEF o, scored
    <3>2. Len(whole) \in Nat
      BY <1>1, <1>3, <3>1, SubSeqLength
    <3> HIDE DEF whole
    <3>3. keep \in 0 .. Len(whole)
      BY <3>2, HalvingsAreNoMore
    <3> QED
      BY <3>2, <3>3
  <2>3. WalkTypeOK'
    <3>1. CASE answer'.cursor = NoCursor
      BY <1>1, <3>1 DEF WalkTypeOK, cacheVars, Offered
    <3>2. CASE answer'.cursor # NoCursor
      <4> HIDE DEF o, scored
      <4>1. answer'.cursor.o = o + keep /\ answer'.cursor.g = generation
        BY <2>1, <3>2
      <4>2. o + keep \in Nat /\ generation \in Nat
        BY <1>3, <2>2 DEF WalkTypeOK
      <4> QED
        BY <1>1, <4>1, <4>2 DEF WalkTypeOK, cacheVars, Offered
    <3> QED
      BY <3>1, <3>2
  <2>4. ASSUME ~excused
        PROVE  /\ o + keep <= Len(Sorted(matching))
               /\ walked' = SubSeq(Sorted(matching), 1, o + keep)
    <3>1. scored = Sorted(matching) /\ o <= Len(scored) /\ walked = SubSeq(scored, 1, o)
      BY <1>4, <2>4 DEF ShownUpTo
    <3>2. PICK S : scored \in Seq(S)
      BY <3>1, TasksAreSorted DEF WalkTypeOK
    <3> HIDE DEF o, scored
    <3>3. o + keep <= Len(scored)
          /\ SubSeq(scored, 1, o) \o SubSeq(whole, 1, keep) = SubSeq(scored, 1, o + keep)
      BY <1>1, <1>3, <1>6, <3>1, <3>2, PageFollows
    <3> QED
      BY <1>6, <3>1, <3>3
  <2>5. ASSUME ~excused'
        PROVE  /\ answer'.cursor # NoCursor =>
                    answer'.cursor.g = generation /\ matching = began
                    /\ answer'.cursor.o <= Len(Sorted(matching))
                    /\ walked' = SubSeq(Sorted(matching), 1, answer'.cursor.o)
               /\ answer'.cursor = NoCursor => walked' = Sorted(began)
    <3>1. /\ matching = began /\ scored = Sorted(matching)
          /\ o + keep <= Len(Sorted(matching))
          /\ walked' = SubSeq(Sorted(matching), 1, o + keep)
      BY <1>1, <1>4, <2>4, <2>5
    <3>2. PICK S : scored \in Seq(S)
      BY <3>1, TasksAreSorted DEF WalkTypeOK
    <3> HIDE DEF o, scored
    <3>3. CASE o + keep >= Len(scored)
      <4>1. o + keep = Len(scored)
        BY <3>1, <3>3, <3>2, <1>3, <2>2, LenProperties
      <4>2. walked' = scored
        BY <3>1, <3>2, <4>1, SubSeqFull
      <4> QED
        BY <2>1, <3>1, <3>3, <4>2
    <3>4. CASE ~(o + keep >= Len(scored))
      <4>1. answer'.cursor = [o |-> o + keep, a |-> mailbox, t |-> now, g |-> generation]
        BY <2>1, <3>4
      <4>2. answer'.cursor # NoCursor
        BY <4>1, <1>1 DEF NoCursor
      <4>3. answer'.cursor.g = generation /\ answer'.cursor.o = o + keep
        BY <4>1
      <4> QED
        BY <3>1, <4>2, <4>3
    <3> QED
      BY <3>3, <3>4
  <2>6. WalkInv'
    BY <1>1, <2>3, <2>5 DEF WalkInv, WalkTypeOK, cacheVars, ShownUpTo
  <2> QED
    BY <2>3, <2>6
<1>7. CASE Refuse("tooLarge")
  BY <1>5, <1>7 DEF Refuse
<1>8. CASE \E keep \in Halvings(Len(whole)) :
             /\ answer' = [kind |-> "page", page |-> SubSeq(whole, 1, keep),
                           cursor |-> CursorOfPage(o, Len(whole), Len(scored), keep)]
             /\ walked' = walked \o answer'.page
  <2>1. PICK keep \in Halvings(Len(whole)) :
             /\ answer' = [kind |-> "page", page |-> SubSeq(whole, 1, keep),
                           cursor |-> CursorOfPage(o, Len(whole), Len(scored), keep)]
             /\ walked' = walked \o answer'.page
    BY <1>8
  <2>2. walked' = walked \o SubSeq(whole, 1, keep)
    BY <2>1
  <2> QED
    BY <1>6, <2>1, <2>2
<1> QED
  BY <1>7, <1>8 DEF ReturnPage

LEMMA WalkStep ==
  ASSUME WalkTypeOK, WalkInv, [CursorNext]_cursorVars
  PROVE  WalkTypeOK' /\ WalkInv'
<1>1. CASE Move
  BY <1>1 DEF Move, WalkTypeOK, WalkInv, cacheVars, Offered
<1>2. CASE InvalidateList
  <2>1. /\ matching' \subseteq Tasks /\ entry' = NoEntry /\ generation' = generation + 1
        /\ UNCHANGED <<mailbox, search, answer, walked, began>>
        /\ ~excused' => ~excused /\ search = NoSearch
    BY <1>2 DEF InvalidateList, WalkTypeOK
  <2>2. WalkTypeOK'
    BY <2>1 DEF WalkTypeOK, Offered
  <2>3. ~excused' /\ answer.cursor # NoCursor =>
          /\ mailbox = "mbx" /\ answer.cursor.g <= generation /\ answer.cursor.g \in Nat
          /\ ~UpToDate(answer.cursor)'
    BY <2>1 DEF WalkTypeOK, WalkInv, UpToDate, Offered
  <2> QED
    BY <2>1, <2>2, <2>3 DEF WalkTypeOK, WalkInv
<1>3. CASE Expire \/ Tick \/ UNCHANGED cursorVars
  BY <1>3 DEF Expire, Tick, cursorVars, cacheVars, WalkTypeOK, WalkInv, UpToDate, ShownUpTo, Offered
<1>4. CASE Restart
  BY <1>4 DEF Restart, WalkTypeOK, WalkInv, Offered
<1>5. ASSUME NEW limit \in Limits, NewSearch(limit) \/ ContinueSearch(limit)
      PROVE  WalkTypeOK' /\ WalkInv'
  BY <1>5, LimitsAssumption, GatherKeeps DEF NewSearch, ContinueSearch
<1>6. CASE RefuseCursor
  <2>1. answer'.kind # "page" /\ answer'.cursor = NoCursor
    BY <1>6 DEF RefuseCursor, Refuse, Validate
  <2> QED
    BY <1>6, <2>1 DEF RefuseCursor, WalkTypeOK, WalkInv, cacheVars, Offered
<1>7. CASE ReturnPage
  BY <1>7, ReturnPageKeeps
<1> QED
  BY <1>1, <1>2, <1>3, <1>4, <1>5, <1>6, <1>7 DEF CursorNext

\* The inductive invariant is one.
LEMMA WalksAreSound == CursorSpec => [](WalkTypeOK /\ WalkInv)
<1>1. CursorInit => WalkTypeOK /\ WalkInv
  BY DEF CursorInit, WalkTypeOK, WalkInv, NoAnswer, Offered
<1>2. WalkTypeOK /\ WalkInv /\ [CursorNext]_cursorVars => (WalkTypeOK /\ WalkInv)'
  BY WalkStep
<1> QED
  BY <1>1, <1>2, PTL DEF CursorSpec

(***************************************************************************)
(* todo_search_tasks: a walk that ends with nothing to excuse it has shown *)
(* each task that matched when it began, once and in order, for any tasks, *)
(* limits, cuts and refills (read.rs make_cursor, cursor.rs validate).     *)
(***************************************************************************)
THEOREM PagesAlwaysMeet == CursorSpec => []PagesMeet
<1>1. WalkInv => PagesMeet
  BY DEF WalkInv, PagesMeet
<1> QED
  BY <1>1, WalksAreSound, PTL

(***************************************************************************)
(* What that means: the tasks of the walk's pages are those that matched   *)
(* when it began, each once and in ascending order.                        *)
(***************************************************************************)
EachIsShownOnce ==
  answer.kind = "page" /\ answer.cursor = NoCursor /\ search = NoSearch /\ ~excused =>
    /\ {walked[i] : i \in DOMAIN walked} = began
    /\ \A i, j \in DOMAIN walked : i < j => walked[i] < walked[j]

(***************************************************************************)
(* Searches that are paged with cursors, without an excuse: the pages of a *)
(* walk show what matched when it began, each once and in order.           *)
(***************************************************************************)
THEOREM WalksShowEachOnce == CursorSpec => []EachIsShownOnce
<1>1. WalkTypeOK /\ PagesMeet => EachIsShownOnce
  <2>1. SUFFICES ASSUME WalkTypeOK, walked = Sorted(began)
                 PROVE  /\ {walked[i] : i \in DOMAIN walked} = began
                        /\ \A i, j \in DOMAIN walked : i < j => walked[i] < walked[j]
    BY DEF EachIsShownOnce, PagesMeet
  <2>2. began \in SUBSET Int /\ IsFiniteSet(began)
    BY <2>1, TasksAssumption, FS_Subset DEF WalkTypeOK
  <2> DEFINE n == Cardinality(began)
  <2>3. /\ DOMAIN Sorted(began) = 1 .. n
        /\ {Sorted(began)[i] : i \in 1 .. n} = began
        /\ \A i, j \in 1 .. n : i < j => Sorted(began)[i] < Sorted(began)[j]
    BY <2>2, SortedIsInOrder
  <2> HIDE DEF n
  <2> QED
    BY <2>1, <2>3
<1> QED
  BY <1>1, WalksAreSound, PagesAlwaysMeet, PTL

--------------------------------------------------------------------------------
(***************************************************************************)
(* The names of lists.                                                     *)
(***************************************************************************)
\* A catalogue and a query that Graph and the model can give.
NameTypeOK == /\ \A i \in DOMAIN catalogue : catalogue[i].name \in Seq(Letters)
              /\ query \in Seq(Letters)

LEMMA FoldIsASeq ==
  ASSUME NEW s \in Seq(Letters)
  PROVE  Fold(s) \in Seq(Letters) /\ Len(Fold(s)) = Len(s)
  BY FoldedAsAssumption DEF Fold

LEMMA TrimIsASeq ==
  ASSUME NEW s \in Seq(Letters)
  PROVE  Trim(s) \in Seq(Letters)
<1> DEFINE inked == {i \in DOMAIN s : s[i] # Blank}
           first == CHOOSE i \in inked : \A j \in inked : i <= j
           last  == CHOOSE i \in inked : \A j \in inked : j <= i
           after == {n \in Nat : \A j \in inked : j <= n}
<1>1. CASE inked = {}
  BY <1>1 DEF Trim
<1>2. CASE inked # {}
  <2>1. inked \subseteq 1 .. Len(s) /\ Len(s) \in Nat
    BY LenProperties
  <2>2. first \in inked
    <3>1. inked \in SUBSET Nat
      BY <2>1
    <3> HIDE DEF inked
    <3>2. \E i \in inked : \A j \in inked : i <= j
      BY <1>2, <3>1, LeastNatural
    <3> QED
      BY <3>2
  <2>3. last \in inked
    <3> HIDE DEF inked
    <3>1. Len(s) \in after
      BY <2>1
    <3>2. PICK n \in after : \A k \in after : n <= k
      BY <3>1, LeastNatural
    <3>3. n \in inked
      <4>1. SUFFICES ASSUME n \notin inked PROVE FALSE
        OBVIOUS
      <4>2. n \in Nat /\ n > 0
        <5>1. PICK j \in inked : TRUE
          BY <1>2
        <5>2. j \in Nat /\ j >= 1 /\ j <= n /\ n \in Nat
          BY <2>1, <3>2
        <5> QED
          BY <5>2
      <4>3. n - 1 \in after
        BY <2>1, <3>2, <4>1, <4>2
      <4> QED
        BY <3>2, <4>2, <4>3
    <3>4. \A j \in inked : j <= n
      BY <3>2
    <3> QED
      BY <3>3, <3>4
  <2> HIDE DEF first, last, inked
  <2>3a. Trim(s) = SubSeq(s, first, last)
    BY <1>2 DEF Trim, inked, first, last
  <2>4. first \in 1 .. Len(s) /\ last \in 1 .. Len(s)
    BY <2>1, <2>2, <2>3
  <2>5. \A i \in first .. last : s[i] \in Letters
    BY <2>1, <2>4
  <2> QED
    BY <2>1, <2>3a, <2>4, <2>5, SubSeqProperties
<1> QED
  BY <1>1, <1>2

\* What begins with more letters begins with fewer.
LEMMA FewerLetters ==
  ASSUME NEW q \in Seq(Letters), NEW letter, NEW t \in Seq(Letters), IsPrefix(Append(q, letter), t)
  PROVE  IsPrefix(q, t)
<1> DEFINE longer == Append(q, letter)
<1>1. Len(longer) = Len(q) + 1 /\ Len(q) \in Nat /\ Len(t) \in Nat /\ Len(longer) <= Len(t)
  BY DEF IsPrefix
<1>2. \A i \in 1 .. Len(q) : q[i] = t[i]
  <2>1. \A i \in 1 .. Len(longer) : SubSeq(longer, 1, Len(longer))[i] = longer[i]
    BY <1>1
  <2>2. \A i \in 1 .. Len(longer) : SubSeq(t, 1, Len(longer))[i] = t[i]
    BY <1>1
  <2>3. \A i \in 1 .. Len(q) : longer[i] = q[i]
    OBVIOUS
  <2> QED
    BY <1>1, <2>1, <2>2, <2>3 DEF IsPrefix
<1>3. SubSeq(q, 1, Len(q)) = SubSeq(t, 1, Len(q))
  BY <1>1, <1>2
<1> QED
  BY <1>1, <1>3 DEF IsPrefix

\* The next letter of what begins with these begins it with these and that.
LEMMA NextLetter ==
  ASSUME NEW q \in Seq(Letters), NEW t \in Seq(Letters), IsPrefix(q, t), Len(q) < Len(t)
  PROVE  IsPrefix(Append(q, t[Len(q) + 1]), t)
<1> DEFINE letter == t[Len(q) + 1]
           longer == Append(q, letter)
<1>1. Len(q) \in Nat /\ Len(t) \in Nat /\ letter \in Letters /\ longer \in Seq(Letters)
      /\ Len(longer) = Len(q) + 1
  BY LenProperties
<1>2. \A i \in 1 .. Len(q) : q[i] = t[i]
  <2>1. \A i \in 1 .. Len(q) : SubSeq(q, 1, Len(q))[i] = q[i]
    BY <1>1
  <2>2. \A i \in 1 .. Len(q) : SubSeq(t, 1, Len(q))[i] = t[i]
    BY <1>1
  <2> QED
    BY <1>1, <2>1, <2>2 DEF IsPrefix
<1>3. \A i \in 1 .. Len(longer) : longer[i] = t[i]
  BY <1>1, <1>2
<1> HIDE DEF longer
<1>4. SubSeq(longer, 1, Len(longer)) = SubSeq(t, 1, Len(longer))
  BY <1>1, <1>3
<1> QED
  BY <1>1, <1>4 DEF IsPrefix, longer

\* What is left of a name after k letters.
LEMMA RestIsASeq ==
  ASSUME NEW s \in Seq(Letters), NEW k \in 0 .. Len(s)
  PROVE  /\ SubSeq(s, k + 1, Len(s)) \in Seq(Letters)
         /\ Len(SubSeq(s, k + 1, Len(s))) = Len(s) - k
         /\ \A j \in 1 .. Len(s) - k : SubSeq(s, k + 1, Len(s))[j] = s[k + j]
<1>1. Len(s) \in Nat /\ k \in Nat
  BY LenProperties
<1>2. \A i \in k + 1 .. Len(s) : s[i] \in Letters
  BY <1>1, ElementOfSeq
<1>3. /\ SubSeq(s, k + 1, Len(s)) \in Seq(Letters)
      /\ Len(SubSeq(s, k + 1, Len(s))) = IF k + 1 <= Len(s) THEN Len(s) - (k + 1) + 1 ELSE 0
      /\ \A j \in 1 .. Len(s) - (k + 1) + 1 : SubSeq(s, k + 1, Len(s))[j] = s[k + 1 + j - 1]
  BY <1>1, <1>2, SubSeqProperties
<1> QED
  BY <1>1, <1>3

LEMMA WholeIsPrefix ==
  ASSUME NEW s \in Seq(Letters)
  PROVE  IsPrefix(s, s)
  BY DEF IsPrefix

\* The folded name of a list, and what a query found by it.
LEMMA NameIsFolded ==
  ASSUME NameTypeOK, NEW i \in DOMAIN catalogue
  PROVE  /\ Fold(catalogue[i].name) \in Seq(Letters)
         /\ Len(Fold(catalogue[i].name)) = Len(catalogue[i].name)
BY FoldIsASeq DEF NameTypeOK

LEMMA LessIsFoundByLonger ==
  ASSUME NameTypeOK, NEW q \in Seq(Letters), NEW letter \in Letters
  PROVE  /\ Exact(Append(q, letter)) \subseteq Prefixed(Append(q, letter))
         /\ Prefixed(Append(q, letter)) \subseteq Prefixed(q)
         /\ Containing(Append(q, letter)) \subseteq Containing(q)
         /\ Exact(q) \subseteq Prefixed(q)
<1> DEFINE name(i) == Fold(catalogue[i].name)
           rest(i, k) == SubSeq(name(i), k + 1, Len(catalogue[i].name))
<1>1. \A i \in DOMAIN catalogue : name(i) \in Seq(Letters) /\ Len(name(i)) = Len(catalogue[i].name)
  BY NameIsFolded
<1>2. \A i \in DOMAIN catalogue : \A k \in 0 .. Len(catalogue[i].name) : rest(i, k) \in Seq(Letters)
  BY <1>1, RestIsASeq
<1>3. Append(q, letter) \in Seq(Letters)
  OBVIOUS
<1> HIDE DEF name, rest
<1>4. Exact(Append(q, letter)) \subseteq Prefixed(Append(q, letter)) /\ Exact(q) \subseteq Prefixed(q)
  BY <1>1, WholeIsPrefix DEF Exact, Prefixed, name
<1>5. Prefixed(Append(q, letter)) \subseteq Prefixed(q)
  BY <1>1, FewerLetters DEF Prefixed, name
<1>6. Containing(Append(q, letter)) \subseteq Containing(q)
  <2>1. SUFFICES ASSUME NEW i \in DOMAIN catalogue, NEW k \in 0 .. Len(catalogue[i].name),
                        IsPrefix(Append(q, letter), rest(i, k))
                 PROVE  IsPrefix(q, rest(i, k))
    BY DEF Containing, rest, name
  <2> QED
    BY <1>2, <2>1, FewerLetters
<1> QED
  BY <1>4, <1>5, <1>6

\* The next letter of a name in which the query stands at k.
LEMMA NextIsFound ==
  ASSUME NameTypeOK, NEW q \in Seq(Letters), NEW i \in DOMAIN catalogue, NEW k \in Nat,
         k + Len(q) < Len(Fold(catalogue[i].name)),
         IsPrefix(q, SubSeq(Fold(catalogue[i].name), k + 1, Len(Fold(catalogue[i].name))))
  PROVE  LET letter == Fold(catalogue[i].name)[k + Len(q) + 1]
         IN  /\ letter \in Letters
             /\ i \in Containing(Append(q, letter))
             /\ k = 0 => i \in Prefixed(Append(q, letter))
<1> DEFINE name == Fold(catalogue[i].name)
           rest == SubSeq(name, k + 1, Len(name))
           letter == name[k + Len(q) + 1]
<1>1. name \in Seq(Letters) /\ Len(name) = Len(catalogue[i].name) /\ Len(name) \in Nat /\ Len(q) \in Nat
  BY NameIsFolded, LenProperties
<1>2. k \in 0 .. Len(name) /\ k + Len(q) + 1 \in 1 .. Len(name) /\ k + Len(q) < Len(name)
  BY <1>1
<1>3. IsPrefix(q, rest)
  OBVIOUS
<1> HIDE DEF name
<1>4. rest \in Seq(Letters) /\ Len(rest) = Len(name) - k
      /\ \A j \in 1 .. Len(name) - k : rest[j] = name[k + j]
  BY <1>1, <1>2, RestIsASeq
<1>5. Len(q) < Len(rest) /\ letter \in Letters /\ rest[Len(q) + 1] = letter
  <2>1. letter \in Letters
    BY <1>1, <1>2, ElementOfSeq
  <2>2. Len(q) + 1 \in 1 .. Len(name) - k /\ k + (Len(q) + 1) = k + Len(q) + 1
    BY <1>1, <1>2
  <2> HIDE DEF rest
  <2> QED
    BY <1>1, <1>4, <2>1, <2>2
<1> HIDE DEF rest, letter
<1>6. IsPrefix(Append(q, letter), rest)
  BY <1>3, <1>4, <1>5, NextLetter
<1>7. i \in Containing(Append(q, letter))
  BY <1>1, <1>2, <1>6 DEF Containing, rest, name
<1>8. k = 0 => rest = name
  BY <1>1, SubSeqFull DEF rest
<1>9. k = 0 => i \in Prefixed(Append(q, letter))
  BY <1>6, <1>8 DEF Prefixed, name
<1> QED
  BY <1>5, <1>7, <1>9 DEF name, letter

\* A name that was typed in full has no next letter.
LEMMA WholeHasNoNext ==
  ASSUME NameTypeOK, NEW q, NEW i \in Exact(q), NEW k \in Nat
  PROVE  ~(k + Len(q) < Len(Fold(catalogue[i].name)))
<1>1. Fold(catalogue[i].name) = q /\ q \in Seq(Letters)
  BY NameIsFolded DEF Exact
<1>2. Len(q) \in Nat
  BY <1>1, LenProperties
<1> QED
  BY <1>1, <1>2

LEMMA TypingNarrows ==
  ASSUME NameTypeOK, NEW q \in Seq(Letters), NEW i \in Candidates(q), NEW k \in Nat,
         k \in Standing(q, i), k + Len(q) < Len(Fold(catalogue[i].name))
  PROVE  LET longer == Append(q, Fold(catalogue[i].name)[k + Len(q) + 1])
         IN  /\ i \in Candidates(longer) \/ Exact(longer) # {}
             /\ Candidates(longer) \subseteq Candidates(q)
<1> DEFINE letter == Fold(catalogue[i].name)[k + Len(q) + 1]
           longer == Append(q, letter)
<1>1. i \in DOMAIN catalogue /\ Len(q) # 0
  BY DEF Candidates, Exact, Prefixed, Containing
<1>2. /\ IsPrefix(q, SubSeq(Fold(catalogue[i].name), k + 1, Len(Fold(catalogue[i].name))))
      /\ Prefixed(q) # {} => k = 0
  BY DEF Standing
<1>3. /\ letter \in Letters
      /\ i \in Containing(longer)
      /\ k = 0 => i \in Prefixed(longer)
  BY <1>1, <1>2, NextIsFound
<1>4. /\ Exact(longer) \subseteq Prefixed(longer)
      /\ Prefixed(longer) \subseteq Prefixed(q)
      /\ Containing(longer) \subseteq Containing(q)
      /\ Exact(q) \subseteq Prefixed(q)
  BY <1>3, LessIsFoundByLonger
<1>5. Len(longer) # 0
  BY <1>3
<1>6. Exact(q) = {}
  <2>1. i \notin Exact(q)
    BY WholeHasNoNext
  <2> QED
    BY <1>1, <2>1 DEF Candidates
<1> HIDE DEF longer, letter
<1>7. (i \in Candidates(longer) \/ Exact(longer) # {}) /\ Candidates(longer) \subseteq Candidates(q)
  <2>1. CASE Prefixed(q) # {}
    BY <1>1, <1>2, <1>3, <1>4, <1>5, <1>6, <2>1 DEF Candidates
  <2>2. CASE Prefixed(q) = {}
    BY <1>1, <1>3, <1>4, <1>5, <1>6, <2>2 DEF Candidates
  <2> QED
    BY <2>1, <2>2
<1> QED
  BY <1>7 DEF longer, letter

(***************************************************************************)
(* resolve_list: more letters of a name never turn to a list that fewer    *)
(* left out, and a whole name finds just the lists of that name, for any   *)
(* catalogue, query and folding of letters.                                *)
(***************************************************************************)
THEOREM MoreLettersAlwaysNarrow == NameSpec => []MoreLettersNarrow
<1>1. NameInit => NameTypeOK
  BY EmptySeq DEF NameInit, NameTypeOK
<1>2. NameTypeOK /\ [NameNext]_nameVars => NameTypeOK'
  <2>1. ASSUME NameTypeOK, ReadCatalogue PROVE NameTypeOK'
    BY <2>1, CataloguesAssumption DEF ReadCatalogue, NameTypeOK
  <2>2. ASSUME NameTypeOK, TypeLetter PROVE NameTypeOK'
    <3>1. PICK letter \in Letters : query' = Append(query, letter)
      BY <2>2 DEF TypeLetter
    <3> QED
      BY <2>2, <3>1, AppendProperties DEF TypeLetter, NameTypeOK
  <2> QED
    BY <2>1, <2>2 DEF NameNext, nameVars, NameTypeOK
<1>3. NameTypeOK => MoreLettersNarrow
  <2> DEFINE q == Fold(Trim(query))
  <2>1. SUFFICES ASSUME NameTypeOK, ById(query) = {}
                 PROVE  MoreLettersNarrow
    BY DEF MoreLettersNarrow
  <2>2. q \in Seq(Letters)
    BY <2>1, TrimIsASeq, FoldIsASeq DEF NameTypeOK
  <2>3. ResolveList(query) = Candidates(q)
    BY <2>1 DEF ResolveList
  <2> HIDE DEF q
  <2>4. ASSUME NEW i \in Candidates(q), NEW k \in 0 .. MaxLetters,
               k \in Standing(q, i), k + Len(q) < Len(Fold(catalogue[i].name))
        PROVE  LET longer == Append(q, Fold(catalogue[i].name)[k + Len(q) + 1])
               IN  /\ i \in Candidates(longer) \/ Exact(longer) # {}
                   /\ Candidates(longer) \subseteq Candidates(q)
    <3>1. k \in Nat
      OBVIOUS
    <3> QED
      BY <2>1, <2>2, <2>4, <3>1, TypingNarrows
  <2>5. ASSUME NEW i \in DOMAIN catalogue, q = Fold(catalogue[i].name), q # <<>>
        PROVE  Candidates(q) = {j \in DOMAIN catalogue : Fold(catalogue[j].name) = q}
    <3>1. Len(q) # 0
      BY <2>2, <2>5, EmptySeq
    <3>2. Exact(q) # {}
      BY <2>5 DEF Exact
    <3> QED
      BY <3>1, <3>2 DEF Candidates, Exact
  <2> QED
    BY <2>3, <2>4, <2>5 DEF MoreLettersNarrow, q
<1> QED
  BY <1>1, <1>2, <1>3, PTL DEF NameSpec

--------------------------------------------------------------------------------
(***************************************************************************)
(* Bodies, of any length. The functions of Bodies are recursive; that each *)
(* is defined, and what it gives at every place, is shown by induction: a  *)
(* set of numbers that has 0, and n + 1 with each n, has all of them.      *)
(***************************************************************************)
LEMMA Inductive ==
  ASSUME NEW S \in SUBSET Nat, 0 \in S, \A n \in S : n + 1 \in S
  PROVE  S = Nat
<1>1. SUFFICES ASSUME Nat \ S # {} PROVE FALSE
  OBVIOUS
<1>2. PICK n \in Nat \ S : \A k \in Nat \ S : n <= k
  BY <1>1, LeastNatural
<1>3. n # 0 /\ n - 1 \in Nat /\ n - 1 \in S
  BY <1>2
<1> QED
  BY <1>2, <1>3

\* The states of collapse_whitespace.
Start == [out |-> <<>>, pending |-> <<>>]
After(text) ==
  CHOOSE f : f = [i \in 0 .. Len(text) |-> IF i = 0 THEN Start ELSE PutChar(f[i - 1], text[i])]

LEMMA CollapseIsAfter == \A text : CollapseWhitespace(text) = After(text)[Len(text)].out
BY DEF CollapseWhitespace, After, Start

\* The recursion is well-founded: there is such a function, and so it is one.
LEMMA AfterIsDefined ==
  ASSUME NEW text, Len(text) \in Nat
  PROVE  After(text) = [i \in 0 .. Len(text) |->
                          IF i = 0 THEN Start ELSE PutChar(After(text)[i - 1], text[i])]
<1> DEFINE Is(g, m) == g = [i \in 0 .. m |-> IF i = 0 THEN Start ELSE PutChar(g[i - 1], text[i])]
           S == {m \in Nat : \E g : Is(g, m)}
<1>1. 0 \in S
  <2> DEFINE first == [i \in 0 .. 0 |-> Start]
  <2>1. Is(first, 0)
    OBVIOUS
  <2> QED
    BY <2>1
<1>2. ASSUME NEW m \in S PROVE m + 1 \in S
  <2>1. SUFFICES ASSUME NEW g, Is(g, m) PROVE \E h : Is(h, m + 1)
    OBVIOUS
  <2> DEFINE h == [i \in 0 .. m + 1 |-> IF i = m + 1 THEN PutChar(g[m], text[m + 1]) ELSE g[i]]
             next == [i \in 0 .. m + 1 |-> IF i = 0 THEN Start ELSE PutChar(h[i - 1], text[i])]
  <2>2. \A i \in 0 .. m : g[i] = IF i = 0 THEN Start ELSE PutChar(g[i - 1], text[i])
    BY <2>1
  <2>3. ASSUME NEW i \in 0 .. m + 1 PROVE h[i] = next[i]
    <3>1. m \in Nat /\ i \in Nat /\ i <= m + 1
      OBVIOUS
    <3>2. CASE i = m + 1
      BY <3>1, <3>2
    <3>3. CASE i # m + 1
      BY <3>1, <3>3, <2>2
    <3> QED
      BY <3>2, <3>3
  <2>4. h = next
    BY <2>3
  <2> HIDE DEF h
  <2>5. Is(h, m + 1)
    BY <2>4
  <2> QED
    BY <2>5
<1>3. Len(text) \in S
  <2> HIDE DEF S
  <2>1. S \in SUBSET Nat
    BY DEF S
  <2> QED
    BY <1>1, <1>2, <2>1, Inductive
<1>4. \E g : Is(g, Len(text))
  BY <1>3
<1> QED
  BY <1>4, Zenon DEF After

--------------------------------------------------------------------------------
\* The scan goes on behind where it is, and no further than the end.
LEMMA BehindIsLater ==
  ASSUME NEW html, Len(html) \in Nat, NEW element, NEW i \in 1 .. Len(html) + 1
  PROVE  Behind(html, i, element) \in i .. Len(html) + 1
<1> DEFINE closes == {j \in i .. Len(html) : html[j] = CloseTag(element)}
<1>1. closes \in SUBSET Nat /\ closes \subseteq i .. Len(html)
  OBVIOUS
<1>2. closes # {} => Min(closes) \in i .. Len(html)
  <2> HIDE DEF closes
  <2> QED
    BY <1>1, MinIsLeast
<1>3. Behind(html, i, element) \in {i, Len(html) + 1} \/ (closes # {} /\ Behind(html, i, element) = Min(closes) + 1)
  BY DEF Behind
<1> HIDE DEF closes
<1> QED
  BY <1>2, <1>3

LEMMA BehindTagIsLater ==
  ASSUME NEW html, Len(html) \in Nat, NEW i \in 1 .. Len(html)
  PROVE  BehindTag(html, i) \in i + 1 .. Len(html) + 1
<1> DEFINE ends == {j \in i .. Len(html) : html[j] \in Tags \cup {">"}}
<1>1. ends \in SUBSET Nat /\ ends \subseteq i .. Len(html)
  OBVIOUS
<1>2. ends # {} => Min(ends) \in i .. Len(html)
  <2> HIDE DEF ends
  <2> QED
    BY <1>1, MinIsLeast
<1>3. BehindTag(html, i) = IF ends = {} THEN Len(html) + 1 ELSE Min(ends) + 1
  BY DEF BehindTag
<1> HIDE DEF ends
<1> QED
  BY <1>2, <1>3

\* A turn of the scan: which place it uses of those behind, if any.
LEMMA ScanLooksAhead ==
  ASSUME NEW html, Len(html) \in Nat, NEW i \in 1 .. Len(html) + 1, NEW f, NEW g,
         \A j \in i + 1 .. Len(html) + 1 : f[j] = g[j]
  PROVE  Scan(html, f, i) = Scan(html, g, i)
<1>1. CASE i > Len(html)
  BY <1>1 DEF Scan
<1>2. CASE i <= Len(html) /\ html[i] \in Tags \cup {"<"}
  <2> DEFINE k == Behind(html, Behind(html, i, "script"), "style")
  <2>1. k \in i .. Len(html) + 1
    <3>1. Behind(html, i, "script") \in i .. Len(html) + 1
      BY BehindIsLater
    <3> QED
      BY <3>1, BehindIsLater
  <2>2. \A h : Scan(html, h, i) = IF k > Len(html) THEN <<>> ELSE Spacing(html, k) \o h[BehindTag(html, k)]
    BY <1>2 DEF Scan
  <2> HIDE DEF k
  <2>3. CASE k > Len(html)
    BY <2>2, <2>3
  <2>4. CASE k <= Len(html)
    <3>1. BehindTag(html, k) \in i + 1 .. Len(html) + 1
      BY <2>1, <2>4, BehindTagIsLater
    <3>2. f[BehindTag(html, k)] = g[BehindTag(html, k)]
      BY <3>1
    <3> QED
      BY <2>1, <2>2, <2>4, <3>2
  <2> QED
    BY <2>1, <2>3, <2>4
<1>3. CASE i <= Len(html) /\ html[i] \notin Tags \cup {"<"}
  <2>1. CASE html[i] = "&" /\ i < Len(html) /\ html[i + 1] \in DOMAIN Entity
    <3>1. f[i + 2] = g[i + 2]
      BY <2>1
    <3> QED
      BY <1>3, <2>1, <3>1 DEF Scan
  <2>2. CASE ~(html[i] = "&" /\ i < Len(html) /\ html[i + 1] \in DOMAIN Entity)
    <3>1. f[i + 1] = g[i + 1]
      BY <1>3
    <3> QED
      BY <1>3, <2>2, <3>1 DEF Scan
  <2> QED
    BY <2>1, <2>2
<1> QED
  BY <1>1, <1>2, <1>3

\* The scan from each place on, and that there is such a function.
From(html) == CHOOSE f : f = [i \in 1 .. Len(html) + 1 |-> Scan(html, f, i)]

LEMMA StripIsFrom == \A html : StripTags(html) = From(html)[1]
BY DEF StripTags, From

LEMMA FromIsDefined ==
  ASSUME NEW html, Len(html) \in Nat
  PROVE  From(html) = [i \in 1 .. Len(html) + 1 |-> Scan(html, From(html), i)]
<1> DEFINE n == Len(html) + 1
           Is(g, m) == g = [i \in n - m .. n |-> Scan(html, g, i)]
           S == {m \in Nat : m < n => \E g : Is(g, m)}
<1>1. 0 \in S
  <2> DEFINE last == [i \in n - 0 .. n |-> <<>>]
  <2>1. \A i \in n - 0 .. n : Scan(html, last, i) = <<>>
    BY DEF Scan
  <2>2. last = [i \in n - 0 .. n |-> Scan(html, last, i)]
    BY <2>1
  <2> HIDE DEF last
  <2>3. Is(last, 0)
    BY <2>2
  <2> QED
    BY <2>3
<1>2. ASSUME NEW m \in S PROVE m + 1 \in S
  <2>1. SUFFICES ASSUME m + 1 < n, NEW g, Is(g, m) PROVE \E h : Is(h, m + 1)
    OBVIOUS
  <2> DEFINE k == n - (m + 1)
             h == [i \in k .. n |-> IF i = k THEN Scan(html, g, k) ELSE g[i]]
  <2>2. m \in Nat /\ n \in Nat /\ k \in 1 .. n /\ k + 1 = n - m
    BY <2>1
  <2>3. ASSUME NEW i \in k .. n PROVE h[i] = Scan(html, h, i)
    <3>1. \A j \in i + 1 .. n : g[j] = h[j]
      BY <2>2
    <3>2. Scan(html, g, i) = Scan(html, h, i)
      <4> HIDE DEF h, k
      <4> QED
        BY <2>2, <3>1, ScanLooksAhead
    <3>3. i # k => g[i] = Scan(html, g, i)
      <4>1. \A j \in n - m .. n : g[j] = Scan(html, g, j)
        BY <2>1
      <4>2. i # k => i \in n - m .. n
        BY <2>2
      <4> QED
        BY <4>1, <4>2
    <3> QED
      BY <3>2, <3>3
  <2>4. h = [i \in k .. n |-> Scan(html, h, i)]
    BY <2>3
  <2> HIDE DEF h
  <2>5. Is(h, m + 1)
    BY <2>4
  <2> QED
    BY <2>5
<1>3. Len(html) \in S
  <2> HIDE DEF S
  <2>1. S \in SUBSET Nat
    BY DEF S
  <2> QED
    BY <1>1, <1>2, <2>1, Inductive
<1>4. \E g : Is(g, Len(html))
  BY <1>3
<1>5. n - Len(html) = 1
  OBVIOUS
<1>6. \E g : g = [i \in 1 .. Len(html) + 1 |-> Scan(html, g, i)]
  BY <1>4, <1>5
<1> QED
  BY <1>6, Zenon DEF From

--------------------------------------------------------------------------------
\* The escaped text of the first k characters.
Joined(f, seqs, i) == IF i = 1 THEN seqs[i] ELSE f[i - 1] \o seqs[i]
Flat(seqs) == CHOOSE f : f = [i \in 1 .. Len(seqs) |-> Joined(f, seqs, i)]

LEMMA FlattenIsFlat ==
  \A seqs : FlattenSeq(seqs) = IF Len(seqs) = 0 THEN seqs ELSE Flat(seqs)[Len(seqs)]
BY DEF FlattenSeq, Flat, Joined

LEMMA JoinedLooksBack ==
  ASSUME NEW seqs, NEW i, NEW f, NEW g, i = 1 \/ f[i - 1] = g[i - 1]
  PROVE  Joined(f, seqs, i) = Joined(g, seqs, i)
BY Zenon DEF Joined

LEMMA FlatIsDefined ==
  ASSUME NEW seqs, Len(seqs) \in Nat
  PROVE  Flat(seqs) = [i \in 1 .. Len(seqs) |-> Joined(Flat(seqs), seqs, i)]
<1> DEFINE Is(g, m) == g = [i \in 1 .. m |-> Joined(g, seqs, i)]
           S == {m \in Nat : \E g : Is(g, m)}
<1>1. 0 \in S
  <2> DEFINE none == [i \in 1 .. 0 |-> <<>>]
  <2>1. none = [i \in 1 .. 0 |-> Joined(none, seqs, i)]
    OBVIOUS
  <2> HIDE DEF none
  <2>2. Is(none, 0)
    BY <2>1
  <2> QED
    BY <2>2
<1>2. ASSUME NEW m \in S PROVE m + 1 \in S
  <2>1. SUFFICES ASSUME NEW g, Is(g, m) PROVE \E h : Is(h, m + 1)
    OBVIOUS
  <2> DEFINE h == [i \in 1 .. m + 1 |-> IF i = m + 1 THEN Joined(g, seqs, m + 1) ELSE g[i]]
  <2>2. \A i \in 1 .. m : g[i] = Joined(g, seqs, i)
    BY <2>1
  <2>3. ASSUME NEW i \in 1 .. m + 1 PROVE h[i] = Joined(h, seqs, i)
    <3>1. i = 1 \/ g[i - 1] = h[i - 1]
      OBVIOUS
    <3>2. Joined(g, seqs, i) = Joined(h, seqs, i)
      <4> HIDE DEF h
      <4> QED
        BY <3>1, JoinedLooksBack
    <3>3. h[i] = Joined(g, seqs, i)
      BY <2>2
    <3> QED
      BY <3>2, <3>3
  <2>4. h = [i \in 1 .. m + 1 |-> Joined(h, seqs, i)]
    BY <2>3
  <2> HIDE DEF h
  <2>5. Is(h, m + 1)
    BY <2>4
  <2> QED
    BY <2>5
<1>3. Len(seqs) \in S
  <2> HIDE DEF S
  <2>1. S \in SUBSET Nat
    BY DEF S
  <2> QED
    BY <1>1, <1>2, <2>1, Inductive
<1>4. \E g : Is(g, Len(seqs))
  BY <1>3
<1> QED
  BY <1>4, Zenon DEF Flat

Pieces(text) == [i \in DOMAIN text |-> EscapedChar(text[i])]
Escaped(text) == [k \in 0 .. Len(text) |-> IF k = 0 THEN <<>> ELSE Flat(Pieces(text))[k]]

LEMMA FunctionIsASeq ==
  ASSUME NEW T, NEW n \in Nat, NEW f \in [1 .. n -> T]
  PROVE  f \in Seq(T) /\ Len(f) = n
BY SeqDef

LEMMA PieceIsASeq ==
  ASSUME NEW T, NEW c \in T, {"&", "amp", "lt", "gt", "quot", "<br>"} \subseteq T
  PROVE  EscapedChar(c) \in Seq(T) /\ Len(EscapedChar(c)) \in 1 .. 2
<1>1. \/ EscapedChar(c) = <<c>> \/ EscapedChar(c) = <<"<br>">>
      \/ \E name \in {"amp", "lt", "gt", "quot"} : EscapedChar(c) = <<"&", name>>
  BY DEF EscapedChar, Newline
<1>2. ASSUME NEW x \in T PROVE <<x>> \in Seq(T) /\ Len(<<x>>) \in 1 .. 2
  OBVIOUS
<1>3. ASSUME NEW x \in T, NEW y \in T PROVE <<x, y>> \in Seq(T) /\ Len(<<x, y>>) \in 1 .. 2
  OBVIOUS
<1>4. CASE EscapedChar(c) = <<c>>
  BY <1>2, <1>4
<1>5. CASE EscapedChar(c) = <<"<br>">>
  <2>1. "<br>" \in T
    OBVIOUS
  <2> QED
    BY <1>2, <1>5, <2>1
<1>6. ASSUME NEW name \in {"amp", "lt", "gt", "quot"}, EscapedChar(c) = <<"&", name>>
      PROVE  EscapedChar(c) \in Seq(T) /\ Len(EscapedChar(c)) \in 1 .. 2
  <2>1. "&" \in T /\ name \in T
    OBVIOUS
  <2> QED
    BY <1>3, <1>6, <2>1
<1> QED
  BY <1>1, <1>4, <1>5, <1>6

LEMMA EscapedGrows ==
  ASSUME NEW T, {"&", "amp", "lt", "gt", "quot", "<br>"} \subseteq T, NEW text \in Seq(T)
  PROVE  /\ Escaped(text)[0] = <<>>
         /\ \A k \in 1 .. Len(text) : Escaped(text)[k] = Escaped(text)[k - 1] \o EscapedChar(text[k])
         /\ EscapeHtml(text) = Escaped(text)[Len(text)]
<1> DEFINE n == Len(text)
           flat == Flat(Pieces(text))
<1>1. n \in Nat /\ DOMAIN text = 1 .. n
  BY LenProperties
<1>2. Pieces(text) \in Seq(Seq(T)) /\ Len(Pieces(text)) = n /\ \A i \in 1 .. n : Pieces(text)[i] = EscapedChar(text[i])
  <2>1. \A i \in 1 .. n : text[i] \in T
    BY <1>1, ElementOfSeq
  <2>2. \A i \in 1 .. n : EscapedChar(text[i]) \in Seq(T)
    BY <2>1, PieceIsASeq
  <2>3. Pieces(text) \in [1 .. n -> Seq(T)]
    BY <1>1, <2>2 DEF Pieces
  <2>4. Pieces(text) \in Seq(Seq(T)) /\ Len(Pieces(text)) = n
    BY <1>1, <2>3, FunctionIsASeq
  <2> QED
    BY <1>1, <2>4 DEF Pieces
<1>3. \A i \in 1 .. n : flat[i] = IF i = 1 THEN EscapedChar(text[i]) ELSE flat[i - 1] \o EscapedChar(text[i])
  <2>1. flat = [i \in 1 .. n |-> Joined(flat, Pieces(text), i)]
    BY <1>1, <1>2, FlatIsDefined
  <2> HIDE DEF flat, n
  <2>2. \A i \in 1 .. n : flat[i] = Joined(flat, Pieces(text), i)
    BY <2>1
  <2> QED
    BY <1>2, <2>2, Zenon DEF Joined
<1>4. \A k \in 1 .. n : Escaped(text)[k] = flat[k]
  BY <1>1 DEF Escaped
<1>5. Escaped(text)[0] = <<>>
  BY <1>1 DEF Escaped
<1>6. ASSUME NEW k \in 1 .. n
      PROVE  Escaped(text)[k] = Escaped(text)[k - 1] \o EscapedChar(text[k])
  <2>1. EscapedChar(text[k]) \in Seq(T)
    BY <1>1, PieceIsASeq, ElementOfSeq
  <2>2. CASE k = 1
    <3>1. Escaped(text)[k] = EscapedChar(text[k])
      BY <1>3, <1>4, <2>2
    <3>2. <<>> \o EscapedChar(text[k]) = EscapedChar(text[k])
      BY <2>1, ConcatEmptySeq
    <3>3. Escaped(text)[k - 1] = <<>>
      BY <1>5, <2>2
    <3> QED
      BY <3>1, <3>2, <3>3
  <2>3. CASE k # 1
    <3>1. k - 1 \in 1 .. n
      BY <1>1, <2>3
    <3> HIDE DEF flat, n
    <3> QED
      BY <3>1, <1>3, <1>4, <2>3
  <2> QED
    BY <2>2, <2>3
<1>7. EscapeHtml(text) = IF n = 0 THEN Pieces(text) ELSE flat[n]
  BY <1>2, FlattenIsFlat DEF EscapeHtml, Pieces
<1>8. EscapeHtml(text) = Escaped(text)[n]
  <2>1. CASE n = 0
    <3>1. Pieces(text) = <<>>
      BY <1>2, <2>1, EmptySeq
    <3> QED
      BY <3>1, <1>5, <1>7, <2>1
  <2>2. CASE n # 0
    BY <1>1, <1>4, <1>7, <2>2
  <2> QED
    BY <2>1, <2>2
<1> QED
  BY <1>5, <1>6, <1>8

\* Each is the beginning of the whole, with the next character behind it.
LEMMA EscapedIsPrefix ==
  ASSUME NEW T, {"&", "amp", "lt", "gt", "quot", "<br>"} \subseteq T, NEW text \in Seq(T)
  PROVE  \A k \in 0 .. Len(text) :
           /\ Escaped(text)[k] \in Seq(T)
           /\ Len(Escaped(text)[k]) <= Len(EscapeHtml(text))
           /\ \A j \in 1 .. Len(Escaped(text)[k]) : EscapeHtml(text)[j] = Escaped(text)[k][j]
<1> DEFINE n == Len(text)
           g == Escaped(text)
           Begins(s, t) == Len(s) <= Len(t) /\ \A j \in 1 .. Len(s) : t[j] = s[j]
           S == {m \in Nat : m <= n => \A k \in 0 .. m : g[k] \in Seq(T) /\ Begins(g[k], g[m])}
<1>1. n \in Nat /\ g[0] = <<>> /\ <<>> \in Seq(T) /\ Len(<<>>) = 0
  BY LenProperties, EscapedGrows, EmptySeq
<1>2. \A k \in 1 .. n : g[k] = g[k - 1] \o EscapedChar(text[k]) /\ EscapedChar(text[k]) \in Seq(T)
  BY EscapedGrows, PieceIsASeq, ElementOfSeq
<1> HIDE DEF n, g
<1>3. 0 \in S
  <2>1. \A k \in 0 .. 0 : g[k] = <<>>
    BY <1>1
  <2>2. Begins(<<>>, <<>>)
    BY <1>1
  <2> HIDE DEF Begins
  <2> QED
    BY <1>1, <2>1, <2>2
<1>4. ASSUME NEW m \in S PROVE m + 1 \in S
  <2>1. SUFFICES ASSUME m + 1 <= n
                 PROVE  \A k \in 0 .. m + 1 : g[k] \in Seq(T) /\ Begins(g[k], g[m + 1])
    OBVIOUS
  <2> DEFINE s == g[m]
             t == EscapedChar(text[m + 1])
  <2>2. m \in Nat /\ m + 1 \in 1 .. n /\ g[m + 1] = s \o t /\ t \in Seq(T)
    <3>1. m \in Nat /\ m + 1 \in 1 .. n /\ (m + 1) - 1 = m
      BY <1>1, <2>1
    <3> QED
      BY <3>1, <1>2
  <2>3. s \in Seq(T) /\ \A k \in 0 .. m : g[k] \in Seq(T) /\ Begins(g[k], s)
    BY <2>1, <2>2, <1>1
  <2> HIDE DEF s, t
  <2>4. /\ s \o t \in Seq(T) /\ Len(s) \in Nat /\ Len(t) \in Nat
        /\ Len(s \o t) = Len(s) + Len(t)
        /\ \A j \in 1 .. Len(s) + Len(t) : (s \o t)[j] = IF j <= Len(s) THEN s[j] ELSE t[j - Len(s)]
    BY <2>2, <2>3, ConcatProperties, LenProperties
  <2>5. Begins(s, g[m + 1])
    BY <2>2, <2>4
  <2>6. ASSUME NEW k \in 0 .. m + 1 PROVE g[k] \in Seq(T) /\ Begins(g[k], g[m + 1])
    <3>1. CASE k = m + 1
      <4>1. g[m + 1] \in Seq(T) /\ Len(g[m + 1]) \in Nat
        BY <2>2, <2>4, LenProperties
      <4>2. Begins(g[m + 1], g[m + 1])
        BY <4>1
      <4> QED
        BY <3>1, <4>1, <4>2
    <3>2. CASE k # m + 1
      <4>1. k \in 0 .. m
        BY <2>2, <3>2
      <4>2. g[k] \in Seq(T) /\ Begins(g[k], s) /\ Len(s) \in Nat
        BY <2>3, <2>4, <4>1
      <4>3. Len(g[k]) \in Nat /\ Len(g[m + 1]) \in Nat
        BY <2>2, <2>4, <4>2, LenProperties
      <4> QED
        BY <4>2, <4>3, <2>5
    <3> QED
      BY <3>1, <3>2
  <2> QED
    BY <2>6
<1>5. n \in S
  <2> HIDE DEF S
  <2>1. S \in SUBSET Nat
    BY DEF S
  <2> QED
    BY <1>1, <1>3, <1>4, <2>1, Inductive
<1>6. EscapeHtml(text) = g[n]
  BY EscapedGrows DEF g, n
<1> QED
  BY <1>1, <1>5, <1>6 DEF n, g

LEMMA EscapedIsASeq ==
  ASSUME NEW T, {"&", "amp", "lt", "gt", "quot", "<br>"} \subseteq T, NEW text \in Seq(T)
  PROVE  EscapeHtml(text) \in Seq(T)
<1> DEFINE n == Len(text)
           g == Escaped(text)
<1>1. n \in Nat /\ n \in 0 .. n
  BY LenProperties
<1>2. EscapeHtml(text) = g[n]
  BY EscapedGrows
<1>3. \A k \in 0 .. n : g[k] \in Seq(T)
  BY EscapedIsPrefix
<1> HIDE DEF g, n
<1> QED
  BY <1>1, <1>2, <1>3

--------------------------------------------------------------------------------
\* A piece of a text behind its first p tokens.
Stands(piece, html, p) ==
  p + Len(piece) <= Len(html) /\ \A j \in 1 .. Len(piece) : html[p + j] = piece[j]

\* What is read at a character that was escaped is that character, and the
\* scan goes on with the next.
Undone(c, html, rest, p) == Scan(html, rest, p + 1) = <<c>> \o rest[p + 1 + Len(EscapedChar(c))]

LEMMA ScanUndoesChar ==
  ASSUME NEW html, Len(html) \in Nat, NEW c, c \notin Tags, NEW rest, NEW p \in Nat,
         Stands(EscapedChar(c), html, p)
  PROVE  Undone(c, html, rest, p)
<1>0. SUFFICES Scan(html, rest, p + 1) = <<c>> \o rest[p + 1 + Len(EscapedChar(c))]
  BY DEF Undone
<1>1. /\ Len(html) \in Nat
      /\ p + Len(EscapedChar(c)) <= Len(html)
      /\ \A j \in 1 .. Len(EscapedChar(c)) : html[p + j] = EscapedChar(c)[j]
  BY DEF Stands
<1>2. ASSUME NEW name \in DOMAIN Entity, Entity[name] = c, EscapedChar(c) = <<"&", name>>
      PROVE  Scan(html, rest, p + 1) = <<c>> \o rest[p + 1 + Len(EscapedChar(c))]
  <2>1. Len(EscapedChar(c)) = 2 /\ EscapedChar(c)[1] = "&" /\ EscapedChar(c)[2] = name
    BY <1>2
  <2>2. p + 2 <= Len(html) /\ html[p + 1] = "&" /\ html[p + 2] = name
    BY <1>1, <2>1
  <2>3. /\ p + 1 <= Len(html) /\ p + 1 < Len(html) /\ ~(p + 1 > Len(html))
        /\ (p + 1) + 1 = p + 2 /\ (p + 1) + 2 = p + 1 + 2
    BY <1>1, <2>2
  <2>4. "&" \notin Tags \cup {"<"}
    BY DEF Tags, Breaks, Cells
  <2>5. Scan(html, rest, p + 1) = <<Entity[name]>> \o rest[p + 1 + 2]
    BY <1>2, <2>2, <2>3, <2>4 DEF Scan
  <2> QED
    BY <1>2, <2>1, <2>5
<1>3. CASE c \in {"&", "<", ">", "quote"}
  <2>1. \E name \in DOMAIN Entity : Entity[name] = c /\ EscapedChar(c) = <<"&", name>>
    BY <1>3 DEF Entity, EscapedChar, Newline
  <2> QED
    BY <1>2, <2>1
<1>4. CASE c = Newline
  <2>1. EscapedChar(c) = <<"<br>">>
    BY <1>4 DEF EscapedChar, Newline
  <2>2. Len(EscapedChar(c)) = 1 /\ EscapedChar(c)[1] = "<br>"
    BY <2>1
  <2>3. p + 1 <= Len(html) /\ html[p + 1] = "<br>" /\ ~(p + 1 > Len(html)) /\ p + 1 \in 1 .. Len(html)
    BY <1>1, <2>2
  <2>4. \A element : Behind(html, p + 1, element) = p + 1
    BY <2>3 DEF Behind, OpenTag
  <2>5. BehindTag(html, p + 1) = p + 1 + 1
    <3> DEFINE ends == {j \in p + 1 .. Len(html) : html[j] \in Tags \cup {">"}}
    <3>1. p + 1 \in ends /\ ends \in SUBSET Nat /\ \A j \in ends : p + 1 <= j
      BY <2>3 DEF Tags, Breaks
    <3>2. BehindTag(html, p + 1) = IF ends = {} THEN Len(html) + 1 ELSE Min(ends) + 1
      BY DEF BehindTag
    <3> HIDE DEF ends
    <3>3. Min(ends) \in ends /\ Min(ends) <= p + 1
      BY <3>1, LeastNatural DEF Min
    <3>4. Min(ends) = p + 1
      <4>1. Min(ends) \in Nat /\ p + 1 <= Min(ends)
        BY <3>1, <3>3
      <4> QED
        BY <3>3, <4>1
    <3> QED
      BY <3>1, <3>2, <3>4
  <2>6. "<br>" \in Tags /\ Spacing(html, p + 1) = <<Newline>>
    BY <2>3, Zenon DEF Tags, Breaks, Spacing
  <2>7. Scan(html, rest, p + 1) = <<Newline>> \o rest[p + 1 + 1]
    BY <2>3, <2>4, <2>5, <2>6 DEF Scan
  <2> QED
    BY <1>4, <2>2, <2>7
<1>5. CASE c \notin {"&", "<", ">", "quote", Newline}
  <2>1. EscapedChar(c) = <<c>>
    BY <1>5 DEF EscapedChar
  <2>2. Len(EscapedChar(c)) = 1 /\ EscapedChar(c)[1] = c
    BY <2>1
  <2>3. p + 1 <= Len(html) /\ html[p + 1] = c /\ ~(p + 1 > Len(html))
    BY <1>1, <2>2
  <2>4. Scan(html, rest, p + 1) = <<c>> \o rest[p + 1 + 1]
    BY <1>5, <2>3 DEF Scan
  <2> QED
    BY <2>2, <2>4
<1> QED
  BY <1>3, <1>4, <1>5

LEMMA ConcatTail ==
  ASSUME NEW T, NEW s \in Seq(T), NEW t \in Seq(T), NEW r, r = s \o t
  PROVE  Len(r) = Len(s) + Len(t) /\ \A j \in 1 .. Len(t) : r[Len(s) + j] = t[j]
<1>1. Len(s) \in Nat /\ Len(t) \in Nat
  BY LenProperties
<1>2. /\ Len(r) = Len(s) + Len(t)
      /\ \A i \in 1 .. Len(s) + Len(t) : r[i] = IF i <= Len(s) THEN s[i] ELSE t[i - Len(s)]
  BY ConcatProperties
<1>3. ASSUME NEW j \in 1 .. Len(t) PROVE r[Len(s) + j] = t[j]
  <2>1. Len(s) + j \in 1 .. Len(s) + Len(t) /\ ~(Len(s) + j <= Len(s)) /\ (Len(s) + j) - Len(s) = j
    BY <1>1
  <2> QED
    BY <1>2, <2>1
<1> QED
  BY <1>2, <1>3

LEMMA StripUndoesEscape ==
  ASSUME NEW T, T \cap Tags = {}, NEW text \in Seq(T)
  PROVE  StripTags(EscapeHtml(text)) = text
<1> DEFINE U == T \cup {"&", "amp", "lt", "gt", "quot", "<br>"}
           n == Len(text)
           html == EscapeHtml(text)
           g == Escaped(text)
           from == From(html)
           S == {m \in Nat : m <= n => from[Len(g[n - m]) + 1] = SubSeq(text, n - m + 1, n)}
<1>1. n \in Nat /\ text \in Seq(U) /\ \A k \in 1 .. n : text[k] \in T
  BY LenProperties, SeqMonotonic, ElementOfSeq
<1>2. /\ {"&", "amp", "lt", "gt", "quot", "<br>"} \subseteq U
      /\ \A k \in 1 .. n : g[k] = g[k - 1] \o EscapedChar(text[k]) /\ EscapedChar(text[k]) \in Seq(U)
      /\ g[0] = <<>> /\ g[n] = html
      /\ \A k \in 0 .. n : /\ g[k] \in Seq(U) /\ Len(g[k]) \in Nat /\ Len(g[k]) <= Len(html)
                          /\ \A j \in 1 .. Len(g[k]) : html[j] = g[k][j]
  <2>1. {"&", "amp", "lt", "gt", "quot", "<br>"} \subseteq U
    OBVIOUS
  <2> HIDE DEF U
  <2>2. \A k \in 0 .. n : g[k] \in Seq(U)
    BY <1>1, <2>1, EscapedIsPrefix
  <2>3. \A k \in 0 .. n : Len(g[k]) \in Nat
    BY <2>2, LenProperties
  <2>4. \A k \in 1 .. n : EscapedChar(text[k]) \in Seq(U)
    BY <1>1, <2>1, PieceIsASeq, ElementOfSeq
  <2> QED
    BY <1>1, <2>1, <2>2, <2>3, <2>4, EscapedIsPrefix, EscapedGrows
<1>3. html \in Seq(U) /\ Len(html) \in Nat
  BY <1>1, <1>2
<1>4. \A i \in 1 .. Len(html) + 1 : from[i] = Scan(html, from, i)
  BY <1>3, FromIsDefined
<1> HIDE DEF U, html, g, from, n
<1>5. 0 \in S
  <2>1. from[Len(html) + 1] = <<>>
    <3>1. Len(html) + 1 \in 1 .. Len(html) + 1 /\ Len(html) + 1 > Len(html)
      BY <1>3
    <3>2. Scan(html, from, Len(html) + 1) = <<>>
      BY <3>1, Zenon DEF Scan
    <3> QED
      BY <1>4, <3>1, <3>2
  <2>2. SubSeq(text, n + 1, n) = <<>>
    BY <1>1, SubSeqEmpty
  <2>3. n - 0 = n
    BY <1>1
  <2> QED
    BY <1>1, <1>2, <2>1, <2>2, <2>3
<1>6. ASSUME NEW m \in S PROVE m + 1 \in S
  <2>1. SUFFICES ASSUME m + 1 <= n
                 PROVE  from[Len(g[n - (m + 1)]) + 1] = SubSeq(text, n - (m + 1) + 1, n)
    OBVIOUS
  <2> DEFINE k == n - m
             p == Len(g[k - 1])
             e == EscapedChar(text[k])
  <2>2. /\ m \in Nat /\ k \in 1 .. n /\ k \in 0 .. n /\ k - 1 \in 0 .. n
        /\ n - (m + 1) = k - 1 /\ n - (m + 1) + 1 = k
    BY <1>1, <2>1
  <2>3. from[Len(g[k]) + 1] = SubSeq(text, k + 1, n)
    BY <1>1, <2>1, <2>2
  <2> HIDE DEF k
  <2>4. e \in Seq(U) /\ g[k] = g[k - 1] \o e /\ g[k - 1] \in Seq(U) /\ p \in Nat /\ Len(e) \in Nat
    BY <1>2, <2>2, LenProperties
  <2>5. Len(g[k]) = p + Len(e) /\ \A j \in 1 .. Len(e) : g[k][p + j] = e[j]
    <3> DEFINE r == g[k]
               q == g[k - 1]
    <3>1. q \in Seq(U) /\ e \in Seq(U) /\ r = q \o e
      BY <2>4
    <3> HIDE DEF e, q, r
    <3>2. Len(r) = Len(q) + Len(e) /\ \A j \in 1 .. Len(e) : r[Len(q) + j] = e[j]
      BY <3>1, ConcatTail
    <3> QED
      BY <3>2 DEF q, r
  <2>6. p + Len(e) <= Len(html) /\ \A j \in 1 .. Len(e) : html[p + j] = e[j]
    <3>1. Len(g[k]) <= Len(html) /\ \A i \in 1 .. Len(g[k]) : html[i] = g[k][i]
      BY <1>2, <2>2
    <3> HIDE DEF p, e
    <3>2. \A j \in 1 .. Len(e) : p + j \in 1 .. Len(g[k])
      BY <2>4, <2>5
    <3> QED
      BY <2>5, <3>1, <3>2
  <2>7. text[k] \notin Tags
    BY <1>1, <2>2
  <2>8. Scan(html, from, p + 1) = <<text[k]>> \o from[p + 1 + Len(e)]
    <3> HIDE DEF p, S
    <3>1. p \in Nat /\ Stands(EscapedChar(text[k]), html, p)
      BY <2>4, <2>6 DEF Stands
    <3>2. Undone(text[k], html, from, p)
      BY <1>3, <2>7, <3>1, ScanUndoesChar
    <3> QED
      BY <3>2 DEF Undone
  <2>9. p + 1 \in 1 .. Len(html) + 1 /\ p + 1 + Len(e) = Len(g[k]) + 1
    <3> HIDE DEF p, e
    <3> QED
      BY <1>3, <2>4, <2>5, <2>6
  <2>10. from[p + 1] = <<text[k]>> \o SubSeq(text, k + 1, n)
    BY <1>4, <2>3, <2>8, <2>9
  <2>11. SubSeq(text, k, n) = <<text[k]>> \o SubSeq(text, k + 1, n)
    BY <1>1, <2>2 DEF n
  <2> QED
    BY <2>2, <2>10, <2>11
<1>7. n \in S
  <2> HIDE DEF S
  <2>1. S \in SUBSET Nat
    BY DEF S
  <2> QED
    BY <1>1, <1>5, <1>6, <2>1, Inductive
<1>8. from[1] = SubSeq(text, 1, n)
  <2>1. n - n = 0 /\ Len(g[0]) + 1 = 1 /\ n - n + 1 = 1
    BY <1>1, <1>2, EmptySeq
  <2> QED
    BY <1>1, <1>7, <2>1
<1>9. SubSeq(text, 1, n) = text
  BY DEF n
<1> QED
  BY <1>8, <1>9, StripIsFrom DEF from, html

NoteTyped == source = "note" => body \in Seq(NoteTokens)

(***************************************************************************)
(* A note of any length, of any characters, is read as it was written, but *)
(* for its blanks: what the scan reads at each escaped character is that   *)
(* character, from the last to the first.                                  *)
(***************************************************************************)
THEOREM NotesAlwaysComeBack == BodySpec => []NotesComeBack
<1>1. BodyInit => NoteTyped
  BY EmptySeq DEF BodyInit, NoteTyped
<1>2. NoteTyped /\ [BodyNext]_bodyVars => NoteTyped'
  <2> SUFFICES ASSUME NoteTyped, [BodyNext]_bodyVars PROVE NoteTyped'
    OBVIOUS
  <2>1. CASE WriteNote
    <3>1. body \in Seq(NoteTokens)
      BY <2>1, EmptySeq DEF WriteNote, NoteTyped
    <3>2. PICK t \in NoteTokens : body' = Append(body, t)
      BY <2>1 DEF WriteNote
    <3> QED
      BY <3>1, <3>2, AppendProperties DEF NoteTyped
  <2>2. CASE WritePage
    BY <2>2 DEF WritePage, NoteTyped
  <2>3. CASE UNCHANGED bodyVars
    BY <2>3 DEF bodyVars, NoteTyped
  <2> QED
    BY <2>1, <2>2, <2>3 DEF BodyNext
<1>3. NoteTyped => NotesComeBack
  <2> SUFFICES ASSUME NoteTyped, source = "note" PROVE HtmlToText(EscapeHtml(body)) = CollapseWhitespace(body)
    BY DEF NotesComeBack
  <2>1. StripTags(EscapeHtml(body)) = body
    BY NoteAssumption, StripUndoesEscape DEF NoteTyped
  <2> QED
    BY <2>1, Zenon DEF HtmlToText
<1> QED
  BY <1>1, <1>2, <1>3, PTL DEF BodySpec

--------------------------------------------------------------------------------
\* A scan gives characters, and no tag.
Text(T) == (T \ Tags) \cup {"&", "<", ">", "quote", Newline, Space}

LEMMA TextHasNoTags == \A T : Text(T) \cap Tags = {}
BY DEF Text, Tags, Breaks, Cells, Newline, Space

LEMMA SpacingIsText == ASSUME NEW T, NEW html, NEW k PROVE Spacing(html, k) \in Seq(Text(T))
<1>1. Newline \in Text(T) /\ Space \in Text(T)
  BY DEF Text
<1>2. ASSUME NEW c \in Text(T) PROVE <<c>> \in Seq(Text(T))
  OBVIOUS
<1>3. <<Newline>> \in Seq(Text(T)) /\ <<Space>> \in Seq(Text(T)) /\ <<>> \in Seq(Text(T))
  BY <1>1, <1>2, EmptySeq
<1> QED
  BY <1>3, Zenon DEF Spacing

LEMMA ScanGivesText ==
  ASSUME NEW T, NEW html \in Seq(T), NEW i \in 1 .. Len(html) + 1, NEW rest,
         \A j \in i + 1 .. Len(html) + 1 : rest[j] \in Seq(Text(T))
  PROVE  Scan(html, rest, i) \in Seq(Text(T))
<1> DEFINE V == Text(T)
<1>1. Len(html) \in Nat /\ \A j \in 1 .. Len(html) : html[j] \in T
  BY LenProperties, ElementOfSeq
<1>2. ASSUME NEW s \in Seq(V), NEW t \in Seq(V) PROVE s \o t \in Seq(V)
  BY <1>2, ConcatProperties
<1>3. ASSUME NEW c \in V PROVE <<c>> \in Seq(V)
  OBVIOUS
<1>4. CASE i > Len(html)
  BY <1>4, EmptySeq DEF Scan
<1>5. CASE i <= Len(html) /\ html[i] \in Tags \cup {"<"}
  <2> DEFINE k == Behind(html, Behind(html, i, "script"), "style")
  <2>1. k \in i .. Len(html) + 1
    <3>1. Behind(html, i, "script") \in i .. Len(html) + 1
      BY <1>1, BehindIsLater
    <3> QED
      BY <1>1, <3>1, BehindIsLater
  <2>2. Scan(html, rest, i) = IF k > Len(html) THEN <<>> ELSE Spacing(html, k) \o rest[BehindTag(html, k)]
    BY <1>1, <1>5 DEF Scan
  <2> HIDE DEF k, V
  <2>3. CASE k > Len(html)
    BY <2>2, <2>3, EmptySeq
  <2>4. CASE k <= Len(html)
    <3>1. BehindTag(html, k) \in i + 1 .. Len(html) + 1
      BY <1>1, <2>1, <2>4, BehindTagIsLater
    <3>2. rest[BehindTag(html, k)] \in Seq(V)
      BY <3>1 DEF V
    <3>3. Spacing(html, k) \in Seq(V)
      BY SpacingIsText DEF V
    <3>4. Spacing(html, k) \o rest[BehindTag(html, k)] \in Seq(V)
      BY <1>2, <3>2, <3>3
    <3> QED
      BY <1>1, <2>1, <2>2, <2>4, <3>4 DEF V
  <2> QED
    BY <1>1, <2>1, <2>3, <2>4
<1>6. CASE i <= Len(html) /\ html[i] \notin Tags \cup {"<"}
  <2>1. CASE html[i] = "&" /\ i < Len(html) /\ html[i + 1] \in DOMAIN Entity
    <3>1. Scan(html, rest, i) = <<Entity[html[i + 1]]>> \o rest[i + 2]
      BY <1>1, <1>6, <2>1 DEF Scan
    <3>2. Entity[html[i + 1]] \in V
      BY <2>1 DEF Entity, Text
    <3>3. rest[i + 2] \in Seq(V)
      BY <1>1, <2>1
    <3>4. <<Entity[html[i + 1]]>> \in Seq(V)
      <4> HIDE DEF V
      <4> QED
        BY <1>3, <3>2
    <3>5. <<Entity[html[i + 1]]>> \o rest[i + 2] \in Seq(V)
      BY <1>2, <3>3, <3>4
    <3> QED
      BY <3>1, <3>5
  <2>2. CASE ~(html[i] = "&" /\ i < Len(html) /\ html[i + 1] \in DOMAIN Entity)
    <3>1. Scan(html, rest, i) = <<html[i]>> \o rest[i + 1]
      BY <1>1, <1>6, <2>2 DEF Scan
    <3>2. html[i] \in V
      BY <1>1, <1>6 DEF Text
    <3>3. rest[i + 1] \in Seq(V)
      BY <1>1, <1>6
    <3>4. <<html[i]>> \in Seq(V)
      <4> HIDE DEF V
      <4> QED
        BY <1>3, <3>2
    <3>5. <<html[i]>> \o rest[i + 1] \in Seq(V)
      BY <1>2, <3>3, <3>4
    <3> QED
      BY <3>1, <3>5
  <2> QED
    BY <2>1, <2>2
<1> QED
  BY <1>1, <1>4, <1>5, <1>6

LEMMA StripGivesText ==
  ASSUME NEW T, NEW html \in Seq(T)
  PROVE  StripTags(html) \in Seq(Text(T))
<1> DEFINE n == Len(html) + 1
           from == From(html)
           S == {m \in Nat : m < n => \A i \in n - m .. n : from[i] \in Seq(Text(T))}
<1>1. Len(html) \in Nat /\ n \in Nat
  BY LenProperties
<1>2. \A i \in 1 .. n : from[i] = Scan(html, from, i)
  BY <1>1, FromIsDefined
<1> HIDE DEF from
<1>3. 0 \in S
  <2>1. ASSUME NEW i \in n - 0 .. n PROVE from[i] \in Seq(Text(T))
    <3>1. i \in 1 .. n /\ i > Len(html)
      BY <1>1
    <3>2. Scan(html, from, i) = <<>>
      BY <3>1, Zenon DEF Scan
    <3> QED
      BY <1>2, <3>1, <3>2, EmptySeq
  <2> QED
    BY <2>1
<1>4. ASSUME NEW m \in S PROVE m + 1 \in S
  <2>1. SUFFICES ASSUME m + 1 < n, NEW i \in n - (m + 1) .. n PROVE from[i] \in Seq(Text(T))
    OBVIOUS
  <2>2. m \in Nat /\ i \in 1 .. Len(html) + 1
    BY <1>1, <2>1
  <2>3. \A j \in i + 1 .. n : from[j] \in Seq(Text(T))
    <3>1. \A j \in n - m .. n : from[j] \in Seq(Text(T))
      BY <1>1, <2>1
    <3>2. \A j \in i + 1 .. n : j \in n - m .. n
      BY <1>1, <2>1, <2>2
    <3> QED
      BY <3>1, <3>2
  <2>4. Scan(html, from, i) \in Seq(Text(T))
    <3> HIDE DEF S
    <3> QED
      BY <2>2, <2>3, ScanGivesText
  <2> QED
    BY <1>2, <2>2, <2>4
<1>5. Len(html) \in S
  <2> HIDE DEF S
  <2>1. S \in SUBSET Nat
    BY DEF S
  <2> QED
    BY <1>1, <1>3, <1>4, <2>1, Inductive
<1>6. from[1] \in Seq(Text(T))
  <2>1. 1 \in n - Len(html) .. n
    BY <1>1
  <2> QED
    BY <1>1, <1>5, <2>1
<1> QED
  BY <1>6, StripIsFrom DEF from

--------------------------------------------------------------------------------
\* A text without a blank at either end, and without two in a row.
Blanks == {Newline, Space}
Neat(s) == \A j \in 1 .. Len(s) :
             s[j] \in Blanks => j > 1 /\ j < Len(s) /\ s[j + 1] \notin Blanks

LEMMA OneIsASeq == ASSUME NEW T, NEW c \in T
                   PROVE  <<c>> \in Seq(T) /\ Len(<<c>>) = 1 /\ <<c>>[1] = c
OBVIOUS

LEMMA NeatGrows ==
  ASSUME NEW T, NEW s \in Seq(T), Neat(s), NEW c \in T, c \notin Blanks
  PROVE  s \o <<c>> \in Seq(T) /\ Neat(s \o <<c>>)
<1> DEFINE t == s \o <<c>>
<1>1. /\ t \in Seq(T) /\ Len(s) \in Nat /\ Len(t) = Len(s) + 1
      /\ \A j \in 1 .. Len(s) : t[j] = s[j]
      /\ t[Len(s) + 1] = c
  <2>1. <<c>> \in Seq(T) /\ Len(<<c>>) = 1 /\ <<c>>[1] = c
    BY OneIsASeq
  <2>2. Len(s) \in Nat
    BY LenProperties
  <2>3. /\ t \in Seq(T) /\ Len(t) = Len(s) + 1
        /\ \A j \in 1 .. Len(s) + 1 : t[j] = IF j <= Len(s) THEN s[j] ELSE <<c>>[j - Len(s)]
    BY <2>1, ConcatProperties
  <2> HIDE DEF t
  <2>4. (Len(s) + 1) - Len(s) = 1 /\ Len(s) + 1 \in 1 .. Len(s) + 1 /\ ~(Len(s) + 1 <= Len(s))
    BY <2>2
  <2>5. t[Len(s) + 1] = c
    BY <2>1, <2>3, <2>4
  <2> QED
    BY <2>2, <2>3, <2>5
<1> HIDE DEF t
<1>2. ASSUME NEW j \in 1 .. Len(t), t[j] \in Blanks
      PROVE  j > 1 /\ j < Len(t) /\ t[j + 1] \notin Blanks
  <2>1. j \in 1 .. Len(s) /\ s[j] \in Blanks
    BY <1>1, <1>2
  <2>2. j > 1 /\ j < Len(s) /\ s[j + 1] \notin Blanks
    BY <2>1 DEF Neat
  <2> QED
    BY <1>1, <2>2
<1>3. Neat(t)
  BY <1>2 DEF Neat
<1> QED
  BY <1>1, <1>3 DEF t

\* A blank that waits goes between two characters.
LEMMA NeatGrowsByTwo ==
  ASSUME NEW T, NEW s \in Seq(T), s # <<>>, Neat(s), NEW b \in T, NEW c \in T, c \notin Blanks
  PROVE  (s \o <<b>>) \o <<c>> \in Seq(T) /\ Neat((s \o <<b>>) \o <<c>>)
<1> DEFINE r == s \o <<b>>
           t == r \o <<c>>
<1>1. /\ r \in Seq(T) /\ Len(s) \in Nat /\ Len(s) > 0 /\ Len(r) = Len(s) + 1
      /\ \A j \in 1 .. Len(s) : r[j] = s[j]
  <2>1. <<b>> \in Seq(T) /\ Len(<<b>>) = 1
    BY OneIsASeq
  <2>2. Len(s) \in Nat /\ Len(s) # 0
    BY LenProperties, EmptySeq
  <2>3. /\ r \in Seq(T) /\ Len(r) = Len(s) + 1
        /\ \A j \in 1 .. Len(s) + 1 : r[j] = IF j <= Len(s) THEN s[j] ELSE <<b>>[j - Len(s)]
    BY <2>1, ConcatProperties
  <2> HIDE DEF r
  <2> QED
    BY <2>2, <2>3
<1> HIDE DEF r
<1>2. /\ t \in Seq(T) /\ Len(t) = Len(s) + 2
      /\ \A j \in 1 .. Len(s) : t[j] = s[j]
      /\ t[Len(s) + 2] = c
  <2>1. <<c>> \in Seq(T) /\ Len(<<c>>) = 1 /\ <<c>>[1] = c
    BY OneIsASeq
  <2>2. /\ t \in Seq(T) /\ Len(t) = Len(r) + 1
        /\ \A j \in 1 .. Len(r) + 1 : t[j] = IF j <= Len(r) THEN r[j] ELSE <<c>>[j - Len(r)]
    BY <1>1, <2>1, ConcatProperties
  <2> HIDE DEF t
  <2>3. (Len(r) + 1) - Len(r) = 1 /\ Len(r) + 1 = Len(s) + 2 /\ Len(r) + 1 \in 1 .. Len(r) + 1 /\ ~(Len(r) + 1 <= Len(r))
    BY <1>1
  <2>4. t[Len(s) + 2] = c
    BY <2>1, <2>2, <2>3
  <2> QED
    BY <1>1, <2>2, <2>3, <2>4
<1> HIDE DEF t
<1>3. ASSUME NEW j \in 1 .. Len(t), t[j] \in Blanks
      PROVE  j > 1 /\ j < Len(t) /\ t[j + 1] \notin Blanks
  <2>1. CASE j = Len(s) + 1
    <3>1. j + 1 = Len(s) + 2
      BY <1>1, <2>1
    <3> QED
      BY <1>1, <1>2, <2>1, <3>1
  <2>2. CASE j # Len(s) + 1
    <3>1. j \in 1 .. Len(s) /\ s[j] \in Blanks
      BY <1>1, <1>2, <1>3, <2>2
    <3>2. j > 1 /\ j < Len(s) /\ s[j + 1] \notin Blanks
      BY <3>1 DEF Neat
    <3> QED
      BY <1>1, <1>2, <3>2
  <2> QED
    BY <2>1, <2>2
<1>4. Neat(t)
  BY <1>3 DEF Neat
<1> QED
  BY <1>2, <1>4 DEF t, r

\* The states that collapse_whitespace is in.
Orderly(T, acc) ==
  /\ acc.out \in Seq(T) /\ Neat(acc.out)
  /\ acc.pending \in {<<>>, <<Newline>>, <<Space>>}
  /\ acc = [out |-> acc.out, pending |-> acc.pending]

LEMMA PutCharIsOrderly ==
  ASSUME NEW T, Blanks \subseteq T, NEW acc, Orderly(T, acc), NEW c \in T
  PROVE  Orderly(T, PutChar(acc, c))
<1> DEFINE o == acc.out
           p == acc.pending
<1>1. o \in Seq(T) /\ Neat(o) /\ p \in {<<>>, <<Newline>>, <<Space>>} /\ acc = [out |-> o, pending |-> p]
  BY DEF Orderly
<1> HIDE DEF o, p
<1>2. CASE c \in Blanks
  <2>1. PutChar(acc, c) = [out |-> o, pending |-> IF c = Newline \/ p = <<Newline>> THEN <<Newline>> ELSE <<Space>>]
    BY <1>1, <1>2 DEF PutChar, Blanks
  <2> QED
    BY <1>1, <2>1 DEF Orderly
<1>3. CASE c \notin Blanks
  <2> DEFINE q == o \o (IF o = <<>> THEN <<>> ELSE p) \o <<c>>
  <2>1. PutChar(acc, c) = [out |-> q, pending |-> <<>>]
    BY <1>1, <1>3 DEF PutChar, Blanks
  <2>2. q \in Seq(T) /\ Neat(q)
    <3>1. o \o <<>> = o
      BY <1>1, ConcatEmptySeq
    <3>2. CASE o = <<>> \/ p = <<>>
      <4>1. q = o \o <<c>>
        BY <3>1, <3>2, Zenon
      <4> HIDE DEF q
      <4> QED
        BY <1>1, <1>3, <4>1, NeatGrows
    <3>3. CASE o # <<>> /\ p # <<>>
      <4>1. \E b \in Blanks : p = <<b>>
        BY <1>1, <3>3 DEF Blanks
      <4>2. PICK b \in T : p = <<b>>
        BY <4>1
      <4>3. q = (o \o <<b>>) \o <<c>>
        BY <3>3, <4>2, Zenon
      <4> HIDE DEF q
      <4> QED
        BY <1>1, <1>3, <3>3, <4>3, NeatGrowsByTwo
    <3> QED
      BY <3>2, <3>3
  <2> HIDE DEF q
  <2> QED
    BY <2>1, <2>2 DEF Orderly
<1> QED
  BY <1>2, <1>3

LEMMA CollapseIsNeat ==
  ASSUME NEW T, Blanks \subseteq T, NEW text \in Seq(T)
  PROVE  CollapseWhitespace(text) \in Seq(T) /\ Neat(CollapseWhitespace(text))
<1> DEFINE n == Len(text)
           after == After(text)
           S == {m \in Nat : m <= n => Orderly(T, after[m])}
<1>1. n \in Nat /\ \A k \in 1 .. n : text[k] \in T
  BY LenProperties, ElementOfSeq
<1>2. \A i \in 0 .. n : after[i] = IF i = 0 THEN Start ELSE PutChar(after[i - 1], text[i])
  BY <1>1, AfterIsDefined
<1> HIDE DEF after, n
<1>3. 0 \in S
  <2>1. after[0] = Start
    BY <1>1, <1>2
  <2>2. Neat(<<>>) /\ <<>> \in Seq(T)
    BY EmptySeq DEF Neat
  <2>3. Start.out = <<>> /\ Start.pending = <<>>
    BY DEF Start
  <2>4. Orderly(T, Start)
    BY <2>2, <2>3, Zenon DEF Orderly, Start
  <2> HIDE DEF Start
  <2> QED
    BY <2>1, <2>4
<1>4. ASSUME NEW m \in S PROVE m + 1 \in S
  <2>1. SUFFICES ASSUME m + 1 <= n PROVE Orderly(T, after[m + 1])
    OBVIOUS
  <2>2. m \in Nat /\ m + 1 \in 1 .. n /\ m + 1 \in 0 .. n /\ m + 1 # 0 /\ (m + 1) - 1 = m
    BY <1>1, <2>1
  <2>3. Orderly(T, after[m]) /\ text[m + 1] \in T
    BY <1>1, <2>1, <2>2
  <2>4. after[m + 1] = PutChar(after[m], text[m + 1])
    BY <1>2, <2>2
  <2> HIDE DEF S
  <2> QED
    BY <2>3, <2>4, PutCharIsOrderly
<1>5. n \in S
  <2> HIDE DEF S
  <2>1. S \in SUBSET Nat
    BY DEF S
  <2> QED
    BY <1>1, <1>3, <1>4, <2>1, Inductive
<1>6. Orderly(T, after[n])
  BY <1>1, <1>5
<1>7. CollapseWhitespace(text) = after[n].out
  BY CollapseIsAfter DEF after, n
<1> QED
  BY <1>6, <1>7 DEF Orderly

--------------------------------------------------------------------------------
LEMMA OneMore ==
  ASSUME NEW T, NEW s \in Seq(T), NEW i \in Nat, i < Len(s), NEW k, k = i + 1
  PROVE  SubSeq(s, 1, i) \o <<s[k]>> = SubSeq(s, 1, k)
OBVIOUS

LEMMA NotEmpty ==
  ASSUME NEW T, NEW s \in Seq(T), NEW i \in 1 .. Len(s)
  PROVE  SubSeq(s, 1, i) # <<>>
OBVIOUS

\* What is out and pending after i characters of a neat text.
Kept(s, i) ==
  IF i = 0 THEN Start
  ELSE IF s[i] \in Blanks THEN [out |-> SubSeq(s, 1, i - 1), pending |-> <<s[i]>>]
  ELSE [out |-> SubSeq(s, 1, i), pending |-> <<>>]

LEMMA NeatIsKept ==
  ASSUME NEW T, NEW s \in Seq(T), Neat(s), NEW i \in Nat, NEW k, k = i + 1, k <= Len(s)
  PROVE  PutChar(Kept(s, i), s[k]) = Kept(s, k)
<1>1. /\ Len(s) \in Nat /\ k \in 1 .. Len(s) /\ k - 1 = i /\ i < Len(s) /\ k # 0
      /\ SubSeq(s, 1, i) \in Seq(T) /\ s[k] \in T
  BY LenProperties, SubSeqProperties, ElementOfSeq
<1>2. CASE s[k] \in Blanks
  <2>1. k > 1 /\ i \in 1 .. Len(s)
    BY <1>1, <1>2 DEF Neat
  <2>2. s[i] \notin Blanks
    BY <1>1, <2>1, <1>2 DEF Neat
  <2>3. Kept(s, i) = [out |-> SubSeq(s, 1, i), pending |-> <<>>]
    BY <2>1, <2>2 DEF Kept
  <2>4. Kept(s, k) = [out |-> SubSeq(s, 1, i), pending |-> <<s[k]>>]
    BY <1>1, <1>2 DEF Kept
  <2>5. PutChar([out |-> SubSeq(s, 1, i), pending |-> <<>>], s[k]) = [out |-> SubSeq(s, 1, i), pending |-> <<s[k]>>]
    BY <1>2 DEF PutChar, Blanks, Newline, Space
  <2> QED
    BY <2>3, <2>4, <2>5
<1>3. CASE s[k] \notin Blanks
  <2>1. Kept(s, k) = [out |-> SubSeq(s, 1, k), pending |-> <<>>]
    BY <1>1, <1>3 DEF Kept
  <2>2. \A acc : PutChar(acc, s[k]) =
                   [out     |-> acc.out \o (IF acc.out = <<>> THEN <<>> ELSE acc.pending) \o <<s[k]>>,
                    pending |-> <<>>]
    BY <1>3, Zenon DEF PutChar, Blanks
  <2>3. SubSeq(s, 1, i) \o <<s[k]>> = SubSeq(s, 1, k)
    BY <1>1, OneMore
  <2>4. SubSeq(s, 1, i) \o <<>> = SubSeq(s, 1, i)
    BY <1>1, ConcatEmptySeq
  <2>5. CASE i = 0 \/ s[i] \notin Blanks
    <3>1. Kept(s, i).out = SubSeq(s, 1, i) /\ Kept(s, i).pending = <<>>
      <4>1. i = 0 => SubSeq(s, 1, i) = <<>>
        BY SubSeqEmpty
      <4> QED
        BY <2>5, <4>1 DEF Kept, Start
    <3>2. PutChar(Kept(s, i), s[k]) = [out |-> SubSeq(s, 1, i) \o <<>> \o <<s[k]>>, pending |-> <<>>]
      BY <2>2, <3>1, Zenon
    <3> QED
      BY <2>1, <2>3, <2>4, <3>2, Zenon
  <2>6. CASE i # 0 /\ s[i] \in Blanks
    <3>1. i > 1 /\ i \in 1 .. Len(s)
      BY <1>1, <2>6 DEF Neat
    <3> DEFINE j == i - 1
    <3>2. j \in Nat /\ j \in 1 .. Len(s) /\ i = j + 1 /\ j < Len(s)
      BY <1>1, <3>1
    <3>3. Kept(s, i).out = SubSeq(s, 1, j) /\ Kept(s, i).pending = <<s[i]>>
      BY <2>6 DEF Kept
    <3> HIDE DEF j
    <3>4. SubSeq(s, 1, j) # <<>>
      BY <3>2, NotEmpty
    <3>5. SubSeq(s, 1, j) \o <<s[i]>> = SubSeq(s, 1, i)
      BY <3>2, OneMore
    <3>6. PutChar(Kept(s, i), s[k]) = [out |-> SubSeq(s, 1, j) \o <<s[i]>> \o <<s[k]>>, pending |-> <<>>]
      BY <2>2, <3>3, <3>4, Zenon
    <3> QED
      BY <2>1, <2>3, <3>5, <3>6, Zenon
  <2> QED
    BY <2>5, <2>6
<1> QED
  BY <1>2, <1>3

\* A neat text stays as it is.
LEMMA NeatIsCollapsed ==
  ASSUME NEW T, NEW s \in Seq(T), Neat(s)
  PROVE  CollapseWhitespace(s) = s
<1> DEFINE n == Len(s)
           after == After(s)
           S == {m \in Nat : m <= n => after[m] = Kept(s, m)}
<1>1. n \in Nat
  BY LenProperties
<1>2. \A i \in 0 .. n : after[i] = IF i = 0 THEN Start ELSE PutChar(after[i - 1], s[i])
  BY <1>1, AfterIsDefined
<1> HIDE DEF after
<1>3. 0 \in S
  BY <1>1, <1>2 DEF Kept
<1>4. ASSUME NEW m \in S PROVE m + 1 \in S
  <2>1. SUFFICES ASSUME m + 1 <= n PROVE after[m + 1] = Kept(s, m + 1)
    OBVIOUS
  <2>2. m \in Nat /\ m + 1 \in 0 .. n /\ m + 1 # 0 /\ (m + 1) - 1 = m
    BY <1>1, <2>1
  <2>3. after[m] = Kept(s, m)
    BY <1>1, <2>1, <2>2
  <2>4. after[m + 1] = PutChar(after[m], s[m + 1])
    BY <1>2, <2>2
  <2>5. PutChar(Kept(s, m), s[m + 1]) = Kept(s, m + 1)
    <3> HIDE DEF S
    <3> QED
      BY <2>1, <2>2, NeatIsKept
  <2> QED
    BY <2>3, <2>4, <2>5
<1>5. n \in S
  <2> HIDE DEF S, n
  <2>1. S \in SUBSET Nat
    BY DEF S
  <2> QED
    BY <1>1, <1>3, <1>4, <2>1, Inductive
<1>6. Kept(s, n).out = s
  <2>1. CASE n = 0
    <3>1. s = <<>>
      BY <2>1, EmptySeq
    <3> QED
      BY <2>1, <3>1 DEF Kept, Start
  <2>2. CASE n # 0
    <3>1. s[n] \notin Blanks
      BY <1>1, <2>2 DEF Neat
    <3>2. Kept(s, n).out = SubSeq(s, 1, n)
      BY <2>2, <3>1 DEF Kept
    <3> QED
      BY <3>2
  <2> QED
    BY <2>1, <2>2
<1> QED
  BY <1>1, <1>5, <1>6, CollapseIsAfter DEF after

BodyTyped == body \in Seq(NoteTokens \cup PageTokens)

(***************************************************************************)
(* What is shown of an HTML body, whoever wrote it, is what is shown again *)
(* when it is written back: a text has no tags, so that what is escaped in *)
(* it comes back; and it is neat, so that it is not collapsed any further. *)
(***************************************************************************)
THEOREM WritingBackIsHarmless == BodySpec => []WritingBackChangesNothing
<1>1. BodyInit => BodyTyped
  BY EmptySeq DEF BodyInit, BodyTyped
<1>2. BodyTyped /\ [BodyNext]_bodyVars => BodyTyped'
  <2> SUFFICES ASSUME BodyTyped, [BodyNext]_bodyVars PROVE BodyTyped'
    OBVIOUS
  <2>1. CASE BodyNext
    <3>1. PICK t \in NoteTokens \cup PageTokens : body' = Append(body, t)
      BY <2>1 DEF BodyNext, WriteNote, WritePage
    <3> QED
      BY <3>1, AppendProperties DEF BodyTyped
  <2>2. CASE UNCHANGED bodyVars
    BY <2>2 DEF bodyVars, BodyTyped
  <2> QED
    BY <2>1, <2>2
<1>3. BodyTyped => WritingBackChangesNothing
  <2> SUFFICES ASSUME BodyTyped PROVE WritingBackChangesNothing
    OBVIOUS
  <2> DEFINE T == NoteTokens \cup PageTokens \cup {"&", "amp", "lt", "gt", "quot", "<br>"}
             shown == HtmlToText(Stored)
  <2>1. Stored \in Seq(T)
    <3>1. body \in Seq(T)
      BY SeqMonotonic DEF BodyTyped
    <3>2. {"&", "amp", "lt", "gt", "quot", "<br>"} \subseteq T
      OBVIOUS
    <3> HIDE DEF T
    <3>3. EscapeHtml(body) \in Seq(T)
      BY <3>1, <3>2, EscapedIsASeq
    <3> QED
      BY <3>1, <3>3 DEF Stored
  <2> HIDE DEF T
  <2>2. StripTags(Stored) \in Seq(Text(T))
    BY <2>1, StripGivesText
  <2>3. Blanks \subseteq Text(T)
    BY DEF Blanks, Text
  <2>4. shown \in Seq(Text(T)) /\ Neat(shown)
    BY <2>2, <2>3, CollapseIsNeat DEF HtmlToText
  <2> HIDE DEF shown
  <2>5. StripTags(EscapeHtml(shown)) = shown
    BY <2>4, TextHasNoTags, StripUndoesEscape
  <2>6. CollapseWhitespace(shown) = shown
    BY <2>4, NeatIsCollapsed
  <2>7. HtmlToText(EscapeHtml(shown)) = shown
    BY <2>5, <2>6, Zenon DEF HtmlToText
  <2> QED
    BY <2>7, Zenon DEF WritingBackChangesNothing, shown
<1> QED
  BY <1>1, <1>2, <1>3, PTL DEF BodySpec
================================================================================
