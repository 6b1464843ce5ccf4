--------------------------- MODULE ExchangeProofs ---------------------------
(***************************************************************************)
(* Proofs about Exchange and the modules it is built from, for any         *)
(* scenarios, documents of the right types and days of any length.         *)
(*                                                                         *)
(* Part 1, Calendar: what compile accepts leaves no instant to two         *)
(* windows, and Calendar::at finds the schedule that is meant to hold, if  *)
(* one is.                                                                 *)
(*                                                                         *)
(* Part 2, Configuration and RouteOrder: what Config::validate accepts is  *)
(* complete enough to be built, and the layers and the price of an         *)
(* accepted model are those that are meant.                                *)
(*                                                                         *)
(* Part 3, Exchange: an accepted document never fails to start, and        *)
(* however the clock runs between routing, attempt and answer, layers and  *)
(* prices are those that are meant.                                        *)
(*                                                                         *)
(* Part 4, Workspace: where documents come from.  For any documents,       *)
(* editors, first files and bounds a restart comes back with what is       *)
(* served, a save replaces the revision its editor had loaded, and neither *)
(* a save nor the migration overwrites an edit by hand that fell before    *)
(* its last look at the file.                                              *)
(***************************************************************************)
EXTENDS Exchange, Workspace, WellFoundedInduction, TLAPS

-----------------------------------------------------------------------------
(* Part 1: Calendar.                                                       *)

WellFormed(windows) ==
  \A w \in windows : w.start \in Nat /\ w.end \in Nat /\ w.start < w.end

\* Of any natural numbers one is the least.
LEMMA Least ==
  ASSUME NEW S \in SUBSET Nat, S # {}
  PROVE  \E x \in S : \A y \in S : x <= y
<1> DEFINE Below == {pair \in Nat \X Nat : pair[1] < pair[2]}
<1>1. IsWellFoundedOn(Below, Nat)
  BY NatLessThanWellFounded DEF OpToRel
<1> HIDE DEF Below
<1>2. PICK x \in S : \A y \in S : ~ (<<y, x>> \in Below)
  BY <1>1, WFMin
<1>3. \A y \in S : ~ (y < x)
  BY <1>2 DEF Below
<1> QED
  BY <1>3

\* If all neighbours are apart, any two windows are: the one before ends no
\* later than the next one after it starts.
LEMMA ApartDisjoint ==
  ASSUME NEW windows, WellFormed(windows), NeighboursApart(windows),
         NEW p \in windows, NEW q \in windows, p # q, p.start <= q.start
  PROVE  p.end <= q.start
<1> DEFINE Later == {w.start : w \in {v \in windows : p.start < v.start}}
<1>1. Later \subseteq Nat
  BY DEF WellFormed
<1>2. CASE p.start = q.start
  <2>1. <<p, q>> \in Neighbours(windows)
    BY <1>2 DEF Neighbours, WellFormed
  <2> QED
    BY <2>1 DEF NeighboursApart
<1>3. CASE p.start # q.start
  <2>1. q.start \in Later
    BY <1>3 DEF WellFormed
  <2> HIDE DEF Later
  <2>2. PICK x \in Later : \A y \in Later : x <= y
    BY <1>1, <2>1, Least
  <2>3. PICK r \in windows : r.start = x /\ p.start < r.start
    BY <2>2 DEF Later
  <2>4. \A w \in windows : p.start < w.start => r.start <= w.start
    BY <2>2, <2>3 DEF Later
  <2>5. <<p, r>> \in Neighbours(windows)
    BY <2>3, <2>4 DEF Neighbours, WellFormed
  <2>6. p.end <= r.start
    BY <2>5 DEF NeighboursApart
  <2>7. r.start <= q.start
    BY <1>3, <2>4 DEF WellFormed
  <2> QED
    BY <2>3, <2>6, <2>7 DEF WellFormed
<1> QED
  BY <1>2, <1>3

\* No instant is in two windows.
LEMMA OneWindow ==
  ASSUME NEW windows, WellFormed(windows), NeighboursApart(windows),
         NEW instant \in Nat,
         NEW p \in Holding(windows, instant), NEW q \in Holding(windows, instant)
  PROVE  p = q
<1>1. p \in windows /\ q \in windows /\ p.start <= instant /\ instant < p.end
        /\ q.start <= instant /\ instant < q.end
  BY DEF Holding
<1>2. SUFFICES ASSUME p # q
               PROVE  FALSE
  OBVIOUS
<1>3. p.start <= q.start \/ q.start <= p.start
  BY <1>1 DEF WellFormed
<1>4. p.end <= q.start \/ q.end <= p.start
  BY <1>1, <1>2, <1>3, ApartDisjoint
<1> QED
  BY <1>1, <1>4 DEF WellFormed

-----------------------------------------------------------------------------
(* A schedule's windows are where it is meant to hold.                     *)

Timed(schedule) ==
  /\ schedule.start \in 0 .. Day - 1
  /\ schedule.end \in 0 .. Day - 1
  /\ schedule.start # schedule.end
  /\ Members(schedule.days) \subseteq 1 .. 7

\* The week is of natural length.
LEMMA WeekLasts == Week \in Nat /\ Week = 7 * Day /\ Day \in Nat /\ Day > 0
BY CalendarAssumption DEF Week

\* Where the days begin.
LEMMA DayStarts ==
  ASSUME NEW day \in 1 .. 7
  PROVE  /\ (day - 1) * Day \in Nat
         /\ (day - 1) * Day + Day <= Week
<1>1. Day \in Nat /\ Week = 7 * Day
  BY WeekLasts
<1>2. day = 1 \/ day = 2 \/ day = 3 \/ day = 4 \/ day = 5 \/ day = 6 \/ day = 7
  OBVIOUS
<1>3. CASE day = 1
  BY <1>1, <1>3
<1>4. CASE day = 2
  BY <1>1, <1>4
<1>5. CASE day = 3
  BY <1>1, <1>5
<1>6. CASE day = 4
  BY <1>1, <1>6
<1>7. CASE day = 5
  BY <1>1, <1>7
<1>8. CASE day = 6
  BY <1>1, <1>8
<1>9. CASE day = 7
  BY <1>1, <1>9
<1> QED
  BY <1>2, <1>3, <1>4, <1>5, <1>6, <1>7, <1>8, <1>9

\* A schedule begins in the week, lasts for less than one, and ends when it
\* has lasted.
LEMMA DayBounds ==
  ASSUME NEW schedule, Timed(schedule), NEW day \in 1 .. 7
  PROVE  /\ Begins(schedule, day) \in Nat
         /\ Begins(schedule, day) < Week
         /\ Ends(schedule, day) = Begins(schedule, day) + Lasts(schedule)
         /\ Lasts(schedule) \in Nat
         /\ 0 < Lasts(schedule)
         /\ Lasts(schedule) < Week
<1> DEFINE dawn == (day - 1) * Day
<1>1. dawn \in Nat /\ dawn + Day <= Week
  BY DayStarts
<1> HIDE DEF dawn
<1>2. Begins(schedule, day) = dawn + schedule.start
  BY DEF Begins, dawn
<1>3. Ends(schedule, day) =
        dawn + schedule.end + IF schedule.end < schedule.start THEN Day ELSE 0
  BY DEF Ends, dawn
<1>4. schedule.start \in 0 .. Day - 1 /\ schedule.end \in 0 .. Day - 1
        /\ schedule.start # schedule.end
  BY DEF Timed
<1>5. CASE schedule.end < schedule.start
  BY <1>1, <1>2, <1>3, <1>4, <1>5, WeekLasts DEF Lasts
<1>6. CASE schedule.start < schedule.end
  BY <1>1, <1>2, <1>3, <1>4, <1>6, WeekLasts DEF Lasts
<1> QED
  BY <1>4, <1>5, <1>6, WeekLasts

\* One day's windows hold the instants at which the schedule is meant to
\* hold for having started on that day.
LEMMA WindowsOnDay ==
  ASSUME NEW schedule, Timed(schedule), NEW i, NEW day \in 1 .. 7,
         NEW instant \in 0 .. Week - 1
  PROVE  /\ WellFormed(WindowsOn(schedule, i, day))
         /\ \A w \in WindowsOn(schedule, i, day) : w.schedule = i
         /\ Holding(WindowsOn(schedule, i, day), instant) # {} <=>
              \E since \in {0, Week} :
                 /\ Begins(schedule, day) <= instant + since
                 /\ instant + since < Begins(schedule, day) + Lasts(schedule)
<1> DEFINE from == Begins(schedule, day)
           to == Ends(schedule, day)
           first == Window(from, IF to <= Week THEN to ELSE Week, i)
           rest == Window(0, to - Week, i)
<1>1. /\ from \in Nat /\ from < Week
      /\ to = from + Lasts(schedule)
      /\ Lasts(schedule) \in Nat /\ 0 < Lasts(schedule)
      /\ Lasts(schedule) < Week
      /\ Week \in Nat
  BY DayBounds, WeekLasts
<1>2. WindowsOn(schedule, i, day) =
        {first} \cup IF to > Week THEN {rest} ELSE {}
  BY DEF WindowsOn
<1>3. /\ first.start = from /\ first.end = IF to <= Week THEN to ELSE Week
      /\ rest.start = 0 /\ rest.end = to - Week
      /\ first.schedule = i /\ rest.schedule = i
  BY DEF Window
<1> HIDE DEF from, to, first, rest
<1>4. WellFormed(WindowsOn(schedule, i, day))
  BY <1>1, <1>2, <1>3 DEF WellFormed
<1>5. \A w \in WindowsOn(schedule, i, day) : w.schedule = i
  BY <1>2, <1>3
<1>6. Holding(WindowsOn(schedule, i, day), instant) # {} <=>
        \/ from <= instant /\ instant < (IF to <= Week THEN to ELSE Week)
        \/ to > Week /\ instant < to - Week
  BY <1>1, <1>2, <1>3 DEF Holding
<1>7. (\E since \in {0, Week} :
         from <= instant + since /\ instant + since < from + Lasts(schedule)) <=>
        \/ from <= instant /\ instant < to
        \/ instant + Week < to
  BY <1>1
<1>8. (\/ from <= instant /\ instant < (IF to <= Week THEN to ELSE Week)
       \/ to > Week /\ instant < to - Week) <=>
      (\/ from <= instant /\ instant < to
       \/ instant + Week < to)
  BY <1>1
<1> QED
  BY <1>4, <1>5, <1>6, <1>7, <1>8 DEF from

-----------------------------------------------------------------------------
(* Calendar::at, for any schedules compile accepts.                        *)

\* A schedule is meant to hold exactly when a window of its holds.
LEMMA WindowsOfSchedules ==
  ASSUME NEW schedules, \A i \in DOMAIN schedules : Timed(schedules[i]),
         NEW instant \in 0 .. Week - 1
  PROVE  /\ WellFormed(Windows(schedules))
         /\ \A i \in DOMAIN schedules :
              Means(schedules[i], instant) <=>
                \E w \in Holding(Windows(schedules), instant) : w.schedule = i
         /\ \A w \in Windows(schedules) : w.schedule \in DOMAIN schedules
<1>1. ASSUME NEW w
      PROVE  w \in Windows(schedules) <=>
               \E i \in DOMAIN schedules : \E day \in Members(schedules[i].days) :
                  w \in WindowsOn(schedules[i], i, day)
  BY DEF Windows
<1>2. \A i \in DOMAIN schedules : Members(schedules[i].days) \subseteq 1 .. 7
  BY DEF Timed
<1>3. ASSUME NEW i \in DOMAIN schedules, NEW day \in Members(schedules[i].days)
      PROVE  /\ WellFormed(WindowsOn(schedules[i], i, day))
             /\ \A w \in WindowsOn(schedules[i], i, day) : w.schedule = i
             /\ Holding(WindowsOn(schedules[i], i, day), instant) # {} <=>
                  \E since \in {0, Week} :
                     /\ Begins(schedules[i], day) <= instant + since
                     /\ instant + since <
                          Begins(schedules[i], day) + Lasts(schedules[i])
  BY <1>2, <1>3, WindowsOnDay
<1>4. WellFormed(Windows(schedules))
  BY <1>1, <1>3 DEF WellFormed
<1>5. \A w \in Windows(schedules) : w.schedule \in DOMAIN schedules
  BY <1>1, <1>3
<1>6. ASSUME NEW i \in DOMAIN schedules
      PROVE  Means(schedules[i], instant) <=>
               \E w \in Holding(Windows(schedules), instant) : w.schedule = i
  <2>1. Means(schedules[i], instant) <=>
          \E day \in Members(schedules[i].days) :
             Holding(WindowsOn(schedules[i], i, day), instant) # {}
    BY <1>3 DEF Means
  <2>2. ASSUME NEW day \in Members(schedules[i].days),
               NEW w \in Holding(WindowsOn(schedules[i], i, day), instant)
        PROVE  w \in Holding(Windows(schedules), instant) /\ w.schedule = i
    BY <1>1, <1>3 DEF Holding
  <2>3. ASSUME NEW w \in Holding(Windows(schedules), instant), w.schedule = i
        PROVE  \E day \in Members(schedules[i].days) :
                  w \in Holding(WindowsOn(schedules[i], i, day), instant)
    <3>1. PICK j \in DOMAIN schedules : \E day \in Members(schedules[j].days) :
             w \in WindowsOn(schedules[j], j, day)
      BY <1>1 DEF Holding
    <3>2. j = i
      BY <1>3, <2>3, <3>1
    <3> QED
      BY <3>1, <3>2 DEF Holding
  <2> QED
    BY <2>1, <2>2, <2>3
<1> QED
  BY <1>4, <1>5, <1>6

\* For schedules that compile accepts, no two are meant at one instant, and
\* Calendar::at (calendar.rs) finds the one that is: neither the splitting of
\* a window at Sunday midnight nor the comparison of neighbours only loses
\* one.
THEOREM FindsTheScheduleMeant ==
  ASSUME NEW schedules, \A i \in DOMAIN schedules : Timed(schedules[i]),
         DOMAIN schedules \subseteq Nat \ {0},
         NeighboursApart(Windows(schedules)),
         NEW instant \in 0 .. Week - 1
  PROVE  MeantSchedules(schedules, instant) =
           IF ActiveSchedule(schedules, instant) = 0 THEN {}
           ELSE {ActiveSchedule(schedules, instant)}
<1> DEFINE holding == Holding(Windows(schedules), instant)
           found == CHOOSE w \in holding : \A v \in holding : w.start <= v.start
<1>1. /\ WellFormed(Windows(schedules))
      /\ \A i \in DOMAIN schedules :
           Means(schedules[i], instant) <=> \E w \in holding : w.schedule = i
      /\ \A w \in Windows(schedules) : w.schedule \in DOMAIN schedules
  BY WindowsOfSchedules
<1>2. instant \in Nat
  BY WeekLasts
<1>3. \A p, q \in holding : p = q
  BY <1>1, <1>2, OneWindow
<1>4. \A w \in holding : w.start \in Nat /\ w.schedule \in DOMAIN schedules
  BY <1>1 DEF Holding, WellFormed
<1>5. ActiveSchedule(schedules, instant) =
        IF holding = {} THEN 0 ELSE found.schedule
  BY DEF ActiveSchedule
<1>6. MeantSchedules(schedules, instant) = {w.schedule : w \in holding}
  BY <1>1, <1>4 DEF MeantSchedules
<1>7. CASE holding = {}
  BY <1>5, <1>6, <1>7
<1>8. CASE holding # {}
  <2>1. \E w \in holding : \A v \in holding : w.start <= v.start
    BY <1>3, <1>4, <1>8
  <2>2. found \in holding
    BY <2>1
  <2> HIDE DEF found
  <2>3. found.schedule # 0
    BY <1>4, <2>2
  <2>4. MeantSchedules(schedules, instant) = {found.schedule}
    BY <1>3, <1>6, <2>2
  <2> QED
    BY <1>5, <1>8, <2>3, <2>4
<1> QED
  BY <1>7, <1>8

-----------------------------------------------------------------------------
(* Part 2: Configuration and RouteOrder.                                   *)

(* Lookups.                                                                *)

\* The first of those that are wanted.
LEMMA First ==
  ASSUME NEW s, Listed(s), NEW Wanted \in SUBSET DOMAIN s, Wanted # {}
  PROVE  \E i \in Wanted : \A j \in 1 .. i - 1 : j \in DOMAIN s /\ j \notin Wanted
<1>1. Wanted \subseteq Nat /\ Len(s) \in Nat /\ DOMAIN s = 1 .. Len(s)
  BY DEF Listed
<1>2. PICK i \in Wanted : \A j \in Wanted : i <= j
  BY <1>1, Least
<1>3. i \in 1 .. Len(s)
  BY <1>1
<1>4. \A j \in 1 .. i - 1 : j \in DOMAIN s /\ j \notin Wanted
  BY <1>1, <1>2, <1>3
<1> QED
  BY <1>4

\* A lookup that succeeds returns a member of the id.
LEMMA LookupById ==
  ASSUME NEW s, Listed(s), NEW id, HasId(s, id)
  PROVE  ById(s, id) \in Members(s) /\ ById(s, id).id = id
<1> DEFINE Wanted == {i \in DOMAIN s : s[i].id = id}
<1>1. Wanted # {}
  BY DEF HasId
<1>2. PICK i \in Wanted : \A j \in 1 .. i - 1 : j \in DOMAIN s /\ j \notin Wanted
  BY <1>1, First
<1>3. i \in DOMAIN s /\ s[i].id = id /\ \A j \in 1 .. i - 1 : s[j].id # id
  BY <1>2
<1> QED
  BY <1>3 DEF ById, Members

\* A lookup that succeeds returns a member of the name.
LEMMA LookupByName ==
  ASSUME NEW s, Listed(s), NEW name, HasName(s, name)
  PROVE  ByName(s, name) \in Members(s) /\ ByName(s, name).name = name
<1> DEFINE Wanted == {i \in DOMAIN s : s[i].name = name}
<1>1. Wanted # {}
  BY DEF HasName
<1>2. PICK i \in Wanted : \A j \in 1 .. i - 1 : j \in DOMAIN s /\ j \notin Wanted
  BY <1>1, First
<1>3. i \in DOMAIN s /\ s[i].name = name /\ \A j \in 1 .. i - 1 : s[j].name # name
  BY <1>2
<1> QED
  BY <1>3 DEF ByName, Members

\* A layer that is named has a position.
LEMMA LayerFound ==
  ASSUME NEW layers, Listed(layers), NEW name \in Members(layers)
  PROVE  /\ Position(layers, name) \in DOMAIN layers
         /\ layers[Position(layers, name)] = name
<1> DEFINE Wanted == {i \in DOMAIN layers : layers[i] = name}
<1>1. Wanted # {}
  BY DEF Members
<1>2. PICK i \in Wanted : \A j \in 1 .. i - 1 : j \in DOMAIN layers /\ j \notin Wanted
  BY <1>1, First
<1>3. i \in DOMAIN layers /\ layers[i] = name /\ \A j \in 1 .. i - 1 : layers[j] # name
  BY <1>2
<1> QED
  BY <1>3 DEF Position

\* What a known target names is there.
LEMMA TargetResolved ==
  ASSUME NEW document, Typed(document), NEW target, TargetKnown(document, target)
  PROVE  LET backend == ById(document.backends, target.backend)
         IN /\ backend \in Members(document.backends)
            /\ ByName(backend.models, target.model) \in Members(backend.models)
<1> DEFINE backend == ById(document.backends, target.backend)
<1>1. backend \in Members(document.backends)
  BY LookupById DEF Typed, TargetKnown
<1>2. Listed(backend.models) /\ HasName(backend.models, target.model)
  BY <1>1 DEF Typed, TargetKnown
<1>3. ByName(backend.models, target.model) \in Members(backend.models)
  BY <1>2, LookupByName
<1> QED
  BY <1>1, <1>3

-----------------------------------------------------------------------------
(* AppState::new.                                                          *)

\* Every client of an accepted backend can be built.
LEMMA ClientsBuild ==
  ASSUME NEW backend, BackendSound(backend), NEW model \in Members(backend.models)
  PROVE  ClientBuilds(backend, model)
BY DEF BackendSound, EndpointSound, ProtocolsSound, ClientBuilds

\* A document that Config::validate accepts is built by AppState::new without
\* an error or a panic.
THEOREM AcceptedBuilds ==
  ASSUME NEW document, Typed(document), Valid(document)
  PROVE  Builds(document)
<1> SUFFICES ASSUME NEW m \in Members(document.models)
             PROVE  /\ \A layer \in Members(m.layers) : \A t \in Members(layer.targets) :
                          TargetBuilds(document, t)
                    /\ CalendarSound(m.zone, Names(m.layers), m.schedules)
  BY DEF Builds
<1>1. ModelSound(document, m)
  BY DEF Valid
<1>2. ASSUME NEW layer \in Members(m.layers), NEW t \in Members(layer.targets)
      PROVE  TargetBuilds(document, t)
  <2> DEFINE backend == ById(document.backends, t.backend)
             model == ByName(backend.models, t.model)
  <2>1. TargetKnown(document, t)
    BY <1>1 DEF ModelSound, LayerSound
  <2>2. backend \in Members(document.backends) /\ model \in Members(backend.models)
    BY <2>1, TargetResolved
  <2>3. BackendSound(backend)
    BY <2>2 DEF Valid, BackendsSound
  <2>4. ClientBuilds(backend, model)
    BY <2>2, <2>3, ClientsBuild
  <2> QED
    BY <2>1, <2>4 DEF TargetKnown, TargetBuilds
<1> QED
  BY <1>1, <1>2 DEF ModelSound

-----------------------------------------------------------------------------
(* The schedule that holds.                                                *)

\* Calendar::at of a calendar that compile accepts, at any time.
LEMMA ScheduleFound ==
  ASSUME NEW zone, ZoneTyped(zone), NEW layers, NEW schedules, Listed(schedules),
         CalendarSound(zone, layers, schedules), NEW moment \in Int
  PROVE  MeantSchedules(schedules, Instant(zone, moment)) =
           IF ActiveSchedule(schedules, Instant(zone, moment)) = 0 THEN {}
           ELSE {ActiveSchedule(schedules, Instant(zone, moment))}
<1>1. zone \in Int
  BY DEF ZoneTyped, CalendarSound
<1>2. Instant(zone, moment) \in 0 .. Week - 1
  <2>1. Week \in Nat /\ Week > 0
    BY WeekLasts
  <2>2. moment + zone \in Int
    BY <1>1
  <2> QED
    BY <2>1, <2>2 DEF Instant
<1>3. \A i \in DOMAIN schedules : Timed(schedules[i])
  BY DEF CalendarSound, ScheduleSound, Timed
<1>4. DOMAIN schedules \subseteq Nat \ {0}
  BY DEF Listed
<1>5. NeighboursApart(Windows(schedules))
  BY DEF CalendarSound
<1> QED
  BY <1>2, <1>3, <1>4, <1>5, FindsTheScheduleMeant

\* The names of a model's layers, in their order.
LEMMA NamesListed ==
  ASSUME NEW s, Listed(s)
  PROVE  Listed(Names(s)) /\ DOMAIN Names(s) = DOMAIN s
<1>1. Len(s) \in Nat /\ DOMAIN s = 1 .. Len(s)
  BY DEF Listed
<1>2. Names(s) = [i \in 1 .. Len(s) |-> s[i].name]
  BY <1>1 DEF Names
<1>3. Len(Names(s)) = Len(s)
  BY <1>1, <1>2
<1> QED
  BY <1>1, <1>2, <1>3 DEF Listed

\* Every schedule puts all of the layers in an order.
LEMMA LayersInRange ==
  ASSUME NEW zone, NEW layers, Listed(layers), NEW schedules,
         \A i \in DOMAIN schedules : Listed(schedules[i].order),
         CalendarSound(zone, layers, schedules),
         NEW i \in DOMAIN schedules \cup {0}
  PROVE  Selection(layers, schedules, i) \in [DOMAIN layers -> DOMAIN layers]
<1>1. CASE i = 0
  BY <1>1 DEF Selection
<1>2. CASE i # 0
  <2>1. i \in DOMAIN schedules
    BY <1>2
  <2>2. /\ Len(schedules[i].order) = Len(layers)
        /\ Members(schedules[i].order) = Members(layers)
    BY <2>1 DEF CalendarSound, ScheduleSound
  <2>3. DOMAIN schedules[i].order = DOMAIN layers
    BY <2>1, <2>2 DEF Listed
  <2>4. ASSUME NEW k \in DOMAIN layers
        PROVE  Position(layers, schedules[i].order[k]) \in DOMAIN layers
    <3>1. schedules[i].order[k] \in Members(layers)
      BY <2>2, <2>3 DEF Members
    <3> QED
      BY <3>1, LayerFound
  <2> QED
    BY <1>2, <2>4 DEF Selection
<1> QED
  BY <1>1, <1>2

\* The order in which route_candidates (app.rs) takes the layers of a model.
LayersAt(model, moment) ==
  Selection(Names(model.layers), model.schedules,
            ActiveSchedule(model.schedules, Instant(model.zone, moment)))

\* The layers of an accepted model come in the order of the schedule that is
\* meant to hold, and in that of the document when none is: each of them.
THEOREM LayersAsMeant ==
  ASSUME NEW model, RoutesTyped(model), NEW moment \in Int,
         CalendarSound(model.zone, Names(model.layers), model.schedules)
  PROVE  LET meant == MeantSchedules(model.schedules, Instant(model.zone, moment))
         IN /\ LayersAt(model, moment) \in [DOMAIN model.layers -> DOMAIN model.layers]
            /\ \A i \in meant :
                  LayersAt(model, moment) = Selection(Names(model.layers), model.schedules, i)
            /\ meant = {} => LayersAt(model, moment) = [k \in DOMAIN model.layers |-> k]
<1> DEFINE meant == MeantSchedules(model.schedules, Instant(model.zone, moment))
           current == ActiveSchedule(model.schedules, Instant(model.zone, moment))
<1>1. meant = IF current = 0 THEN {} ELSE {current}
  BY ScheduleFound DEF RoutesTyped
<1>2. current \in DOMAIN model.schedules \cup {0}
  BY <1>1 DEF MeantSchedules
<1>3. Listed(Names(model.layers)) /\ DOMAIN Names(model.layers) = DOMAIN model.layers
  BY NamesListed DEF RoutesTyped
<1>4. \A i \in DOMAIN model.schedules : Listed(model.schedules[i].order)
  BY DEF RoutesTyped, Members
<1>5. LayersAt(model, moment) = Selection(Names(model.layers), model.schedules, current)
  BY DEF LayersAt
<1> HIDE DEF meant, current
<1>6. LayersAt(model, moment) \in [DOMAIN model.layers -> DOMAIN model.layers]
  <2> DEFINE layers == Names(model.layers)
  <2>1. Listed(layers) /\ DOMAIN layers = DOMAIN model.layers
    BY <1>3
  <2>2. CalendarSound(model.zone, layers, model.schedules)
    OBVIOUS
  <2>3. LayersAt(model, moment) = Selection(layers, model.schedules, current)
    BY <1>5
  <2> HIDE DEF layers
  <2>4. Selection(layers, model.schedules, current) \in [DOMAIN layers -> DOMAIN layers]
    BY <1>2, <1>4, <2>1, <2>2, LayersInRange
  <2> QED
    BY <2>1, <2>3, <2>4
<1>7. \A i \in meant :
        LayersAt(model, moment) = Selection(Names(model.layers), model.schedules, i)
  BY <1>1, <1>5
<1>8. meant = {} => LayersAt(model, moment) = [k \in DOMAIN model.layers |-> k]
  BY <1>1, <1>3, <1>5 DEF Selection
<1> QED
  BY <1>6, <1>7, <1>8 DEF meant

-----------------------------------------------------------------------------
(* The price.                                                              *)

\* The labels of a tariff, all different.
LEMMA LabelsListed ==
  ASSUME NEW model, PricesTyped(model)
  PROVE  /\ Listed(PriceLabels(model))
         /\ DOMAIN PriceLabels(model) = 1 .. Len(PriceWindows(model)) + 1
         /\ Distinct(PriceLabels(model))
<1> DEFINE n == Len(PriceWindows(model)) + 1
<1>1. n \in Nat /\ n >= 1 /\ n <= Len(Labels)
  BY LabelsAssumption DEF PricesTyped, Listed
<1>2. Labels \in Seq(STRING) /\ Distinct(Labels)
  BY LabelsAssumption DEF LayersNamed
<1>3. PriceLabels(model) = SubSeq(Labels, 1, n)
  BY DEF PriceLabels
<1> HIDE DEF n
<1>4. /\ SubSeq(Labels, 1, n) \in Seq(STRING)
      /\ Len(SubSeq(Labels, 1, n)) = n
      /\ \A k \in 1 .. n : SubSeq(Labels, 1, n)[k] = Labels[k]
  BY <1>1, <1>2
<1>5. DOMAIN SubSeq(Labels, 1, n) = 1 .. n
  BY <1>1, <1>4
<1>6. \A k \in 1 .. n : k \in DOMAIN Labels
  BY <1>1, <1>2
<1>7. Distinct(SubSeq(Labels, 1, n))
  BY <1>2, <1>4, <1>5, <1>6 DEF Distinct
<1> QED
  BY <1>1, <1>3, <1>4, <1>5, <1>7 DEF Listed, n

\* An accepted price costs, at any time, the rates of the window that is
\* meant to hold and the default rates outside all of them.
THEOREM PricesAsMeant ==
  ASSUME NEW model, PricesTyped(model), TariffSound(model), NEW moment \in Int
  PROVE  PriceAt(model, moment) = PriceMeant(model, moment)
<1> DEFINE windows == PriceWindows(model)
           labels == PriceLabels(model)
           schedules == PriceSchedules(model)
           instant == Instant(PriceZone(model), moment)
           current == ActiveSchedule(schedules, instant)
<1>1. Len(windows) \in Nat /\ DOMAIN windows = 1 .. Len(windows)
  BY DEF PricesTyped, Listed
<1>2. /\ Listed(labels) /\ Distinct(labels)
      /\ DOMAIN labels = 1 .. Len(windows) + 1 /\ Len(labels) = Len(windows) + 1
  BY <1>1, LabelsListed DEF Listed
<1>3. CalendarSound(PriceZone(model), labels, schedules)
  BY DEF TariffSound
<1>4. /\ DOMAIN schedules = DOMAIN windows
      /\ \A i \in DOMAIN windows :
            /\ schedules[i].days = windows[i].days
            /\ schedules[i].start = windows[i].start
            /\ schedules[i].end = windows[i].end
            /\ schedules[i].order =
                 [k \in 1 .. Len(labels) |->
                    IF k = 1 THEN labels[i + 1]
                    ELSE IF k <= i + 1 THEN labels[k - 1] ELSE labels[k]]
  BY DEF PriceSchedules
<1> HIDE DEF schedules
<1>5. Listed(schedules)
  BY <1>1, <1>4 DEF Listed, schedules, PriceSchedules
<1>6. MeantSchedules(schedules, instant) = IF current = 0 THEN {} ELSE {current}
  BY <1>3, <1>5, ScheduleFound DEF PricesTyped
<1>7. MeantSchedules(windows, instant) = MeantSchedules(schedules, instant)
  BY <1>4 DEF MeantSchedules, Means, Begins, Lasts
<1>8. PriceAt(model, moment) = Rates(model)[Selection(labels, schedules, current)[1]]
  BY DEF PriceAt, schedules
<1>9. Rates(model) = [k \in 1 .. Len(windows) + 1 |->
                        IF k = 1 THEN model.pricing ELSE windows[k - 1].pricing]
  BY DEF Rates
<1>10. PriceMeant(model, moment) =
         IF MeantSchedules(windows, instant) = {} THEN model.pricing
         ELSE windows[CHOOSE i \in MeantSchedules(windows, instant) : TRUE].pricing
  BY DEF PriceMeant
<1> HIDE DEF windows, labels, instant, current
<1>11. CASE current = 0
  <2>1. Selection(labels, schedules, current)[1] = 1
    BY <1>1, <1>2, <1>11 DEF Selection
  <2> QED
    BY <1>1, <1>6, <1>7, <1>8, <1>9, <1>10, <1>11, <2>1
<1>12. CASE current # 0
  <2>1. current \in 1 .. Len(windows)
    BY <1>1, <1>4, <1>6, <1>12 DEF MeantSchedules
  <2>2. schedules[current].order[1] = labels[current + 1]
    <3>1. schedules[current].order =
            [k \in 1 .. Len(labels) |->
               IF k = 1 THEN labels[current + 1]
               ELSE IF k <= current + 1 THEN labels[k - 1] ELSE labels[k]]
      BY <1>1, <1>4, <2>1
    <3>2. 1 \in 1 .. Len(labels)
      BY <1>1, <1>2
    <3> QED
      BY <3>1, <3>2
  <2>3. current + 1 \in DOMAIN labels
    BY <1>1, <1>2, <2>1
  <2>4. Position(labels, labels[current + 1]) = current + 1
    BY <1>2, <2>3, LayerFound DEF Distinct, Members
  <2>5. Selection(labels, schedules, current)[1] = current + 1
    BY <1>1, <1>2, <1>12, <2>2, <2>4 DEF Selection
  <2>6. PriceAt(model, moment) = windows[current].pricing
    BY <1>1, <1>8, <1>9, <2>1, <2>5
  <2>7. (CHOOSE i \in MeantSchedules(windows, instant) : TRUE) = current
    BY <1>6, <1>7, <1>12
  <2> QED
    BY <1>6, <1>7, <1>10, <1>12, <2>6, <2>7
<1> QED
  BY <1>11, <1>12

-----------------------------------------------------------------------------
(* Part 3: Exchange.                                                       *)

-----------------------------------------------------------------------------
(* The invariant.                                                          *)

KnownTarget(target) == TargetKnown(Document, target)

\* The request goes by the model's layers at the time it was routed, and its
\* candidates are targets of these layers.
Routed ==
  /\ DOMAIN request = {"at", "order", "candidates", "rank", "place", "started", "prompt"}
  /\ request.at \in Int
  /\ request.order = LayersAt(Model, request.at)
  /\ Listed(request.candidates)
  /\ \A rank \in DOMAIN request.candidates :
        /\ Listed(request.candidates[rank])
        /\ Len(request.candidates[rank]) > 0
        /\ \A target \in Members(request.candidates[rank]) : KnownTarget(target)
  /\ request.rank \in DOMAIN request.candidates
  /\ request.place \in DOMAIN request.candidates[request.rank]
  /\ request.started \in Int \cup {None}

\* The bill is of a target of the document.
BilledKnown ==
  /\ Valid(Document)
  /\ KnownTarget(bill.target)
  /\ bill.started \in Int
  /\ bill.price = PriceAt(ModelOf(bill.target), bill.started)

IInv ==
  /\ scenario \in Scenarios
  /\ phase # "crashed"
  /\ now \in Int
  /\ phase = "serving" => Valid(Document)
  /\ client # None => phase = "serving" /\ Model # None
  /\ request # None => client # None /\ Routed
  /\ bill # None => BilledKnown

\* At first there is neither a client nor a request nor a bill.
LEMMA InitInv == Init => IInv
BY ScenariosAssumption DEF Init, IInv

-----------------------------------------------------------------------------
(* The model and its layers.                                               *)

\* The model a client is served is a model of the document.
LEMMA ModelServed ==
  ASSUME scenario \in Scenarios, Valid(Document), Model # None
  PROVE  /\ Model \in Members(Document.models)
         /\ RoutesTyped(Model)
         /\ ModelSound(Document, Model)
<1> DEFINE named == {i \in DOMAIN Document.models :
                       AcceptsName(Document.models[i], Asking)}
           first == CHOOSE i \in named : \A j \in named : i <= j
<1>1. Typed(Document)
  BY ScenariosAssumption DEF Document
<1>2. named # {} /\ Model = Document.models[first]
  BY DEF Model, ResolveModel
<1>3. named \subseteq Nat
  BY <1>1 DEF Typed, Listed
<1>4. \E i \in named : \A j \in named : i <= j
  BY <1>2, <1>3, Least
<1>5. first \in named
  BY <1>4
<1>6. Model \in Members(Document.models)
  BY <1>2, <1>5 DEF Members
<1> QED
  BY <1>1, <1>6 DEF Typed, Valid

\* What is routed are the targets of the layers, each layer's in some order.
LEMMA CandidatesKnown ==
  ASSUME scenario \in Scenarios, Valid(Document), Model # None, now \in Int,
         NEW asked, NEW lists \in Candidates(asked)
  PROVE  /\ Listed(lists)
         /\ 1 \in DOMAIN lists
         /\ \A rank \in DOMAIN lists :
              /\ Listed(lists[rank])
              /\ Len(lists[rank]) > 0
              /\ \A target \in Members(lists[rank]) : KnownTarget(target)
<1>1. RoutesTyped(Model) /\ ModelSound(Document, Model)
  BY ModelServed
<1>2. CalendarSound(Model.zone, Names(Model.layers), Model.schedules)
  BY <1>1 DEF ModelSound
<1>3. LayerOrder \in [DOMAIN Model.layers -> DOMAIN Model.layers]
  <2>1. LayerOrder = LayersAt(Model, now)
    BY DEF LayerOrder, LayersAt
  <2> QED
    BY <1>1, <1>2, <2>1, LayersAsMeant
<1>4. Len(Model.layers) \in Nat /\ DOMAIN Model.layers = 1 .. Len(Model.layers)
  BY <1>1 DEF RoutesTyped, Listed
<1>5. Len(Model.layers) > 0
  <2>1. Names(Model.layers) # <<>>
    BY <1>2 DEF CalendarSound, LayersNamed
  <2>2. Len(Model.layers) # 0
    BY <1>4, <2>1 DEF Names
  <2> QED
    BY <1>4, <2>2
<1>6. DOMAIN lists = 1 .. Len(Model.layers)
  BY <1>3, <1>4 DEF Candidates
<1>7. Listed(lists) /\ 1 \in DOMAIN lists
  <2>1. lists = [k \in 1 .. Len(Model.layers) |-> lists[k]]
    BY <1>6 DEF Candidates
  <2>2. Len(lists) = Len(Model.layers)
    BY <1>4, <2>1
  <2> QED
    BY <1>4, <1>5, <1>6, <2>2 DEF Listed
<1>8. ASSUME NEW rank \in DOMAIN lists
      PROVE  /\ Listed(lists[rank])
             /\ Len(lists[rank]) > 0
             /\ \A target \in Members(lists[rank]) : KnownTarget(target)
  <2> DEFINE layer == Model.layers[LayerOrder[rank]]
             n == Len(layer.targets)
  <2>1. layer \in Members(Model.layers)
    BY <1>3, <1>4, <1>6 DEF Members
  <2>2. n \in Nat /\ DOMAIN layer.targets = 1 .. n
    BY <1>1, <2>1 DEF RoutesTyped, Listed
  <2>3. layer.targets # <<>> /\ \A t \in Members(layer.targets) : KnownTarget(t)
    BY <1>1, <2>1 DEF ModelSound, LayerSound, KnownTarget
  <2>4. rank \in DOMAIN LayerOrder
    BY <1>3, <1>4, <1>6
  <2>5. PICK o \in LayerOrders(layer, MatchedIn(layer, asked)) :
           lists[rank] = InLayer(layer, o)
    BY <2>4 DEF Candidates
  <2>6. o \in [1 .. n -> 1 .. n]
    BY <2>5 DEF LayerOrders, Orders
  <2> HIDE DEF layer
  <2>7. lists[rank] = [k \in 1 .. n |-> layer.targets[o[k]]]
    BY <2>5, <2>6 DEF InLayer
  <2>8. n > 0
    <3>1. CASE n = 0
      <4>1. DOMAIN layer.targets = {}
        BY <2>2, <3>1
      <4> QED
        BY <2>2, <2>3, <4>1, <3>1
    <3> QED
      BY <2>2, <3>1
  <2>9. Len(lists[rank]) = n /\ DOMAIN lists[rank] = 1 .. n
    BY <2>2, <2>7
  <2>10. \A k \in 1 .. n : o[k] \in DOMAIN layer.targets
    BY <2>2, <2>6
  <2>11. ASSUME NEW target \in Members(lists[rank])
         PROVE  KnownTarget(target)
    <3>1. PICK k \in 1 .. n : target = layer.targets[o[k]]
      BY <2>7, <2>9 DEF Members
    <3>2. target \in Members(layer.targets)
      BY <2>10, <3>1 DEF Members
    <3> QED
      BY <2>3, <3>2
  <2> QED
    BY <2>2, <2>8, <2>9, <2>11 DEF Listed
<1> QED
  BY <1>7, <1>8

-----------------------------------------------------------------------------
(* The steps.                                                              *)

\* A step that changes neither scenario nor client changes no model.
LEMMA SameDocument ==
  ASSUME UNCHANGED scenario
  PROVE  /\ Document' = Document
         /\ \A target : /\ ModelOf(target)' = ModelOf(target)
                        /\ KnownTarget(target)' = KnownTarget(target)
         /\ UNCHANGED client => Model' = Model
BY DEF Document, Model, ModelOf, BackendOf, KnownTarget

\* What is known of the bill stays known.
LEMMA BillStays ==
  ASSUME IInv, UNCHANGED <<scenario, bill>>
  PROVE  bill' # None => BilledKnown'
BY SameDocument DEF IInv, BilledKnown

\* What is known of the request stays known.
LEMMA RequestStays ==
  ASSUME IInv, UNCHANGED <<scenario, client, request>>
  PROVE  request' # None => client' # None /\ Routed'
BY SameDocument DEF IInv, Routed

\* Start serves nothing but what it accepts, and that never crashes.
LEMMA StartInv ==
  ASSUME IInv, Start
  PROVE  IInv'
<1>1. Valid(Document) => Builds(Document)
  <2>1. Typed(Document)
    BY ScenariosAssumption DEF IInv, Document
  <2> QED
    BY <2>1, AcceptedBuilds
<1>2. phase' # "crashed" /\ (phase' = "serving" => Valid(Document))
  BY <1>1 DEF Start
<1>3. client = None /\ request = None
  BY DEF IInv, Start
<1> QED
  BY <1>2, <1>3, SameDocument, BillStays DEF IInv, Start

\* Ask routes by the schedule of the moment.
LEMMA AskInv ==
  ASSUME IInv, NEW say \in scenario.says, Ask(say)
  PROVE  IInv'
<1>1. /\ UNCHANGED <<scenario, phase, now, client, warm, bill, ended>>
      /\ client # None
  BY DEF Ask
<1>2. Valid(Document) /\ Model # None /\ now \in Int /\ scenario \in Scenarios
  BY <1>1 DEF IInv
<1>3. PICK asked : \E lists \in Candidates(asked) :
         request' = [ at |-> now, order |-> LayerOrder, candidates |-> lists,
                      rank |-> 1, place |-> 1, started |-> None, prompt |-> None ]
  BY DEF Ask
<1>4. PICK lists \in Candidates(asked) :
         request' = [ at |-> now, order |-> LayerOrder, candidates |-> lists,
                      rank |-> 1, place |-> 1, started |-> None, prompt |-> None ]
  BY <1>3
<1>5. /\ Listed(lists)
      /\ 1 \in DOMAIN lists
      /\ \A rank \in DOMAIN lists :
           /\ Listed(lists[rank])
           /\ Len(lists[rank]) > 0
           /\ \A target \in Members(lists[rank]) : KnownTarget(target)
  BY <1>2, CandidatesKnown
<1>6. 1 \in DOMAIN lists[1]
  BY <1>5 DEF Listed
<1>7. LayerOrder = LayersAt(Model, now)
  BY DEF LayerOrder, LayersAt
<1>8. Routed'
  BY <1>1, <1>2, <1>4, <1>5, <1>6, <1>7, SameDocument DEF Routed
<1> QED
  BY <1>1, <1>8, SameDocument, BillStays DEF IInv

\* An attempt starts now, with the candidate whose turn it is.
LEMMA AttemptInv ==
  ASSUME IInv, Attempt
  PROVE  IInv'
<1>1. /\ request' = [request EXCEPT !.started = now,
                                    !.prompt = Prepare(Egress(Current), client, body)]
      /\ request # None
      /\ UNCHANGED <<scenario, phase, now, client, body, said, asks, warm, bill, ended>>
  BY DEF Attempt
<1>2. Routed /\ now \in Int /\ client # None
  BY <1>1 DEF IInv
<1>3. /\ DOMAIN request' = DOMAIN request
      /\ request'.started = now
      /\ request'.at = request.at /\ request'.order = request.order
      /\ request'.candidates = request.candidates
      /\ request'.rank = request.rank /\ request'.place = request.place
  BY <1>1, <1>2 DEF Routed
<1>4. Routed'
  BY <1>1, <1>2, <1>3, SameDocument DEF Routed
<1> QED
  BY <1>1, <1>4, SameDocument, BillStays DEF IInv

\* The next candidate is one.
LEMMA FailInv ==
  ASSUME IInv, Fail
  PROVE  IInv'
<1>1. /\ request # None
      /\ UNCHANGED <<scenario, phase, now, client, body, said, asks, warm, bill, ended>>
  BY DEF Fail
<1>2. Routed /\ client # None
  BY <1>1 DEF IInv
<1>3. /\ DOMAIN request' = DOMAIN request
      /\ request'.started = None
      /\ request'.at = request.at /\ request'.order = request.order
      /\ request'.candidates = request.candidates
  BY <1>2 DEF Fail, Routed
<1>4. \A rank \in DOMAIN request.candidates :
        /\ Len(request.candidates[rank]) \in Nat
        /\ Len(request.candidates[rank]) > 0
        /\ DOMAIN request.candidates[rank] = 1 .. Len(request.candidates[rank])
  BY <1>2 DEF Routed, Listed
<1>5. /\ request.rank \in 1 .. Len(request.candidates)
      /\ Len(request.candidates) \in Nat
      /\ DOMAIN request.candidates = 1 .. Len(request.candidates)
  BY <1>2 DEF Routed, Listed
<1>6. /\ request'.rank \in DOMAIN request.candidates
      /\ request'.place \in DOMAIN request.candidates[request'.rank]
  <2>1. CASE /\ request.place < Len(request.candidates[request.rank])
             /\ request' = [request EXCEPT !.place = @ + 1, !.started = None, !.prompt = None]
    <3>1. request'.rank = request.rank /\ request'.place = request.place + 1
      BY <1>2, <2>1 DEF Routed
    <3>2. request.place \in 1 .. Len(request.candidates[request.rank])
      BY <1>2, <1>4 DEF Routed
    <3> QED
      BY <1>4, <1>5, <2>1, <3>1, <3>2
  <2>2. CASE /\ request.rank < Len(request.candidates)
             /\ request' = [request EXCEPT !.rank = @ + 1, !.place = 1,
                                           !.started = None, !.prompt = None]
    <3>1. request'.rank = request.rank + 1 /\ request'.place = 1
      BY <1>2, <2>2 DEF Routed
    <3> QED
      BY <1>4, <1>5, <2>2, <3>1
  <2> QED
    BY <2>1, <2>2 DEF Fail
<1>7. Routed'
  BY <1>1, <1>2, <1>3, <1>6, SameDocument DEF Routed
<1> QED
  BY <1>1, <1>7, SameDocument, BillStays DEF IInv

\* The answer is billed for the candidate and the moment of its attempt.
LEMMA AnswerInv ==
  ASSUME IInv, NEW answer, Answer(answer)
  PROVE  IInv'
<1>1. /\ request # None /\ request.started # None /\ request' = None
      /\ bill' = [target |-> Current, started |-> request.started, price |-> Billed(Current)]
      /\ UNCHANGED <<scenario, phase, now, client, asks>>
  BY DEF Answer
<1>2. Routed /\ client # None /\ Valid(Document)
  BY <1>1 DEF IInv
<1>3. Current \in Members(request.candidates[request.rank])
  BY <1>2 DEF Routed, Current, Members
<1>4. KnownTarget(Current)
  BY <1>2, <1>3 DEF Routed
<1>5. request.started \in Int
  BY <1>1, <1>2 DEF Routed
<1>6. BilledKnown'
  BY <1>1, <1>2, <1>4, <1>5, SameDocument DEF BilledKnown, Billed
<1> QED
  BY <1>1, <1>6, SameDocument DEF IInv

\* Every step keeps the invariant.
LEMMA NextInv ==
  ASSUME IInv, [Next]_vars
  PROVE  IInv'
<1>1. CASE Start
  BY <1>1, StartInv
<1>2. ASSUME NEW moment \in scenario.moments, Pass(moment)
      PROVE  IInv'
  <2>1. moment \in Int
    BY ScenariosAssumption DEF IInv
  <2> QED
    BY <1>2, <2>1, SameDocument, BillStays, RequestStays DEF IInv, Pass
<1>3. ASSUME NEW target \in DOMAIN warm, Forget(target)
      PROVE  IInv'
  BY <1>3, SameDocument, BillStays, RequestStays DEF IInv, Forget
<1>4. ASSUME NEW protocol \in scenario.clients, NEW options \in scenario.options[protocol],
             Connect(protocol, options)
      PROVE  IInv'
  <2>1. Model' # None
    BY <1>4 DEF Connect, Model, Document
  <2>2. request' = None
    BY <1>4 DEF IInv, Connect
  <2> QED
    BY <1>4, <2>1, <2>2, SameDocument, BillStays DEF IInv, Connect
<1>5. ASSUME NEW say \in scenario.says, Ask(say)
      PROVE  IInv'
  BY <1>5, AskInv
<1>6. CASE Attempt
  BY <1>6, AttemptInv
<1>7. CASE Fail
  BY <1>7, FailInv
<1>8. ASSUME NEW answer \in scenario.answers, Answer(answer)
      PROVE  IInv'
  BY <1>8, AnswerInv
<1>9. CASE UNCHANGED vars
  BY <1>9, SameDocument, BillStays, RequestStays DEF IInv, vars
<1> QED
  BY <1>1, <1>2, <1>3, <1>4, <1>5, <1>6, <1>7, <1>8, <1>9 DEF Next

-----------------------------------------------------------------------------
(* The theorems.                                                           *)

\* What the invariant says of routing and billing is what is meant.
LEMMA AsMeant ==
  ASSUME IInv
  PROVE  ServesTheScheduleMeant
<1>1. ASSUME request # None
      PROVE  LET meant == MeantSchedules(Model.schedules, Instant(Model.zone, request.at))
             IN /\ \A i \in meant :
                      request.order = Selection(Names(Model.layers), Model.schedules, i)
                /\ meant = {} => request.order = [k \in DOMAIN Model.layers |-> k]
  <2>1. /\ Valid(Document) /\ Model # None /\ scenario \in Scenarios
        /\ request.at \in Int /\ request.order = LayersAt(Model, request.at)
    BY <1>1 DEF IInv, Routed
  <2>2. /\ RoutesTyped(Model)
        /\ CalendarSound(Model.zone, Names(Model.layers), Model.schedules)
    BY <2>1, ModelServed DEF ModelSound
  <2> QED
    BY <2>1, <2>2, LayersAsMeant
<1>2. ASSUME bill # None
      PROVE  bill.price = PriceMeant(ModelOf(bill.target), bill.started)
  <2> DEFINE backend == BackendOf(bill.target)
             model == ModelOf(bill.target)
  <2>1. /\ Valid(Document) /\ KnownTarget(bill.target) /\ bill.started \in Int
        /\ bill.price = PriceAt(model, bill.started)
    BY <1>2 DEF IInv, BilledKnown
  <2>2. Typed(Document)
    BY ScenariosAssumption DEF IInv, Document
  <2>3. backend \in Members(Document.backends) /\ model \in Members(backend.models)
    BY <2>1, <2>2, TargetResolved DEF KnownTarget, BackendOf, ModelOf
  <2>4. PricesTyped(model)
    BY <2>2, <2>3 DEF Typed
  <2>5. TariffSound(model)
    BY <2>1, <2>3 DEF Valid, BackendsSound, BackendSound
  <2> QED
    BY <2>1, <2>4, <2>5, PricesAsMeant
<1> QED
  BY <1>1, <1>2 DEF ServesTheScheduleMeant

\* IInv is an invariant.
LEMMA Invariance == Spec => []IInv
<1>1. Init => IInv
  BY InitInv
<1>2. IInv /\ [Next]_vars => IInv'
  BY NextInv
<1> QED
  BY <1>1, <1>2, PTL DEF Spec

\* A document that Config::validate accepts never fails AppState::new
\* (config.rs, app.rs).
THEOREM AlwaysStarts == Spec => []StartsWhatItAccepts
<1>1. IInv => StartsWhatItAccepts
  BY DEF IInv, StartsWhatItAccepts
<1> QED
  BY <1>1, Invariance, PTL

\* Requests are routed by the schedule that is meant to hold when they are
\* routed, and answers billed at the price meant when their attempt started
\* (calendar.rs, pricing.rs, app.rs), whatever the schedules, the timezones
\* and the clock.
THEOREM AlwaysAsMeant == Spec => []ServesTheScheduleMeant
<1>1. IInv => ServesTheScheduleMeant
  BY AsMeant
<1> QED
  BY <1>1, Invariance, PTL

-----------------------------------------------------------------------------
(* Part 4: Workspace.                                                      *)

-----------------------------------------------------------------------------
(* The invariant of the configuration file.                                *)

OpenStages == {"migrating", "backing", "backed", "renaming"}

\* A document is in hand.
Sending == {"queued"} \cup Saving

\* Editors are served by a process that is up.
QuietWhileDown == server # "up" => \A e \in Editors : pc[e] \in {"idle", "loaded"}

\* What open has read is the file, unless somebody else has edited it.
OpenKnowsTheFile ==
  server \in OpenStages => text \in Texts /\ (outside = "no" => file = text)

\* The active revision is the document of the text it holds the hash of, and
\* that text is the file, but for a save between its rename and its swap.
ServesTheFile ==
  server = "up" =>
    /\ known \in Texts /\ known.doc = active.doc
    /\ outside = "no" /\ (\A e \in Editors : pc[e] # "written") => file = known

\* What an editor is about to swap in is what it has renamed.
WrittenIsOnDisk ==
  \A e \in Editors :
    /\ pc[e] \in Sending => edit[e] \in Documents
    /\ pc[e] = "written" /\ outside = "no" => file = Rendered(edit[e])

\* Nothing is published under the saving lock but by its holder.
HolderIsCurrent == \A e \in Editors : pc[e] \in Saving => base[e] = active.id

\* Who is about to rename has looked at every edit there was.
LookedBeforeRename == server = "renaming" \/ Writing => outside # "before"

FileInv ==
  /\ TypeOK
  /\ QuietWhileDown /\ OpenKnowsTheFile /\ ServesTheFile
  /\ WrittenIsOnDisk /\ HolderIsCurrent /\ LookedBeforeRename

\* The first files are files, and nothing runs yet.
LEMMA WorkspaceInitInv == WorkspaceInit => FileInv
BY WorkspaceAssumption
DEF WorkspaceInit, FileInv, TypeOK, QuietWhileDown, OpenKnowsTheFile, ServesTheFile,
    WrittenIsOnDisk, HolderIsCurrent, LookedBeforeRename, OpenStages, Sending,
    Saving, Writing, ServerStages, EditorStages, Texts, Forms

-----------------------------------------------------------------------------
(* The steps of open.                                                      *)

LEMMA OpenInv ==
  ASSUME FileInv, Open
  PROVE  FileInv'
<1>1. TypeOK'
  BY WorkspaceAssumption
  DEF FileInv, Open, TypeOK, Texts, Revisions, ServerStages, disk, revision,
      editing, bounds, Activate
<1>2. QuietWhileDown'
  BY DEF FileInv, Open, QuietWhileDown, editing
<1>3. OpenKnowsTheFile'
  BY DEF FileInv, Open, OpenKnowsTheFile, TypeOK, disk
<1>4. ServesTheFile'
  BY DEF FileInv, Open, ServesTheFile, TypeOK, disk, Activate
<1>5. WrittenIsOnDisk'
  BY DEF FileInv, Open, WrittenIsOnDisk, QuietWhileDown, editing
<1>6. HolderIsCurrent'
  BY DEF FileInv, Open, HolderIsCurrent, Saving, QuietWhileDown, editing
<1>7. LookedBeforeRename'
  BY DEF Open, LookedBeforeRename
<1> QED
  BY <1>1, <1>2, <1>3, <1>4, <1>5, <1>6, <1>7 DEF FileInv

LEMMA CreateBackupInv ==
  ASSUME FileInv, CreateBackup
  PROVE  FileInv'
<1>1. TypeOK'
  BY DEF FileInv, CreateBackup, TypeOK, ServerStages, revision, editing, bounds
<1>2. QuietWhileDown'
  BY DEF FileInv, CreateBackup, QuietWhileDown, editing
<1>3. OpenKnowsTheFile'
  BY DEF FileInv, CreateBackup, OpenKnowsTheFile, OpenStages
<1>4. ServesTheFile'
  BY DEF CreateBackup, ServesTheFile
<1>5. WrittenIsOnDisk'
  BY DEF FileInv, CreateBackup, WrittenIsOnDisk, editing
<1>6. HolderIsCurrent'
  BY DEF FileInv, CreateBackup, HolderIsCurrent, Saving, QuietWhileDown, editing
<1>7. LookedBeforeRename'
  BY DEF FileInv, CreateBackup, LookedBeforeRename, Writing, editing
<1> QED
  BY <1>1, <1>2, <1>3, <1>4, <1>5, <1>6, <1>7 DEF FileInv

LEMMA WriteBackupInv ==
  ASSUME FileInv, WriteBackup
  PROVE  FileInv'
<1>1. TypeOK'
  BY DEF FileInv, WriteBackup, TypeOK, ServerStages, revision, editing, bounds
<1>2. QuietWhileDown'
  BY DEF FileInv, WriteBackup, QuietWhileDown, editing
<1>3. OpenKnowsTheFile'
  BY DEF FileInv, WriteBackup, OpenKnowsTheFile, OpenStages
<1>4. ServesTheFile'
  BY DEF WriteBackup, ServesTheFile
<1>5. WrittenIsOnDisk'
  BY DEF FileInv, WriteBackup, WrittenIsOnDisk, editing
<1>6. HolderIsCurrent'
  BY DEF FileInv, WriteBackup, HolderIsCurrent, Saving, QuietWhileDown, editing
<1>7. LookedBeforeRename'
  BY DEF FileInv, WriteBackup, LookedBeforeRename, Writing, editing
<1> QED
  BY <1>1, <1>2, <1>3, <1>4, <1>5, <1>6, <1>7 DEF FileInv

LEMMA CompareOriginalInv ==
  ASSUME FileInv, CompareOriginal
  PROVE  FileInv'
<1>1. TypeOK'
  BY DEF FileInv, CompareOriginal, TypeOK, ServerStages, disk, revision, editing,
         bounds
<1>2. QuietWhileDown'
  BY DEF FileInv, CompareOriginal, QuietWhileDown, editing
<1>3. OpenKnowsTheFile'
  BY DEF FileInv, CompareOriginal, OpenKnowsTheFile, OpenStages, disk
<1>4. ServesTheFile'
  BY DEF CompareOriginal, ServesTheFile
<1>5. WrittenIsOnDisk'
  BY DEF FileInv, CompareOriginal, WrittenIsOnDisk, QuietWhileDown, editing
<1>6. HolderIsCurrent'
  BY DEF FileInv, CompareOriginal, HolderIsCurrent, Saving, QuietWhileDown,
         editing
<1>7. LookedBeforeRename'
  BY DEF CompareOriginal, LookedBeforeRename
<1> QED
  BY <1>1, <1>2, <1>3, <1>4, <1>5, <1>6, <1>7 DEF FileInv

LEMMA MigrateInv ==
  ASSUME FileInv, Migrate
  PROVE  FileInv'
<1>1. TypeOK'
  BY WorkspaceAssumption
  DEF FileInv, Migrate, TypeOK, Texts, Forms, Revisions, ServerStages,
      OpenKnowsTheFile, OpenStages, editing, bounds, Serve, Rendered, Activate
<1>2. QuietWhileDown'
  BY DEF FileInv, Migrate, QuietWhileDown, editing
<1>3. OpenKnowsTheFile'
  BY DEF Migrate, OpenKnowsTheFile, OpenStages, Serve
<1>4. ServesTheFile'
  BY DEF FileInv, Migrate, ServesTheFile, Texts, Forms, OpenKnowsTheFile,
         OpenStages, Serve, Rendered, Activate
<1>5. WrittenIsOnDisk'
  BY DEF FileInv, Migrate, WrittenIsOnDisk, QuietWhileDown, editing
<1>6. HolderIsCurrent'
  BY DEF FileInv, Migrate, HolderIsCurrent, Saving, QuietWhileDown, editing
<1>7. LookedBeforeRename'
  BY DEF Migrate, LookedBeforeRename
<1> QED
  BY <1>1, <1>2, <1>3, <1>4, <1>5, <1>6, <1>7 DEF FileInv

LEMMA MigrateFailsInv ==
  ASSUME FileInv, MigrateFails
  PROVE  FileInv'
<1>1. TypeOK'
  BY WorkspaceAssumption
  DEF FileInv, MigrateFails, TypeOK, Texts, Revisions, ServerStages,
      OpenKnowsTheFile, OpenStages, disk, editing, bounds, Serve, WindowShut,
      Activate
<1>2. QuietWhileDown'
  BY DEF FileInv, MigrateFails, QuietWhileDown, editing
<1>3. OpenKnowsTheFile'
  BY DEF MigrateFails, OpenKnowsTheFile, OpenStages, Serve
<1>4. ServesTheFile'
  BY DEF FileInv, MigrateFails, ServesTheFile, OpenKnowsTheFile, OpenStages, disk,
         Serve, WindowShut, Activate
<1>5. WrittenIsOnDisk'
  BY DEF FileInv, MigrateFails, WrittenIsOnDisk, QuietWhileDown, editing
<1>6. HolderIsCurrent'
  BY DEF FileInv, MigrateFails, HolderIsCurrent, Saving, QuietWhileDown, editing
<1>7. LookedBeforeRename'
  BY DEF FileInv, MigrateFails, LookedBeforeRename, Writing, QuietWhileDown,
         editing, Serve
<1> QED
  BY <1>1, <1>2, <1>3, <1>4, <1>5, <1>6, <1>7 DEF FileInv

-----------------------------------------------------------------------------
(* The steps of editors.                                                   *)

LEMMA LoadInv ==
  ASSUME FileInv, NEW e \in Editors, Load(e)
  PROVE  FileInv'
<1>1. TypeOK'
  BY DEF FileInv, Load, TypeOK, Revisions, EditorStages, Saving, disk, revision,
         bounds, Moves
<1>2. QuietWhileDown'
  BY DEF Load, QuietWhileDown
<1>3. OpenKnowsTheFile'
  BY DEF Load, OpenKnowsTheFile, OpenStages
<1>4. ServesTheFile'
  BY DEF FileInv, Load, ServesTheFile, disk, revision, Moves
<1>5. WrittenIsOnDisk'
  BY DEF FileInv, Load, WrittenIsOnDisk, Sending, Saving, disk, Moves
<1>6. HolderIsCurrent'
  BY DEF FileInv, Load, HolderIsCurrent, TypeOK, revision, Moves
<1>7. LookedBeforeRename'
  BY DEF FileInv, Load, LookedBeforeRename, Writing, Moves
<1> QED
  BY <1>1, <1>2, <1>3, <1>4, <1>5, <1>6, <1>7 DEF FileInv

LEMMA SubmitInv ==
  ASSUME FileInv, NEW e \in Editors, Submit(e)
  PROVE  FileInv'
<1>1. TypeOK'
  BY DEF FileInv, Submit, TypeOK, EditorStages, Saving, disk, revision, bounds,
         Moves
<1>2. QuietWhileDown'
  BY DEF Submit, QuietWhileDown
<1>3. OpenKnowsTheFile'
  BY DEF Submit, OpenKnowsTheFile, OpenStages
<1>4. ServesTheFile'
  BY DEF FileInv, Submit, ServesTheFile, disk, revision, Moves
<1>5. WrittenIsOnDisk'
  BY DEF FileInv, Submit, WrittenIsOnDisk, TypeOK, disk, Moves
<1>6. HolderIsCurrent'
  BY DEF FileInv, Submit, HolderIsCurrent, Saving, revision, Moves
<1>7. LookedBeforeRename'
  BY DEF FileInv, Submit, LookedBeforeRename, Writing, Moves
<1> QED
  BY <1>1, <1>2, <1>3, <1>4, <1>5, <1>6, <1>7 DEF FileInv

LEMMA LockInv ==
  ASSUME FileInv, NEW e \in Editors, Lock(e)
  PROVE  FileInv'
<1>1. TypeOK'
  BY WorkspaceAssumption
  DEF FileInv, Lock, TypeOK, EditorStages, Saving, disk, revision, bounds, Moves,
      Answered
<1>2. QuietWhileDown'
  BY DEF FileInv, Lock, QuietWhileDown
<1>3. OpenKnowsTheFile'
  BY DEF FileInv, Lock, OpenKnowsTheFile, OpenStages, QuietWhileDown
<1>4. ServesTheFile'
  BY DEF FileInv, Lock, ServesTheFile, TypeOK, disk, revision, Moves, Answered
<1>5. WrittenIsOnDisk'
  BY DEF FileInv, Lock, WrittenIsOnDisk, TypeOK, Sending, Saving, disk, Moves,
         Answered
<1>6. HolderIsCurrent'
  BY DEF FileInv, Lock, HolderIsCurrent, TypeOK, Saving, revision, Moves,
         Answered
<1>7. LookedBeforeRename'
  BY DEF FileInv, Lock, LookedBeforeRename, Writing, TypeOK, Moves, Answered
<1> QED
  BY <1>1, <1>2, <1>3, <1>4, <1>5, <1>6, <1>7 DEF FileInv

LEMMA RefuseInv ==
  ASSUME FileInv, NEW e \in Editors, Refuse(e)
  PROVE  FileInv'
<1>1. TypeOK'
  BY WorkspaceAssumption
  DEF FileInv, Refuse, TypeOK, EditorStages, Saving, disk, revision, bounds,
      Answered, Moves
<1>2. QuietWhileDown'
  BY DEF FileInv, Refuse, QuietWhileDown
<1>3. OpenKnowsTheFile'
  BY DEF FileInv, Refuse, OpenKnowsTheFile, OpenStages, QuietWhileDown
<1>4. ServesTheFile'
  BY DEF FileInv, Refuse, ServesTheFile, TypeOK, Saving, disk, revision
<1>5. WrittenIsOnDisk'
  BY DEF FileInv, Refuse, WrittenIsOnDisk, TypeOK, Sending, Saving, Answered,
         Moves
<1>6. HolderIsCurrent'
  BY DEF FileInv, Refuse, HolderIsCurrent, TypeOK, Saving, Answered, Moves
<1>7. LookedBeforeRename'
  BY DEF FileInv, Refuse, LookedBeforeRename, Writing, Answered, Moves
<1> QED
  BY <1>1, <1>2, <1>3, <1>4, <1>5, <1>6, <1>7 DEF FileInv

LEMMA CompareInv ==
  ASSUME FileInv, NEW e \in Editors, Compare(e)
  PROVE  FileInv'
<1>1. TypeOK'
  BY WorkspaceAssumption
  DEF FileInv, Compare, TypeOK, EditorStages, Saving, disk, revision, bounds,
      Moves, Answered
<1>2. QuietWhileDown'
  BY DEF FileInv, Compare, QuietWhileDown
<1>3. OpenKnowsTheFile'
  BY DEF FileInv, Compare, OpenKnowsTheFile, OpenStages, QuietWhileDown
<1>4. ServesTheFile'
  BY DEF FileInv, Compare, ServesTheFile, TypeOK, Saving, disk, revision
<1>5. WrittenIsOnDisk'
  BY DEF FileInv, Compare, WrittenIsOnDisk, TypeOK, Sending, Saving, Moves,
         Answered
<1>6. HolderIsCurrent'
  BY DEF FileInv, Compare, HolderIsCurrent, TypeOK, Saving, revision, Moves,
         Answered
<1>7. LookedBeforeRename'
  BY DEF FileInv, Compare, LookedBeforeRename, Writing, TypeOK, Moves, Answered
<1> QED
  BY <1>1, <1>2, <1>3, <1>4, <1>5, <1>6, <1>7 DEF FileInv

LEMMA RenameInv ==
  ASSUME FileInv, NEW e \in Editors, Rename(e)
  PROVE  FileInv'
<1>1. TypeOK'
  BY DEF FileInv, Rename, TypeOK, Texts, Forms, EditorStages, Saving,
         WrittenIsOnDisk, Sending, revision, bounds, Rendered, Moves
<1>2. QuietWhileDown'
  BY DEF FileInv, Rename, QuietWhileDown
<1>3. OpenKnowsTheFile'
  BY DEF FileInv, Rename, OpenKnowsTheFile, OpenStages, QuietWhileDown
<1>4. ServesTheFile'
  BY DEF FileInv, Rename, ServesTheFile, TypeOK, revision, Moves
<1>5. WrittenIsOnDisk'
  BY DEF FileInv, Rename, WrittenIsOnDisk, TypeOK, Sending, Saving, Moves
<1>6. HolderIsCurrent'
  BY DEF FileInv, Rename, HolderIsCurrent, Saving, revision, Moves
<1>7. LookedBeforeRename'
  BY DEF Rename, LookedBeforeRename
<1> QED
  BY <1>1, <1>2, <1>3, <1>4, <1>5, <1>6, <1>7 DEF FileInv

LEMMA RenameFailsInv ==
  ASSUME FileInv, NEW e \in Editors, RenameFails(e)
  PROVE  FileInv'
<1>1. TypeOK'
  BY WorkspaceAssumption
  DEF FileInv, RenameFails, TypeOK, EditorStages, Saving, disk, revision, bounds,
      Answered, WindowShut, Moves
<1>2. QuietWhileDown'
  BY DEF FileInv, RenameFails, QuietWhileDown
<1>3. OpenKnowsTheFile'
  BY DEF FileInv, RenameFails, OpenKnowsTheFile, OpenStages, QuietWhileDown
<1>4. ServesTheFile'
  BY DEF FileInv, RenameFails, ServesTheFile, TypeOK, Saving, disk, revision,
         WindowShut
<1>5. WrittenIsOnDisk'
  BY DEF FileInv, RenameFails, WrittenIsOnDisk, TypeOK, Sending, Saving,
         Answered, Moves
<1>6. HolderIsCurrent'
  BY DEF FileInv, RenameFails, HolderIsCurrent, TypeOK, Saving, Answered, Moves
<1>7. LookedBeforeRename'
  BY DEF FileInv, RenameFails, LookedBeforeRename, Writing, TypeOK, Saving,
         QuietWhileDown, Answered, Moves
<1> QED
  BY <1>1, <1>2, <1>3, <1>4, <1>5, <1>6, <1>7 DEF FileInv

LEMMA SwapInv ==
  ASSUME FileInv, NEW e \in Editors, Swap(e)
  PROVE  FileInv'
<1>1. TypeOK'
  BY WorkspaceAssumption
  DEF FileInv, Swap, TypeOK, Texts, Forms, Revisions, EditorStages, Saving,
      WrittenIsOnDisk, Sending, QuietWhileDown, disk, bounds, Activate,
      Rendered, Answered, Moves
<1>2. QuietWhileDown'
  BY DEF FileInv, Swap, QuietWhileDown
<1>3. OpenKnowsTheFile'
  BY DEF FileInv, Swap, OpenKnowsTheFile, OpenStages, QuietWhileDown
<1>4. ServesTheFile'
  BY DEF FileInv, Swap, ServesTheFile, Texts, Forms, WrittenIsOnDisk, Sending,
         Saving, disk, Activate, Rendered
<1>5. WrittenIsOnDisk'
  BY DEF FileInv, Swap, WrittenIsOnDisk, TypeOK, Sending, Saving, Answered, Moves
<1>6. HolderIsCurrent'
  BY DEF FileInv, Swap, HolderIsCurrent, TypeOK, Saving, Answered, Moves
<1>7. LookedBeforeRename'
  BY DEF FileInv, Swap, LookedBeforeRename, Writing, Answered, Moves
<1> QED
  BY <1>1, <1>2, <1>3, <1>4, <1>5, <1>6, <1>7 DEF FileInv

LEMMA LeaveInv ==
  ASSUME FileInv, NEW e \in Editors, Leave(e)
  PROVE  FileInv'
<1>1. TypeOK'
  BY WorkspaceAssumption
  DEF FileInv, Leave, TypeOK, EditorStages, Saving, disk, revision, bounds,
      Answered, Moves
<1>2. QuietWhileDown'
  BY DEF FileInv, Leave, QuietWhileDown, Answered, Moves
<1>3. OpenKnowsTheFile'
  BY DEF FileInv, Leave, OpenKnowsTheFile, disk
<1>4. ServesTheFile'
  BY DEF FileInv, Leave, ServesTheFile, disk, revision, Answered, Moves
<1>5. WrittenIsOnDisk'
  BY DEF FileInv, Leave, WrittenIsOnDisk, TypeOK, Sending, Saving, disk,
         Answered, Moves
<1>6. HolderIsCurrent'
  BY DEF FileInv, Leave, HolderIsCurrent, Saving, revision, Answered, Moves
<1>7. LookedBeforeRename'
  BY DEF FileInv, Leave, LookedBeforeRename, Writing, Answered, Moves
<1> QED
  BY <1>1, <1>2, <1>3, <1>4, <1>5, <1>6, <1>7 DEF FileInv

-----------------------------------------------------------------------------
(* The operator, the machine, and all steps.                               *)

LEMMA EditByHandInv ==
  ASSUME FileInv, EditByHand
  PROVE  FileInv'
<1>1. TypeOK'
  BY WorkspaceAssumption DEF FileInv, EditByHand, TypeOK, Texts, revision, editing
<1>2. QuietWhileDown'
  BY DEF FileInv, EditByHand, QuietWhileDown, editing
<1>3. OpenKnowsTheFile'
  BY DEF FileInv, EditByHand, OpenKnowsTheFile
<1>4. ServesTheFile'
  BY DEF FileInv, EditByHand, ServesTheFile, revision
<1>5. WrittenIsOnDisk'
  BY DEF FileInv, EditByHand, WrittenIsOnDisk, editing
<1>6. HolderIsCurrent'
  BY DEF FileInv, EditByHand, HolderIsCurrent, revision, editing
<1>7. LookedBeforeRename'
  BY DEF EditByHand, LookedBeforeRename, Writing, editing
<1> QED
  BY <1>1, <1>2, <1>3, <1>4, <1>5, <1>6, <1>7 DEF FileInv

LEMMA CrashInv ==
  ASSUME FileInv, Crash
  PROVE  FileInv'
<1>1. TypeOK'
  BY WorkspaceAssumption
  DEF FileInv, Crash, TypeOK, ServerStages, EditorStages, Saving, disk
<1>2. QuietWhileDown'
  BY DEF Crash, QuietWhileDown
<1>3. OpenKnowsTheFile'
  BY DEF Crash, OpenKnowsTheFile, OpenStages
<1>4. ServesTheFile'
  BY DEF Crash, ServesTheFile
<1>5. WrittenIsOnDisk'
  BY DEF Crash, WrittenIsOnDisk, Sending, Saving
<1>6. HolderIsCurrent'
  BY DEF Crash, HolderIsCurrent, Saving
<1>7. LookedBeforeRename'
  BY DEF Crash, LookedBeforeRename, Writing
<1> QED
  BY <1>1, <1>2, <1>3, <1>4, <1>5, <1>6, <1>7 DEF FileInv

LEMMA StutterInv == FileInv /\ UNCHANGED workspaceVars => FileInv'
BY DEF FileInv, TypeOK, QuietWhileDown, OpenKnowsTheFile, ServesTheFile,
       WrittenIsOnDisk, HolderIsCurrent, LookedBeforeRename, Writing, workspaceVars, disk,
       revision, editing, bounds

LEMMA WorkspaceStepInv == FileInv /\ [WorkspaceNext]_workspaceVars => FileInv'
<1> SUFFICES ASSUME FileInv, [WorkspaceNext]_workspaceVars
             PROVE  FileInv'
  OBVIOUS
<1>1. CASE Opening
  BY <1>1, OpenInv, CreateBackupInv, WriteBackupInv, CompareOriginalInv,
     MigrateInv, MigrateFailsInv
  DEF Opening
<1>2. ASSUME NEW e \in Editors,
             Load(e) \/ Submit(e) \/ Lock(e) \/ Refuse(e) \/ Publish(e) \/ Leave(e)
      PROVE  FileInv'
  BY <1>2, LoadInv, SubmitInv, LockInv, RefuseInv, CompareInv, RenameInv,
     RenameFailsInv, SwapInv, LeaveInv
  DEF Publish
<1>3. CASE EditByHand \/ Crash
  BY <1>3, EditByHandInv, CrashInv
<1>4. CASE UNCHANGED workspaceVars
  BY <1>4, StutterInv
<1> QED
  BY <1>1, <1>2, <1>3, <1>4 DEF WorkspaceNext

LEMMA AlwaysFileInv == WorkspaceSpec => []FileInv
BY WorkspaceInitInv, WorkspaceStepInv, PTL DEF WorkspaceSpec

-----------------------------------------------------------------------------
(* The theorems.                                                           *)

\* The workspace keeps its types: who holds the saving lock is between its
\* look at the file and its answer, and a process that is up serves a
\* revision (Workspace::commit, Workspace::open).
THEOREM WorkspaceTypeCorrect == WorkspaceSpec => []TypeOK
<1>1. FileInv => TypeOK
  BY DEF FileInv
<1> QED
  BY <1>1, AlwaysFileInv, PTL

\* Whatever saves, failed writes, migrations and crashes there were, the file
\* holds the document that is served, or the one a save has renamed and is
\* about to swap in, unless somebody else has edited it (Workspace::commit,
\* write_config).
THEOREM ServesWhatIsOnDisk == WorkspaceSpec => []RestartServesTheSame
<1>1. FileInv => RestartServesTheSame
  <2>1. SUFFICES ASSUME FileInv, server = "up", outside = "no"
                 PROVE  \/ file = known /\ file.doc = active.doc
                        \/ \E e \in Editors :
                             pc[e] = "written" /\ file = Rendered(edit[e])
    BY DEF RestartServesTheSame
  <2>2. CASE \E e \in Editors : pc[e] = "written"
    BY <2>1, <2>2 DEF FileInv, WrittenIsOnDisk
  <2>3. CASE \A e \in Editors : pc[e] # "written"
    BY <2>1, <2>3 DEF FileInv, ServesTheFile
  <2> QED
    BY <2>2, <2>3
<1> QED
  BY <1>1, AlwaysFileInv, PTL

\* A save replaces the revision its editor had loaded: between the check of
\* the base revision and the swap nothing else is published, however editors
\* queue, leave or fail (Workspace::commit).
THEOREM SavesReplaceTheirBase == WorkspaceSpec => NoLostUpdate
<1> DEFINE Kept == \A e \in Editors :
             pc[e] = "written" /\ active' # active /\ active' # Nothing =>
               base[e] = active.id
<1>1. FileInv => Kept
  BY DEF FileInv, HolderIsCurrent, Saving
<1>2. FileInv => [Kept]_workspaceVars
  BY <1>1
<1> QED
  BY <1>2, AlwaysFileInv, PTL DEF NoLostUpdate

\* Neither a save nor the migration overwrites an edit that fell before its
\* last look at the file (the comparison in Workspace::commit and
\* migrate_file).
THEOREM SparesHandEdits == WorkspaceSpec => HandEditsSpared
<1> DEFINE Spared == file' # file /\ edits' = edits => outside # "before"
<1>1. FileInv /\ [WorkspaceNext]_workspaceVars => Spared
  <2>1. SUFFICES ASSUME FileInv, [WorkspaceNext]_workspaceVars, file' # file, edits' = edits
                 PROVE  outside # "before"
    OBVIOUS
  <2>2. Migrate \/ \E e \in Editors : Rename(e)
    <3>1. ~EditByHand
      BY <2>1 DEF EditByHand, FileInv, TypeOK
    <3> QED
      BY <2>1, <3>1
      DEF WorkspaceNext, Opening, Open, CreateBackup, WriteBackup, CompareOriginal,
          MigrateFails, Load, Submit, Lock, Refuse, Publish, Compare,
          RenameFails, Swap, Leave, Crash, workspaceVars, disk
  <2>3. CASE Migrate
    BY <2>1, <2>3 DEF Migrate, FileInv, LookedBeforeRename
  <2>4. CASE \E e \in Editors : Rename(e)
    BY <2>1, <2>4 DEF Rename, FileInv, LookedBeforeRename, Writing
  <2> QED
    BY <2>2, <2>3, <2>4
<1>2. FileInv /\ [WorkspaceNext]_workspaceVars => [Spared]_workspaceVars
  BY <1>1
<1> QED
  BY <1>2, AlwaysFileInv, PTL DEF WorkspaceSpec, HandEditsSpared

=============================================================================
