------------------------------- MODULE Calendar -----------------------------
(***************************************************************************)
(* The weekly calendar (calendar.rs) that both the layers of a model and   *)
(* the prices of a provider's model go by.                                 *)
(*                                                                         *)
(* The wall clock of a timezone is the clock plus the zone's offset; a     *)
(* zone that is None does not parse, nor does a time outside 0..Day-1.     *)
(* compile sorts the windows by their start in a vector; here they are a   *)
(* set, and their order is that of the starts.                             *)
(*                                                                         *)
(* A definition whose name starts with M_ is a mutant of the one after it. *)
(***************************************************************************)
EXTENDS Integers, Sequences

CONSTANTS
  Day,   \* the length of a day, 86400 s in the code
  None   \* an option that is absent

ASSUME CalendarAssumption == Day \in Nat \ {0}

Week == 7 * Day
Blank == ""

Distinct(s) == \A i, j \in DOMAIN s : s[i] = s[j] => i = j
Members(s) == {s[i] : i \in DOMAIN s}

-----------------------------------------------------------------------------
(* The windows of the schedules.                                           *)

Window(start, end, i) == [start |-> start, end |-> end, schedule |-> i]

\* When a schedule that starts on this day begins and ends, counted from
\* Monday 0:00.
Begins(schedule, day) == (day - 1) * Day + schedule.start
Ends(schedule, day) ==
  (day - 1) * Day + schedule.end
    + IF schedule.end < schedule.start THEN Day ELSE 0

\* The window of schedule i on this day: what runs past Sunday midnight is a
\* window of its own at the week's other end.
M_WindowsCut(schedule, i, day) ==
  LET end == Ends(schedule, day)
  IN {Window(Begins(schedule, day), IF end <= Week THEN end ELSE Week, i)}
WindowsOn(schedule, i, day) ==
  LET end == Ends(schedule, day)
  IN {Window(Begins(schedule, day), IF end <= Week THEN end ELSE Week, i)}
       \cup IF end > Week THEN {Window(0, end - Week, i)} ELSE {}

Windows(schedules) ==
  UNION {UNION {WindowsOn(schedules[i], i, day) :
                  day \in Members(schedules[i].days)} :
           i \in DOMAIN schedules}

\* The windows next to each other in the order of their starts.
Neighbours(windows) ==
  {pair \in windows \X windows :
     /\ pair[1] # pair[2]
     /\ pair[1].start <= pair[2].start
     /\ ~\E w \in windows :
           pair[1].start < w.start /\ w.start < pair[2].start}

-----------------------------------------------------------------------------
(* compile.                                                                *)

LayersNamed(layers) ==
  /\ layers # <<>>
  /\ Distinct(layers)
  /\ Blank \notin Members(layers)

SchedulesNamed(schedules) ==
  \A i, j \in DOMAIN schedules :
     /\ schedules[i].name # Blank
     /\ schedules[i].name = schedules[j].name => i = j

ScheduleSound(schedule, layers) ==
  /\ Len(schedule.order) = Len(layers)
  /\ Members(schedule.order) = Members(layers)
  /\ schedule.start \in 0 .. Day - 1
  /\ schedule.end \in 0 .. Day - 1
  /\ schedule.start # schedule.end
  /\ schedule.days # <<>>
  /\ Distinct(schedule.days)
  /\ Members(schedule.days) \subseteq 1 .. 7

NeighboursApart(windows) ==
  \A pair \in Neighbours(windows) : pair[1].end <= pair[2].start

CalendarSound(zone, layers, schedules) ==
  /\ zone # None
  /\ LayersNamed(layers)
  /\ SchedulesNamed(schedules)
  /\ \A i \in DOMAIN schedules : ScheduleSound(schedules[i], layers)
  /\ NeighboursApart(Windows(schedules))

-----------------------------------------------------------------------------
(* Calendar::at.                                                           *)

Instant(zone, now) == (now + zone) % Week

Holding(windows, instant) ==
  {w \in windows : w.start <= instant /\ instant < w.end}

\* The schedule of the first window that holds the instant, 0 when none does.
ActiveSchedule(schedules, instant) ==
  LET holding == Holding(Windows(schedules), instant)
  IN IF holding = {} THEN 0
     ELSE (CHOOSE w \in holding :
             \A v \in holding : w.start <= v.start).schedule

Position(layers, name) ==
  CHOOSE k \in DOMAIN layers :
     layers[k] = name /\ \A j \in 1 .. k - 1 : layers[j] # name

\* The layers' indices in the order of a schedule.
Selection(layers, schedules, i) ==
  IF i = 0
  THEN [k \in DOMAIN layers |-> k]
  ELSE [k \in DOMAIN layers |-> Position(layers, schedules[i].order[k])]

-----------------------------------------------------------------------------
(* What a schedule means: it lasts from its start on each of its days to   *)
(* the first time the wall clock shows its end.                            *)

Lasts(schedule) ==
  IF schedule.start < schedule.end
  THEN schedule.end - schedule.start
  ELSE schedule.end - schedule.start + Day

\* It has started on one of its days, this week or the week before, and not
\* yet ended.
Means(schedule, instant) ==
  \E day \in Members(schedule.days) : \E since \in {0, Week} :
     LET started == Begins(schedule, day)
     IN /\ started <= instant + since
        /\ instant + since < started + Lasts(schedule)

MeantSchedules(schedules, instant) ==
  {i \in DOMAIN schedules : Means(schedules[i], instant)}

=============================================================================
