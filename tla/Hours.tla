--------------------------------- MODULE Hours ---------------------------------
(***************************************************************************)
(* Working hours.  How much of an interval falls into the shifts of the    *)
(* company (worktime.working_seconds, the basis of every waiting time and  *)
(* of the statistics) and whether a moment is in a shift                   *)
(* (schedule.is_on_shift).  A shift belongs to the day it starts on and    *)
(* may cross midnight; the two are written independently of each other.    *)
(*                                                                         *)
(* Times are ticks of the company's clock; day 0 is the first of a week.   *)
(***************************************************************************)
EXTENDS Integers, FiniteSets

CONSTANTS DAY,       \* ticks in a day
          WEEK,      \* days in a week
          Latest     \* bound: the last moment asked about

ASSUME HoursAssumption == DAY \in Nat \ {0} /\ WEEK \in Nat \ {0} /\ Latest \in Nat

VARIABLE question    \* the interval and the shifts asked about

hoursVars == <<question>>

Question == [from : 0..Latest, to : 0..Latest, days : SUBSET (1..WEEK),
             start : 0..(DAY - 1), end : 0..(DAY - 1), enabled : BOOLEAN]
NoQuestion == [from |-> 0, to |-> 0, days |-> {}, start |-> 0, end |-> 0, enabled |-> FALSE]

-----------------------------------------------------------------------------
Weekday(day) == (day % WEEK) + 1

\* Mutant: equal ends make an empty shift.
ShiftLengthOrNone(start, end) == IF end >= start THEN end - start ELSE DAY - (start - end)
\* _window_seconds; equal ends are a whole day.
ShiftLength(start, end) == IF end > start THEN end - start ELSE DAY - (start - end)

\* What the shift that starts on a day shares with the interval.
Shared(q, day) ==
  LET opens == day * DAY + q.start
      closes == opens + ShiftLength(q.start, q.end)
      begin == IF opens > q.from THEN opens ELSE q.from
      finish == IF closes < q.to THEN closes ELSE q.to
  IN IF Weekday(day) \in q.days /\ finish > begin THEN finish - begin ELSE 0

\* From the day before: its night shift may reach into the interval.
DaysOf(q) == (q.from \div DAY - 1)..(q.to \div DAY)

\* working_seconds: the sum over the days, counted as ticks of each day's shift.
Worked(q) ==
  LET TicksOf(day) == {day} \X (1..Shared(q, day))
  IN IF q.to <= q.from \/ q.days = {} THEN 0
     ELSE Cardinality(UNION {TicksOf(day) : day \in DaysOf(q)})

\* WorkHours: hours without days limit nothing.
Limited(q) == q.enabled /\ q.days # {}

\* seconds_between
Waited(q) ==
  IF Limited(q) THEN Worked(q) ELSE IF q.to > q.from THEN q.to - q.from ELSE 0

\* is_on_shift
OnShift(q, t) ==
  LET today == Weekday(t \div DAY)
      yesterday == IF today = 1 THEN WEEK ELSE today - 1
      clock == t % DAY
  IN CASE q.start < q.end -> today \in q.days /\ q.start <= clock /\ clock < q.end
       [] q.start = q.end -> today \in q.days
       [] OTHER -> (today \in q.days /\ clock >= q.start) \/ (yesterday \in q.days /\ clock < q.end)

-----------------------------------------------------------------------------
HoursInit == question = NoQuestion

Asks == question = NoQuestion /\ question' \in Question

HoursNext == Asks
HoursSpec == HoursInit /\ [][HoursNext]_hoursVars

-----------------------------------------------------------------------------
(* Properties. *)

HoursTypeOK == question \in Question

\* The two readings of a shift agree: the working time of an interval is the
\* number of its moments that are on shift.  Round-the-clock shifts that do
\* not begin at midnight are left out: there is_on_shift takes the calendar
\* day and working_seconds the day from the beginning of the shift.
WorkedIsOnShift ==
  LET q == question IN
  (q.start # q.end \/ q.start = 0) =>
     Worked(q) = Cardinality({t \in q.from..(q.to - 1) : OnShift(q, t)})

\* Waiting adds up: a wait in two parts is as long as the whole, and a longer
\* wait is never shorter (the threshold of the queue relies on it).
WaitsAddUp ==
  LET q == question IN
  \A t \in q.from..q.to :
     /\ Waited([q EXCEPT !.to = t]) + Waited([q EXCEPT !.from = t]) = Waited(q)
     /\ Waited([q EXCEPT !.to = t]) <= Waited(q)

\* A whole week, round the clock or without days to limit it, is waited in
\* full (worktime.py: "equality means the whole day, not an empty shift";
\* "hours without days limit nothing").
NothingIsFree ==
  LET q == question IN
  (~q.enabled \/ q.days = {} \/ (q.days = 1..WEEK /\ q.start = q.end)) =>
     Waited(q) = IF q.to > q.from THEN q.to - q.from ELSE 0

\* The three readings of a schedule agree: the clock of a shift, the length
\* of an interval, and the wait of a client (is_on_shift, working_seconds,
\* seconds_between).
HoursAgree == HoursTypeOK /\ WorkedIsOnShift /\ WaitsAddUp /\ NothingIsFree

=============================================================================
