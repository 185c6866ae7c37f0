----------------------------- MODULE Schedules -----------------------------
(***************************************************************************)
(* The times of packages/amadeus/scheduling.py: what a schedule parses to  *)
(* and when its next run is.  A moment is a number; a day has DayLength of *)
(* them, and a schedule fires at the first moment of a minute, which has   *)
(* several (the seconds that _next_matching_time cuts off).                *)
(***************************************************************************)
EXTENDS Integers, Sequences, FiniteSets

CONSTANTS DayLength, MonthStarts, FirstWeekday, None

DayOf(t) == t \div DayLength

\* The calendar, from an arbitrary first of a month on: external.  A month has 28
\* to 31 days, and of two in a row one has 31.
MonthLength(m) == MonthStarts[m + 1] - MonthStarts[m]

ScheduleAssumption ==
  /\ DayLength \in Nat \ {0} /\ FirstWeekday \in 0 .. 6 /\ None \notin Nat
  /\ MonthStarts \in Seq(Nat) /\ Len(MonthStarts) > 2 /\ MonthStarts[1] = 0
  /\ \A m \in 1 .. Len(MonthStarts) - 1 : MonthLength(m) \in 28 .. 31
  /\ \A m \in 1 .. Len(MonthStarts) - 2 : MonthLength(m) = 31 \/ MonthLength(m + 1) = 31

DayOfMonth(d) ==
  LET m == CHOOSE i \in 1 .. Len(MonthStarts) - 1 :
             MonthStarts[i] <= d /\ d < MonthStarts[i + 1]
  IN d - MonthStarts[m] + 1

\* cron_weekday: Sunday is 0.
CronWeekday(d) == (FirstWeekday + d) % 7

OnDay(s, d) ==
  CASE s.kind = "weekly" -> CronWeekday(d) \in s.days
    [] s.kind = "monthly" -> DayOfMonth(d) = s.day
    [] OTHER -> TRUE

\* Mutant of FirstDay: a run at this very moment counts as yet to come.
FirstDayInclusive(s, now) ==
  IF DayOf(now) * DayLength + s.at < now THEN DayOf(now) + 1 ELSE DayOf(now)

\* candidate <= now: today's time has passed, or is this very moment.
FirstDay(s, now) ==
  IF DayOf(now) * DayLength + s.at <= now THEN DayOf(now) + 1 ELSE DayOf(now)

\* _next_matching_time: the first of 370 candidates, a day apart, that matches.
NextMatching(s, now) ==
  LET days == FirstDay(s, now) .. FirstDay(s, now) + 369
      Matches(d) == OnDay(s, d) /\ \A e \in FirstDay(s, now) .. d - 1 : ~OnDay(s, e)
  IN IF \E d \in days : Matches(d) THEN (CHOOSE d \in days : Matches(d)) * DayLength + s.at
     ELSE None

\* compute_next_run_at.
NextRun(s, now) ==
  CASE s.kind = "interval" -> now + s.seconds
    [] s.kind = "once" -> None
    [] OTHER -> NextMatching(s, now)

\* A text is a duration, said to recur or not, a moment, or five cron fields of
\* which the hour and the minute make a time of the day and "*" is None.
Texts(times, days, weekdays) ==
  [form : {"duration"}, every : BOOLEAN, seconds : times]
    \union [form : {"moment"}, at : times]
    \union [form : {"cron"}, at : times, day : days \union {None},
            month : {None, 1}, weekdays : weekdays \union {None}]

\* What is asked, as long as the calendar lasts.
CalendarAsked(x) ==
  /\ x \in [text : Texts(Nat, Nat, SUBSET Nat), now : Nat]
  /\ x.text.form = "cron" => x.text.at < DayLength
  /\ DayOf(x.now) + 1 < MonthStarts[Len(MonthStarts) - 2]

\* _parse_five_field_cron: None for what it raises on.
ParseCron(text) ==
  IF text.month # None THEN None
  ELSE IF text.day = None /\ text.weekdays = None THEN [kind |-> "daily", at |-> text.at]
  ELSE IF text.day = None /\ text.weekdays \in (SUBSET (0 .. 6)) \ {{}}
    THEN [kind |-> "weekly", at |-> text.at, days |-> text.weekdays]
  ELSE IF text.weekdays = None /\ text.day \in 1 .. 31
    THEN [kind |-> "monthly", at |-> text.at, day |-> text.day]
  ELSE None

\* parse_schedule, without the first run.
Parse(text, now) ==
  CASE text.form = "duration" ->
         IF text.seconds < 1 THEN None
         ELSE IF text.every THEN [kind |-> "interval", seconds |-> text.seconds]
         ELSE [kind |-> "once"]
    [] text.form = "moment" -> IF text.at <= now THEN None ELSE [kind |-> "once"]
    [] OTHER -> ParseCron(text)

\* The next_run_at that parse_schedule returns with it.
FirstRun(text, now) ==
  CASE text.form = "duration" -> now + text.seconds
    [] text.form = "moment" -> text.at
    [] OTHER -> NextMatching(Parse(text, now), now)

----------------------------------------------------------------------------
\* A schedule that is accepted has a first run in the future, on a day and at
\* the time it names, and no run is left out: the loop that goes from day to
\* day never gives up, nor skips a moment at which the schedule should have
\* fired, short months included.  When it recurs, the run that is computed
\* after a delivery is the one that creating it at that moment would give.
NextRunIsNext(text, now) ==
  LET s == Parse(text, now)
      next == FirstRun(text, now)
  IN s # None =>
    /\ next # None /\ next > now
    /\ s.kind # "once" => NextRun(s, now) = next
    /\ s.kind \notin {"once", "interval"} =>
         /\ OnDay(s, DayOf(next)) /\ next % DayLength = s.at
         /\ \A d \in DayOf(now) .. DayOf(next) :
              LET t == d * DayLength + s.at
              IN (now < t /\ t < next) => ~OnDay(s, d)
=============================================================================
