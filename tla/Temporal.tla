------------------------------- MODULE Temporal -------------------------------
(***************************************************************************)
(* The time a lead names in a message, temporal.py.  Time is in minutes    *)
(* since Monday 00:00 in Brasilia, which keeps no daylight saving time.    *)
(* A message is what the regular expressions and keyword searches find in  *)
(* it: relative and clock are the matches, at most one per pattern, says   *)
(* the keywords written out.                                               *)
(***************************************************************************)
EXTENDS Integers, Sequences, SequencesExt

Day == 1440
WeekMinutes == 7 * Day
Clamp(lo, n, hi) == IF n < lo THEN lo ELSE IF n > hi THEN hi ELSE n

\* A relative target is minutes from the moment the message is read, an absolute one
\* a minute of the calendar; "invalid" is a text that is no ISO date.
Target == [kind : {"none", "relative", "absolute", "invalid"}, at : Int]
NoTarget == [kind |-> "none", at |-> 0]
In(minutes) == [kind |-> "relative", at |-> minutes]
At(minute) == [kind |-> "absolute", at |-> minute]

Weekdays == <<"segunda", "terca", "quarta", "quinta", "sexta", "sabado", "domingo">>

\* In the order of the dictionaries, which is the order of the search.  Spellings of
\* one keyword (with or without accents or "-feira") have one value and are merged.
DayKeywords == <<"hoje", "amanha", "depois de amanha">> \o Weekdays \o <<"fim de semana">>
PeriodKeywords == <<"manha", "almoco", "tarde", "noite", "madrugada", "fim do expediente", "depois do trabalho">>
\* The hour of the keyword at the same place.
PeriodHour == <<9, 12, 15, 20, 2, 18, 19>>
Keyword == ToSet(DayKeywords) \cup ToSet(PeriodKeywords)

\* At most one match of a pattern.
RelativeMatch == [pattern : 1..3, halves : Nat, unit : Nat]
ClockMatch == [pattern : 1..5, hour : Nat, minute : Nat,
               period : {"none", "manha", "tarde", "noite", "madrugada"}]
Text == [relative : SUBSET RelativeMatch, clock : SUBSET ClockMatch, says : SUBSET Keyword]

\* The search is for substrings: "depois de amanha" contains "amanha", and that "manha".
Inside(kw) ==
  CASE kw = "depois de amanha" -> {kw, "amanha", "manha"}
    [] kw = "amanha" -> {kw, "manha"}
    [] OTHER -> {kw}
Mentions(text, kw) == \E said \in text.says : kw \in Inside(said)

\* Faulty: the last keyword of the list.
FirstInBackwards(keywords, text) == SelectLastInSeq(keywords, LAMBDA kw : Mentions(text, kw))

\* The first keyword of a list that the text contains, as an index; 0 if none.
FirstIn(keywords, text) == SelectInSeq(keywords, LAMBDA kw : Mentions(text, kw))

\* The match of the first pattern that has one among matches.
FirstMatch(matches) == CHOOSE m \in matches : \A other \in matches : m.pattern <= other.pattern

\* "em 3 min", "daqui 2 horas", "em meia hora": an amount in halves and a unit in minutes.
ResolveRelativeTime(text) ==
  LET first == FirstMatch(text.relative)
  IN  Max({1, (first.halves * first.unit) \div 2})

WeekdayNumber(kw) == SelectInSeq(Weekdays, LAMBDA wd : wd = kw) - 1

\* The weekday of today means the one a week from now.
NextWeekday(number, today) == IF number = today THEN 7 ELSE (number - today + 7) % 7

DaysUntil(kw, today) ==
  CASE kw = "hoje" -> 0
    [] kw = "amanha" -> 1
    [] kw = "depois de amanha" -> 2
    [] kw = "fim de semana" -> IF today \in {5, 6} THEN (IF today = 5 THEN 7 ELSE 6) ELSE 5 - today
    [] OTHER -> NextWeekday(WeekdayNumber(kw), today)

\* Clock times that are none ("25h") are passed over, and the next pattern is tried.
Clocks(text) == {m \in text.clock : m.hour <= 23 /\ m.minute <= 59}
HourOf(m) ==
  CASE m.period \in {"tarde", "noite"} /\ m.hour < 12 -> m.hour + 12
    [] m.period = "madrugada" /\ m.hour >= 12 -> m.hour - 12
    [] OTHER -> m.hour

\* Minute of the day, or None.
None == -1
ResolveHour(text) ==
  LET period == FirstIn(PeriodKeywords, text)
  IN  CASE Clocks(text) # {} -> 60 * HourOf(FirstMatch(Clocks(text))) + FirstMatch(Clocks(text)).minute
        [] Clocks(text) = {} /\ period # 0 -> 60 * PeriodHour[period]
        [] OTHER -> None

ResolveDayOffset(text, now) ==
  LET day == FirstIn(DayKeywords, text)
  IN  IF day = 0 THEN None ELSE DaysUntil(DayKeywords[day], (now % WeekMinutes) \div Day)

\* Faulty: an hour that is over is not moved to the next day.
OnDayAsSaid(now, days, minute) ==
  now - (now % Day) + minute + (IF days > 0 THEN days * Day ELSE 0)

\* The day a clock time falls on, when days are named or not.
OnDay(now, days, minute) ==
  LET today == now - (now % Day) + minute
  IN  CASE days > 0 -> today + days * Day
        [] days <= 0 /\ today <= now + 2 -> today + Day
        [] OTHER -> today

ExtractScheduledTime(text, now) ==
  LET days == ResolveDayOffset(text, now)
      minute == ResolveHour(text)
  IN  CASE text.relative # {} -> In(ResolveRelativeTime(text))
        [] text.relative = {} /\ days = None /\ minute = None -> NoTarget
        [] OTHER -> At(OnDay(now, days, IF minute = None THEN 600 ELSE minute))

\* datetime_to_minutes_from_now truncates, and the clock has run on since: of a relative
\* target the last minute is lost, of an absolute one the minute that has begun.
MinutesUntil(target, now) ==
  Clamp(1, (IF target.kind = "relative" THEN target.at ELSE target.at - now) - 1, WeekMinutes)
=============================================================================
