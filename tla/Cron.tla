-------------------------------- MODULE Cron --------------------------------
(***************************************************************************)
(* The cron expressions of the contact coordinator (CronExpr): how an      *)
(* expression is read into six sets of matching values, and how the next   *)
(* matching time is searched.                                              *)
(*                                                                         *)
(* A time is a number of seconds.  The calendar is a parameter: the day    *)
(* of the month and the month of every day, and how many months, hours,    *)
(* minutes and seconds there are to a year, a day, an hour and a minute.   *)
(* An item of a field is what the characters mean: "*" with an optional    *)
(* step, a-b with one, or v with one; step 0 stands for none given.        *)
(***************************************************************************)
EXTENDS Integers, Sequences, FiniteSets, FiniteSetsExt

CONSTANTS
  Dom, Month,       \* sequences: day of month, and month, of each day
  MonthsPerYear, DaysPerWeek, HoursPerDay, MinutesPerHour, SecondsPerMinute,
  SearchDays,       \* 366 * 4, how far a search looks
  Width             \* 32, the width of a parsed number

ASSUME CronAssumption ==
  /\ Dom \in Seq(Nat \ {0}) /\ Month \in Seq(1..MonthsPerYear) /\ Len(Dom) = Len(Month)
  /\ \A d \in DOMAIN Dom \ {Len(Dom)} : Dom[d + 1] = 1 \/ (Dom[d + 1] = Dom[d] + 1 /\ Month[d + 1] = Month[d])
  /\ {MonthsPerYear, DaysPerWeek, HoursPerDay, MinutesPerHour, SecondsPerMinute, SearchDays, Width} \subseteq Nat \ {0}

Never == -1
PerHour == MinutesPerHour * SecondsPerMinute
PerDay == HoursPerDay * PerHour
MaxDom == Max({Dom[d] : d \in DOMAIN Dom})

-----------------------------------------------------------------------------
(* The calendar. *)

Sec(t) == t % SecondsPerMinute
Mins(t) == (t \div SecondsPerMinute) % MinutesPerHour
Hrs(t) == (t \div PerHour) % HoursPerDay
DayNo(t) == t \div PerDay + 1
Weekday(t) == (t \div PerDay) % DaysPerWeek

-----------------------------------------------------------------------------
(* Reading an expression. *)

Item(kind, a, b, step) == [kind |-> kind, a |-> a, b |-> b, step |-> step]
Start(i, min) == IF i.kind = "all" THEN min ELSE i.a
Stop(i, max) == CASE i.kind = "all" -> max
              [] i.kind = "range" -> i.b
              [] OTHER -> IF i.step = 0 THEN i.a ELSE max

(* A value out of range, an empty range and a written step of 0 are errors. *)
ItemOk(i, min, max) ==
  /\ i.kind # "all" => i.a \in min..max
  /\ i.kind = "range" => i.b \in min..max /\ i.a <= i.b
  /\ i.kind # "bad"

(* while v <= end { bits |= 1 << v; v += step } *)
ParseItem(i, min, max) ==
  LET step == IF i.step = 0 THEN 1 ELSE i.step
      bits[n \in 0..(max + 1), v \in 0..(2^Width - 1)] ==
        IF v > Stop(i, max) \/ n = 0 THEN {} ELSE {v} \cup bits[n - 1, (v + step) % 2^Width]
  IN  bits[max + 1, Start(i, min)]

FieldOk(f, min, max) == f # {} /\ \A i \in f : ItemOk(i, min, max)
ParseField(f, min, max) == UNION {ParseItem(i, min, max) : i \in f}
ParseDow(f) == {v % DaysPerWeek : v \in ParseField(f, 0, DaysPerWeek)}

All == {Item("all", 0, 0, 0)}
Just(v) == {Item("value", v, v, 0)}
Written(minute, hour, dom, month, dow) ==
  [second |-> Just(0), minute |-> minute, hour |-> hour, dom |-> dom, month |-> month, dow |-> dow]
Shortcut(name) ==
  CASE name = "yearly"  -> Written(Just(0), Just(0), Just(1), Just(1), All)
    [] name = "monthly" -> Written(Just(0), Just(0), Just(1), All, All)
    [] name = "weekly"  -> Written(Just(0), Just(0), All, All, Just(0))
    [] name = "daily"   -> Written(Just(0), Just(0), All, All, All)
    [] name = "hourly"  -> Written(Just(0), All, All, All, All)

Parses(w) ==
  /\ FieldOk(w.second, 0, SecondsPerMinute - 1) /\ FieldOk(w.minute, 0, MinutesPerHour - 1)
  /\ FieldOk(w.hour, 0, HoursPerDay - 1) /\ FieldOk(w.dom, 1, MaxDom)
  /\ FieldOk(w.month, 1, MonthsPerYear) /\ FieldOk(w.dow, 0, DaysPerWeek)

Parse(w) ==
  [second |-> ParseField(w.second, 0, SecondsPerMinute - 1),
   minute |-> ParseField(w.minute, 0, MinutesPerHour - 1),
   hour   |-> ParseField(w.hour, 0, HoursPerDay - 1),
   dom    |-> ParseField(w.dom, 1, MaxDom),
   month  |-> ParseField(w.month, 1, MonthsPerYear),
   dow    |-> ParseDow(w.dow)]

-----------------------------------------------------------------------------
(* Searching. *)

AdvanceMinute(t) == (t - Sec(t)) + SecondsPerMinute
AdvanceHour(t) == (t - (t % PerHour)) + PerHour
AdvanceDay(t) == (t - (t % PerDay)) + PerDay
AdvanceMonth(t) ==
  PerDay * (DayNo(t) - 1 + CHOOSE k \in 1..MaxDom : Dom[DayNo(t) + k] = 1 /\ \A j \in 1..(k - 1) : Dom[DayNo(t) + j] # 1)

HasSeconds(e) == e.second # {0}
Truncated(e, after) == IF HasSeconds(e) THEN after ELSE after - Sec(after)

(* Mutant: after a month that does not match the search goes on at the     *)
(* same day of the next one.                                               *)
AdvanceSameDay(e, t) ==
  IF Month[DayNo(t)] \notin e.month THEN AdvanceMonth(t) + (Dom[DayNo(t)] - 1) * PerDay
  ELSE IF Dom[DayNo(t)] \notin e.dom THEN AdvanceDay(t)
  ELSE IF Weekday(t) \notin e.dow THEN AdvanceDay(t)
  ELSE IF Hrs(t) \notin e.hour THEN AdvanceHour(t)
  ELSE IF Mins(t) \notin e.minute THEN AdvanceMinute(t)
  ELSE IF Sec(t) \notin e.second THEN t + 1
  ELSE t

(* One turn of the loop: the first field that does not match is advanced. *)
Advance(e, t) ==
  IF Month[DayNo(t)] \notin e.month THEN AdvanceMonth(t)
  ELSE IF Dom[DayNo(t)] \notin e.dom THEN AdvanceDay(t)
  ELSE IF Weekday(t) \notin e.dow THEN AdvanceDay(t)
  ELSE IF Hrs(t) \notin e.hour THEN AdvanceHour(t)
  ELSE IF Mins(t) \notin e.minute THEN AdvanceMinute(t)
  ELSE IF Sec(t) \notin e.second THEN t + 1
  ELSE t

NextAfter(e, after) ==
  LET limit == after + SearchDays * PerDay
      from[t \in Nat] == IF t > limit THEN Never
                         ELSE IF Advance(e, t) = t THEN t ELSE from[Advance(e, t)]
  IN  from[Truncated(e, after)]
=============================================================================
