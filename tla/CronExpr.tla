------------------------------ MODULE CronExpr ------------------------------
(***************************************************************************)
(* Cron expressions: pkg/cronexpr.  The dispatcher asks whether a minute   *)
(* matches; the form asks for the next firings.  The two are computed in   *)
(* different ways from one parse.                                          *)
(*                                                                         *)
(* A written field is a list of parts, each [kind, a, z, step] with step 0 *)
(* where none is written.  The calendar is a constant, so that a small one *)
(* can be searched: a moment is a number of minutes, days follow each      *)
(* other without a change of clock.                                        *)
(***************************************************************************)
EXTENDS Integers, Sequences, FiniteSetsExt

CONSTANTS
    bounds,      \* field -> [min, max], in the order of the five fields
    DaysOfWeek,  \* 7: the number that also stands for 0
    Calendar,    \* the days in order: [month, day, weekday]
    ScanDays,    \* DefaultScanDays
    Written,     \* the expressions that are tried: five fields each
    Starts,      \* the moments they are tried from
    MaxRuns      \* firings asked for

fieldMinute == 1
fieldHour == 2
fieldDayOfMonth == 3
fieldMonth == 4
fieldDayOfWeek == 5
Fields == 1..5

HoursADay == bounds[fieldHour].max + 1
MinutesAnHour == bounds[fieldMinute].max + 1
MinutesADay == HoursADay * MinutesAnHour
Horizon == Len(Calendar) * MinutesADay - 1

VARIABLES expr, from, cursor, runs, ended

vars == <<expr, from, cursor, runs, ended>>

---------------------------------------------------------------------------
(* Parsing *)

PartStart(p, b) == IF p.kind = "*" THEN b.min ELSE p.a

(* A bare value with a step runs to the end of the field. *)
PartEnd(p, b) ==
    CASE p.kind = "*" -> b.max
      [] p.kind = "range" -> p.z
      [] p.kind = "value" -> IF p.step > 1 THEN b.max ELSE p.a

PartValid(p, b) ==
    /\ p.step >= 0
    /\ p.kind = "range" => p.a <= p.z
    /\ PartStart(p, b) >= b.min /\ PartEnd(p, b) <= b.max

parsePart(p, b) ==
    LET step == Max({1, p.step}) IN
    {v \in PartStart(p, b)..PartEnd(p, b) : (v - PartStart(p, b)) % step = 0}

parseField(f, b) == UNION {parsePart(f[i], b) : i \in DOMAIN f}

(* A start beyond the field passes where a step sets the end, and then the *)
(* field may match no value.                                               *)
FieldValid(f, b) == parseField(f, b) # {} /\ \A i \in DOMAIN f : PartValid(f[i], b)

Validate(e) == Len(e) = 5 /\ \A i \in Fields : FieldValid(e[i], bounds[i])

(* 7 and 0 are the same day. *)
FoldSunday(days) == {d % DaysOfWeek : d \in days}

(* star: the field is written as exactly "*"; "*/1" is not. *)
Parse(e) ==
    [sets |-> [i \in Fields |-> LET set == parseField(e[i], bounds[i]) IN
                 IF i = fieldDayOfWeek THEN FoldSunday(set) ELSE set],
     star |-> [i \in Fields |-> Len(e[i]) = 1 /\ e[i][1].kind = "*" /\ e[i][1].step = 0]]

---------------------------------------------------------------------------
(* Matching *)

DayOf(t) == Calendar[t \div MinutesADay + 1]

(* The Vixie rule: two restricted day fields are joined by or. *)
dayMatches(p, day) ==
    LET dom == day.day \in p.sets[fieldDayOfMonth]
        dow == day.weekday \in p.sets[fieldDayOfWeek]
    IN  CASE p.star[fieldDayOfMonth] /\ p.star[fieldDayOfWeek] -> TRUE
          [] p.star[fieldDayOfMonth] /\ ~p.star[fieldDayOfWeek] -> dow
          [] ~p.star[fieldDayOfMonth] /\ p.star[fieldDayOfWeek] -> dom
          [] OTHER -> dom \/ dow

Matches(p, t) ==
    /\ t % MinutesAnHour \in p.sets[fieldMinute]
    /\ (t \div MinutesAnHour) % HoursADay \in p.sets[fieldHour]
    /\ DayOf(t).month \in p.sets[fieldMonth]
    /\ dayMatches(p, DayOf(t))

(* The candidates of a day that are not before start. *)
Candidates(p, d, start) ==
    {c \in {d * MinutesADay + h * MinutesAnHour + m :
               h \in p.sets[fieldHour], m \in p.sets[fieldMinute]} : c >= start}

(* The scan asks that both day fields match. *)
NextRun_BothDays(p, t) ==
    LET days == {d \in (t + 1) \div MinutesADay .. (t + 1) \div MinutesADay + ScanDays :
                   /\ d < Len(Calendar)
                   /\ Calendar[d + 1].month \in p.sets[fieldMonth]
                   /\ Calendar[d + 1].day \in p.sets[fieldDayOfMonth]
                   /\ Calendar[d + 1].weekday \in p.sets[fieldDayOfWeek]
                   /\ Candidates(p, d, t + 1) # {}}
    IN  IF days = {} THEN -1 ELSE Min(Candidates(p, Min(days), t + 1))

(* The first firing strictly after t: the first day of the scan with a     *)
(* candidate, and the first candidate of that day; -1 when there is none.  *)
NextRun(p, t) ==
    LET days == {d \in (t + 1) \div MinutesADay .. (t + 1) \div MinutesADay + ScanDays :
                   /\ d < Len(Calendar)
                   /\ Calendar[d + 1].month \in p.sets[fieldMonth]
                   /\ dayMatches(p, Calendar[d + 1])
                   /\ Candidates(p, d, t + 1) # {}}
    IN  IF days = {} THEN -1 ELSE Min(Candidates(p, Min(days), t + 1))

---------------------------------------------------------------------------
Init ==
    /\ expr \in Written
    /\ from \in Starts /\ cursor = from
    /\ runs = {} /\ ended = FALSE

(* NextRuns of an expression the form accepts: one more firing, or the end. *)
NextRuns ==
    LET next == NextRun(Parse(expr), cursor) IN
    /\ Validate(expr) /\ ~ended /\ Cardinality(runs) < MaxRuns
    /\ IF next = -1 THEN ended' = TRUE /\ UNCHANGED <<cursor, runs>>
       ELSE cursor' = next /\ runs' = runs \cup {next} /\ UNCHANGED ended
    /\ UNCHANGED <<expr, from>>

Next == NextRuns

Spec == Init /\ [][Next]_vars

---------------------------------------------------------------------------
(* The firings the form shows are the minutes on which the dispatcher      *)
(* would fire, all of them and no others, up to the last one shown; when   *)
(* it shows no more, none falls within the days it looked at.              *)
PreviewIsWhatFires ==
    Validate(expr) =>
        LET p == Parse(expr)
            last == IF ended THEN Min({Horizon, ((cursor + 1) \div MinutesADay + ScanDays + 1)
                                                  * MinutesADay - 1})
                    ELSE cursor
        IN  {t \in from + 1 .. last : Matches(p, t)} = runs
=============================================================================
