------------------------------ MODULE Duration ------------------------------
(***************************************************************************)
(* The age the table shows for a time: ktimegm and human_duration (list.c) *)
(* on a time that matched the pattern of the table, which lets months of   *)
(* 00 to 19, days of 00 to 39 and hours of 00 to 29 pass, drawn again      *)
(* and again as the clock advances, or is set back.                        *)
(*                                                                         *)
(* An age is a sequence of numbers with a unit.  Of a time in the future   *)
(* the code converts a negative difference to an unsigned number, which C  *)
(* leaves undefined: the age is then unknown.                              *)
(***************************************************************************)
EXTENDS Integers, SequencesExt

CONSTANTS
    Years,      \* of the times drawn
    Times,      \* seconds of the day of the times drawn
    Ages        \* distances from the time at which it is drawn

\* The pattern of the table lets years from 2000 on pass.
ASSUME DurationAssumption ==
    /\ \A year \in Years : year \in Nat /\ year >= 1970
    /\ Times \subseteq Nat /\ Ages \subseteq Nat

VARIABLES
    then,       \* the time, as sscanf reads it
    now,        \* time(NULL) at the last draw
    shown       \* the age drawn

ageVars == <<then, now, shown>>

Stamps == [year : Years, month : 0..19, day : 0..39, time : Times]

-----------------------------------------------------------------------------
(* The code.                                                               *)

\* days_from_epoch.  The year begins in March; a division of C rounds to
\* zero, but its operands are not negative.
Shifted_mut(m) == m - 3         \* January and February not moved to the end

Shifted(m) == IF m > 2 THEN m - 3 ELSE m + 9

DaysFromEpoch(year, m, d) ==
    LET y   == IF m <= 2 THEN year - 1 ELSE year
        era == y \div 400
        yoe == y - era * 400
        doy == (153 * Shifted(m) + 2) \div 5 + d - 1
        doe == yoe * 365 + yoe \div 4 - yoe \div 100 + doy
    IN  era * 146097 + doe - 719468

\* ktimegm: month 13 is January of the next year and month 0 December of the
\* last; days and hours run over by themselves.
YearAndMonth(year, mon) ==
    IF mon > 11 THEN <<year + mon \div 12, mon % 12>>
    ELSE IF mon < 0
         THEN LET diff == (11 - mon) \div 12 IN <<year - diff, mon + 12 * diff>>
         ELSE <<year, mon>>

KTimeGm(t) ==
    LET norm == YearAndMonth(t.year, t.month - 1)
    IN  86400 * DaysFromEpoch(norm[1], norm[2] + 1, t.day) + t.time

Seconds == [s |-> 1, m |-> 60, h |-> 3600, d |-> 86400, y |-> 31536000]
Units   == DOMAIN Seconds

Part(n, unit) == [n |-> n, unit |-> unit]

Parts_mut(n, unit, rest, smaller) == <<Part(rest, unit), Part(n, smaller)>>

\* The smaller unit is left out when there is none of it.
Parts(n, unit, rest, smaller) ==
    IF rest = 0 THEN <<Part(n, unit)>>
    ELSE <<Part(n, unit), Part(rest, smaller)>>

\* human_duration, of a difference that is not negative.
Age(seconds) ==
    LET minutes == seconds \div 60
        hours   == seconds \div 3600
        days    == hours \div 24
        years   == days \div 365
    IN  IF seconds < 60 * 2 THEN <<Part(seconds, "s")>>
        ELSE IF minutes < 10 THEN Parts(minutes, "m", seconds % 60, "s")
        ELSE IF minutes < 60 * 3 THEN <<Part(minutes, "m")>>
        ELSE IF hours < 8 THEN Parts(hours, "h", minutes % 60, "m")
        ELSE IF hours < 48 THEN <<Part(hours, "h")>>
        ELSE IF hours < 24 * 8 THEN Parts(days, "d", hours % 24, "h")
        ELSE IF hours < 24 * 365 * 2 THEN <<Part(days, "d")>>
        ELSE IF hours < 24 * 365 * 8 THEN Parts(years, "y", days % 365, "d")
        ELSE <<Part(years, "y")>>

Unknown == << >>

HumanDuration(t, now_s) ==
    IF now_s < KTimeGm(t) THEN Unknown ELSE Age(now_s - KTimeGm(t))

-----------------------------------------------------------------------------
(* The calendar, for reference.                                            *)

IsLeap(y) == y % 4 = 0 /\ (y % 100 # 0 \/ y % 400 = 0)

MonthLength(y, m) ==
    IF m = 2 THEN (IF IsLeap(y) THEN 29 ELSE 28)
    ELSE IF m \in {4, 6, 9, 11} THEN 30 ELSE 31

\* Days of the first months of a year, up to eleven.
DaysOfMonths(year) ==
    LET days[m \in 0..11] ==
            IF m = 0 THEN 0 ELSE days[m - 1] + MonthLength(year, m)
    IN  days

\* Days from the first of January 1970 to the first of a month.
DaysBefore(year, month) ==
    LET leapDays == {y \in 1970..(year - 1) : IsLeap(y)}
    IN  365 * (year - 1970) + Cardinality(leapDays) + DaysOfMonths(year)[month - 1]

\* The second a time stands for, its month counted from January.
Instant(t) ==
    LET months == 12 * t.year + t.month - 1
    IN  86400 * (DaysBefore(months \div 12, (months % 12) + 1) + t.day - 1) + t.time

-----------------------------------------------------------------------------
(* A cell of the table.                                                    *)

AgeInit ==
    /\ then \in Stamps
    /\ now = KTimeGm(then)
    /\ shown = Unknown

\* fill_tempstr, when the header of the column was not clicked.
DrawAge(age) ==
    /\ now' = KTimeGm(then) + age
    /\ shown' = HumanDuration(then, now')
    /\ UNCHANGED then

AgeNext == \E age \in Ages : DrawAge(age) \/ DrawAge(-age)

AgeSpec == AgeInit /\ [][AgeNext]_ageVars

-----------------------------------------------------------------------------

\* The seconds an age stands for.
InSeconds(age) ==
    LET Of(i) == age[i].n * Seconds[age[i].unit]
    IN  IF Len(age) = 1 THEN Of(1) ELSE Of(1) + Of(2)

\* The type invariant: an age has one or two parts, the second in a smaller
\* unit and not zero.
AgeTypeOK ==
    /\ then \in Stamps
    /\ now \in Int
    /\ shown \in Seq([n : Nat, unit : Units]) /\ Len(shown) <= 2
    /\ Len(shown) = 2 =>
        shown[2].n > 0 /\ Seconds[shown[2].unit] < Seconds[shown[1].unit]

\* ktimegm gives the second of the calendar, for leap years, the turn of a
\* century and months, days and hours that run over.
TimeIsCalendar == KTimeGm(then) = Instant(then)

\* The age shown, if any, is not more than the true one, and what it leaves
\* out is at most an eighth of it, at every boundary of the units.
AgeIsTrue ==
    shown # Unknown =>
        LET age == now - KTimeGm(then)
        IN  InSeconds(shown) <= age /\ 8 * (age - InSeconds(shown)) <= age
=============================================================================
