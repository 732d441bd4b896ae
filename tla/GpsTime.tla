------------------------------- MODULE GpsTime -------------------------------
(* The calendar of AssistData.c: times are seconds since 1970 in the time      *)
(* scale of their owner (GPS, UTC, BeiDou), fractions of a second left out,    *)
(* and a receiver names one by the week and the second of the week.            *)
EXTENDS Integers, Sequences, SequencesExt, FiniteSetsExt

CONSTANTS
  GtStep,        \* the time between two moments that are looked at
  GtEnd,         \* bound: last moment
  GtSkews        \* weeks by which the clock of the computer is ahead or behind

ASSUME GpsTimeAssumption == GtStep \in Nat \ {0} /\ GtEnd \in Nat /\ GtSkews \subseteq 0..511

VARIABLE gtTime  \* the receiver's time, in GPS time
gtVars == <<gtTime>>

GtDay == 86400
GtWeek == 7 * GtDay

GtDayOfYear == <<1, 32, 60, 91, 121, 152, 182, 213, 244, 274, 305, 335>>
GtMonthDays == <<31, 28, 31, 30, 31, 30, 31, 31, 30, 31, 30, 31>>
\* The days of the 48 months of four years, of which the third is a leap year.
GtDays(m) == IF m = 26 THEN 29 ELSE GtMonthDays[1 + ((m - 1) % 12)]
\* What is left of the day of four years before each of their months, as long as months
\* are taken from it.
GtLeft(day) == LET left[m \in 1..49] == IF m = 1 THEN day ELSE left[m - 1] - GtDays(m - 1) IN left

\* A faulty variant: the leap day is counted from February on.
GtFromEpochEarly(e) ==
  IF e.year \notin 1970..2099 THEN 0
  ELSE ((e.year - 1970) * 365 + (e.year - 1969) \div 4 + GtDayOfYear[e.month] + e.day - 2
         + (IF e.year % 4 = 0 /\ e.month >= 2 THEN 1 ELSE 0)) * GtDay + e.sec

\* epoch2time; e.sec counts from midnight.
GtFromEpoch(e) ==
  IF e.year \notin 1970..2099 THEN 0
  ELSE ((e.year - 1970) * 365 + (e.year - 1969) \div 4 + GtDayOfYear[e.month] + e.day - 2
         + (IF e.year % 4 = 0 /\ e.month >= 3 THEN 1 ELSE 0)) * GtDay + e.sec

\* time2epoch walks the 48 months of four years, to the first that is longer than what is left.
GtToEpoch(t) ==
  LET days == t \div GtDay
      left == GtLeft(days % 1461)
      mon == Min({m \in 1..49 : m = 49 \/ left[m] < GtDays(m)})
  IN [year |-> 1970 + 4 * (days \div 1461) + (mon - 1) \div 12, month |-> 1 + ((mon - 1) % 12),
      day |-> left[mon] + 1, sec |-> t % GtDay]

GtFirst(y, m, d) == GtFromEpoch([year |-> y, month |-> m, day |-> d, sec |-> 0])
GtGps0 == GtFirst(1980, 1, 6)

\* leaps: the days that begin with one more leap second, the last first.
GtLeaps ==
  <<GtFirst(2017, 1, 1), GtFirst(2015, 7, 1), GtFirst(2012, 7, 1), GtFirst(2009, 1, 1), GtFirst(2006, 1, 1),
    GtFirst(1999, 1, 1), GtFirst(1997, 7, 1), GtFirst(1996, 1, 1), GtFirst(1994, 7, 1), GtFirst(1993, 7, 1),
    GtFirst(1992, 7, 1), GtFirst(1991, 1, 1), GtFirst(1990, 1, 1), GtFirst(1988, 1, 1), GtFirst(1985, 7, 1),
    GtFirst(1983, 7, 1), GtFirst(1982, 7, 1), GtFirst(1981, 7, 1)>>
GtLeapSeconds(i) == 19 - i
GtFirstOf(indices) == IF indices = {} THEN 0 ELSE GtLeapSeconds(Min(indices))

GtUtcToGps(t) == LET leaps == GtLeaps IN t + GtFirstOf({i \in DOMAIN leaps : t >= leaps[i]})

\* A faulty variant: the day is compared with GPS time.
GtGpsToUtcEarly(t) == LET leaps == GtLeaps IN t - GtFirstOf({i \in DOMAIN leaps : t >= leaps[i]})
GtGpsToUtc(t) ==
  LET leaps == GtLeaps IN t - GtFirstOf({i \in DOMAIN leaps : t - GtLeapSeconds(i) >= leaps[i]})

GtGpsToBdt(t) == t - 14
GtBdtToGps(t) == t + 14

\* The int of the seconds since 1980; one that grows too large is, in the build, 2^32 less.
GtIntMax == 2147483647
GtInt(n) == IF n <= GtIntMax THEN n ELSE n - 2 * (GtIntMax + 1)

\* gpst2time and time2gpst.
GtFromWeek(week, tow) == GtGps0 + GtInt(GtWeek * week + tow)
GtWeekOf(t) == (t - GtGps0) \div GtWeek
GtTow(t) == (t - GtGps0) - GtInt(GtWeek * GtWeekOf(t))

\* C's division, towards zero.
GtQuotient(a, b) == IF a < 0 THEN -((-a) \div b) ELSE a \div b

\* A faulty variant: rounded down, not to the nearest.
GtAdjWeekDown(week, w) ==
  LET now == IF w < 1560 THEN 1560 ELSE w IN week + GtQuotient(now - week, 1024) * 1024

\* adjgpsweek: the week nearest to the computer's that agrees modulo 1024.
GtAdjWeek(week, w) ==
  LET now == IF w < 1560 THEN 1560 ELSE w IN week + GtQuotient(now - week + 512, 1024) * 1024

GtInit == gtTime \in {GtGps0} \cup {GtLeaps[i] + GtLeapSeconds(i) + d : i \in DOMAIN GtLeaps, d \in -1..1}
GtNext == gtTime + GtStep <= GtEnd /\ gtTime' = gtTime + GtStep

GtSpec == GtInit /\ [][GtNext]_gtVars

-----------------------------------------------------------------------------
(* Properties *)

\* A calendar day is the day of its second, and each second to the end of 2099 has one
\* (epoch2time, time2epoch); the seconds of UTC have one of GPS time (utc2gpst, gpst2utc).
GtCalendar ==
  LET utc == gtTime - 18
      e == GtToEpoch(utc)
  IN /\ e.month \in 1..12 /\ e.day \in 1..31
     /\ e.year <= 2099 => GtFromEpoch(e) = utc
     /\ GtGpsToUtc(GtUtcToGps(utc)) = utc

\* decode_oem4 finds the receiver's time from a week number that was sent whole or modulo
\* 1024, by a clock that is right to 511 weeks (adjgpsweek, gpst2time, time2gpst), from 2009
\* until the seconds since 1980 are too many for an int, in January 2048.
GtTimeFound ==
  gtTime - GtGps0 <= GtIntMax =>
    \A skew \in GtSkews \cup {-s : s \in GtSkews}, whole \in BOOLEAN :
      LET week == GtWeekOf(gtTime)
          sent == IF whole THEN week ELSE week % 1024
      IN week + skew >= 1560 => GtFromWeek(GtAdjWeek(sent, week + skew), GtTow(gtTime)) = gtTime

\* A time survives the calendar and the leap seconds until 2099, and a week number modulo 1024
\* until 2048.
TimeKept == GtCalendar /\ GtTimeFound
=============================================================================
