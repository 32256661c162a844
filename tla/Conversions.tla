---------------------------- MODULE Conversions -----------------------------
(***************************************************************************)
(* Pure algorithms of the user libraries, as the code computes them: FAT   *)
(* time stamps to FILETIMEs and FILETIMEs to calendar dates, the wildcards *)
(* of FindFirstFile, and qsort.  A FILETIME is a pair of days and seconds. *)
(***************************************************************************)
EXTENDS Integers, Sequences, FiniteSets, SequencesExt

CONSTANTS LIMIT_YEAR,   \* the year that FileTimeToSystemTime refuses (30828)
          FatYears,     \* years of the time stamps, counted from 1980
          DayNumbers,   \* days since 1601 given to FileTimeToSystemTime
          Patterns, Names,   \* sequences of characters, "*" and "?" in patterns
          Arrays,       \* sequences of [key, tag] to be sorted by key
          Widths        \* bytes of an element

VARIABLES input,   \* the arguments of a call
          output   \* what it returned; <<>> before

vars == <<input, output>>

(***************************************************************************)
(* Dates.                                                                  *)
(***************************************************************************)
month_days == <<31, 28, 31, 30, 31, 30, 31, 31, 30, 31, 30, 31>>

\* Faulty leap_year: centuries are leap years.
LeapEveryFourth(year) == year % 4 = 0

leap_year(year) == (year % 4 = 0 /\ year % 100 # 0) \/ year % 400 = 0

YearDays(year) == IF leap_year(year) THEN 366 ELSE 365
MonthDays(year, month) == month_days[month] + (IF month = 2 /\ leap_year(year) THEN 1 ELSE 0)

\* What the loop over the years has added up, or taken off, when it comes to a year.
DaysBefore ==
  [year \in 1601..LIMIT_YEAR |->
     365 * (year - 1601) + Cardinality({y \in 1601..(year - 1) : leap_year(y)})]

RECURSIVE DaysBeforeMonth(_, _)
DaysBeforeMonth(year, month) ==
  IF month <= 1 THEN 0 ELSE DaysBeforeMonth(year, month - 1) + MonthDays(year, month - 1)

\* 0 for a stamp that was never set; the day is not compared with the month's length.
fat_datetime_ticks(d) ==
  IF d.month \notin 1..12 \/ d.day < 1 THEN <<0, 0>>
  ELSE <<DaysBefore[1980 + d.year] + DaysBeforeMonth(1980 + d.year, d.month) + d.day - 1,
         d.hour * 3600 + d.minute * 60 + d.second>>

\* Whole years are taken off while they fit, and then whole months.
TakeYears(days) ==
  LET year == CHOOSE y \in 1601..LIMIT_YEAR :
                /\ DaysBefore[y] <= days
                /\ y = LIMIT_YEAR \/ days < DaysBefore[y] + YearDays(y)
  IN <<year, days - DaysBefore[year]>>

RECURSIVE TakeMonths(_, _, _)
TakeMonths(year, month, days) ==
  IF month > 12 \/ days < MonthDays(year, month) THEN <<month, days>>
  ELSE TakeMonths(year, month + 1, days - MonthDays(year, month))

Refused == [year |-> 0, month |-> 0, day |-> 0, weekday |-> 0, hour |-> 0, minute |-> 0, second |-> 0]

FileTimeToSystemTime(t) ==
  LET y == TakeYears(t[1])
      m == TakeMonths(y[1], 1, y[2])
  IN IF y[1] = LIMIT_YEAR THEN Refused
     ELSE [year |-> y[1], month |-> m[1], day |-> m[2] + 1, weekday |-> (t[1] + 1) % 7,
           hour |-> t[2] \div 3600, minute |-> (t[2] \div 60) % 60, second |-> t[2] % 60]

(***************************************************************************)
(* Names.                                                                  *)
(***************************************************************************)
fold_char(c) == IF c = "a" THEN "A" ELSE IF c = "b" THEN "B" ELSE c

RECURSIVE wildcard_match(_, _)
wildcard_match(p, n) ==
  IF p = <<>> THEN n = <<>>
  ELSE IF Head(p) = "*"
  THEN Len(p) = 1 \/ \E i \in 1..(Len(n) + 1) : wildcard_match(Tail(p), SubSeq(n, i, Len(n)))
  ELSE n # <<>> /\ (Head(p) = "?" \/ fold_char(Head(p)) = fold_char(Head(n)))
       /\ wildcard_match(Tail(p), Tail(n))

(***************************************************************************)
(* qsort is an insertion sort: the key moves down past what is greater.    *)
(***************************************************************************)
Insert(sorted, x) ==
  LET j == CHOOSE k \in 0..Len(sorted) :
             /\ k = 0 \/ sorted[k].key <= x.key
             /\ \A i \in (k + 1)..Len(sorted) : sorted[i].key > x.key
  IN SubSeq(sorted, 1, j) \o <<x>> \o SubSeq(sorted, j + 1, Len(sorted))

\* Elements wider than the buffer for one are left as they are.
qsort(s, width) ==
  IF width > 64 THEN s ELSE FoldLeft(LAMBDA sorted, x : Insert(sorted, x), <<>>, s)

(***************************************************************************)
(* The calls.                                                              *)
(***************************************************************************)
Stamps == [year : FatYears, month : 0..15, day : 0..31, hour : {23}, minute : {59}, second : {58}]

Init ==
  /\ output = <<>>
  /\ \/ \E d \in Stamps : input = [stamp |-> d]
     \/ \E n \in DayNumbers : input = [days |-> n]
     \/ \E p \in Patterns, n \in Names : input = [pattern |-> p, name |-> n]
     \/ \E s \in Arrays, w \in Widths : input = [array |-> s, width |-> w]

Asked(field) == output = <<>> /\ field \in DOMAIN input /\ UNCHANGED input

GetFileTime == Asked("stamp") /\ output' = <<fat_datetime_ticks(input.stamp),
                                             FileTimeToSystemTime(fat_datetime_ticks(input.stamp))>>
ToSystemTime == Asked("days") /\ output' = <<FileTimeToSystemTime(<<input.days, 86399>>)>>
FindMatch == Asked("pattern") /\ output' = <<wildcard_match(input.pattern, input.name)>>
Sort == Asked("array") /\ output' = <<qsort(input.array, input.width)>>

Next == GetFileTime \/ ToSystemTime \/ FindMatch \/ Sort

Spec == Init /\ [][Next]_vars

(***************************************************************************)
(* Properties.                                                             *)
(***************************************************************************)
Returned(field) == output # <<>> /\ field \in DOMAIN input

\* The number of a day, counted without a table or a loop: the year begins in March and
\* the months have 153 days to five (a reference for the two conversions).
DayNumber(year, month, day) ==
  LET y == IF month > 2 THEN year ELSE year - 1
      m == IF month > 2 THEN month - 3 ELSE month + 9
  IN 365 * y + y \div 4 - y \div 100 + y \div 400 + (153 * m + 2) \div 5 + day - 1 - 584694

\* Zeller's congruence, with 0 for a Sunday.
Weekday(year, month, day) ==
  LET y == IF month > 2 THEN year ELSE year - 1
      m == IF month > 2 THEN month ELSE month + 12
  IN (day + (13 * (m + 1)) \div 5 + (y % 100) + (y % 100) \div 4 + (y \div 100) \div 4
      + 5 * (y \div 100) + 6) % 7

LastDay(year, month) ==
  DayNumber(IF month = 12 THEN year + 1 ELSE year, (month % 12) + 1, 1) - DayNumber(year, month, 1)

\* A file's time stamp survives the way through a FILETIME to the date that a program
\* shows, in every month of leap years, common years and the year 2100
\* (fat_datetime_ticks, FileTimeToSystemTime).
StampSurvives ==
  Returned("stamp") =>
    LET d == input.stamp
        year == 1980 + d.year
    IN d.month \in 1..12 /\ d.day >= 1 /\ d.day <= LastDay(year, d.month) =>
         LET s == output[2]
         IN /\ <<s.year, s.month, s.day>> = <<year, d.month, d.day>>
            /\ <<s.hour, s.minute, s.second>> = <<d.hour, d.minute, d.second>>

\* Every day up to the limit has the date and the weekday that the calendar gives it,
\* every later one is refused (FileTimeToSystemTime).
DateOfDay ==
  Returned("days") =>
    LET s == output[1]
    IN IF input.days >= DayNumber(LIMIT_YEAR, 1, 1) THEN s = Refused
       ELSE /\ s.month \in 1..12 /\ s.day \in 1..LastDay(s.year, s.month)
            /\ DayNumber(s.year, s.month, s.day) = input.days
            /\ s.weekday = Weekday(s.year, s.month, s.day)

\* A name matches if the pattern can be laid along it: each star over a stretch, each
\* other character over one (wildcard_match).
MatchesRight ==
  Returned("pattern") =>
    LET p == input.pattern
        n == input.name
    IN output[1] <=>
         \E cut \in [1..(Len(p) + 1) -> 0..Len(n)] :
           /\ cut[1] = 0 /\ cut[Len(p) + 1] = Len(n)
           /\ \A i \in 1..Len(p) :
                IF p[i] = "*" THEN cut[i] <= cut[i + 1]
                ELSE /\ cut[i + 1] = cut[i] + 1
                     /\ p[i] = "?" \/ fold_char(p[i]) = fold_char(n[cut[i + 1]])

\* What is sorted is what was given, in order, and equal keys stay as they were; elements
\* wider than 64 bytes stay where they are (qsort).
SortsStably ==
  Returned("array") =>
    LET s == input.array
        r == output[1]
    IN \E perm \in [DOMAIN s -> DOMAIN s] :
         /\ \A i, j \in DOMAIN s : i # j => perm[i] # perm[j]
         /\ Len(r) = Len(s) /\ \A i \in DOMAIN s : r[i] = s[perm[i]]
         /\ \A i, j \in DOMAIN s : i < j =>
              \/ input.width > 64 /\ perm[i] < perm[j]
              \/ input.width <= 64 /\ r[i].key < r[j].key
              \/ input.width <= 64 /\ r[i].key = r[j].key /\ perm[i] < perm[j]
=============================================================================
