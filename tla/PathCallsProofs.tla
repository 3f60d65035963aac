--------------------------- MODULE PathCallsProofs ---------------------------
(***************************************************************************)
(* Theorems about PathCalls: the conversion of times on the Gregorian      *)
(* calendar, types and the room of the long path, directories left open,   *)
(* what calls do to the share and that they return, and that a call goes   *)
(* where it was meant to.                                                  *)
(***************************************************************************)
EXTENDS PathCalls, NamesProofs, FiniteSetTheorems

-----------------------------------------------------------------------------
(* Times.                                                                  *)

Clocks == [day : Int, sec : 0..SECSPERDAY - 1]

LEMMA DayLength == SECSPERDAY \in Nat \ {0}
  BY SMT DEF SECSPERDAY

LEMMA DivMod ==
    ASSUME NEW s \in Int
    PROVE  /\ (s \div SECSPERDAY) \in Int
           /\ (s % SECSPERDAY) \in 0..SECSPERDAY - 1
           /\ s = SECSPERDAY * (s \div SECSPERDAY) + (s % SECSPERDAY)
<1>1. /\ (s \div 86400) \in Int
      /\ (s % 86400) \in Int
      /\ 0 <= (s % 86400) /\ (s % 86400) <= 86400 - 1
  BY Z3
<1>2. s = 86400 * (s \div 86400) + (s % 86400)
  BY Z3
<1>3. (s \div SECSPERDAY) \in Int
  BY <1>1, SMT DEF SECSPERDAY
<1>4. (s % SECSPERDAY) \in 0..SECSPERDAY - 1
  <2>1. /\ (s % SECSPERDAY) \in Int /\ SECSPERDAY \in Int
        /\ 0 <= (s % SECSPERDAY) /\ (s % SECSPERDAY) <= SECSPERDAY - 1
    BY <1>1, SMT DEF SECSPERDAY
  <2> QED
    BY <2>1, SMT
<1>5. s = SECSPERDAY * (s \div SECSPERDAY) + (s % SECSPERDAY)
  BY <1>2, SMT DEF SECSPERDAY
<1> QED
  BY <1>3, <1>4, <1>5

LEMMA DivModIs ==
    ASSUME NEW q \in Int, NEW r \in Int, 0 <= r, r <= SECSPERDAY - 1
    PROVE  /\ ((SECSPERDAY * q + r) \div SECSPERDAY) = q
           /\ ((SECSPERDAY * q + r) % SECSPERDAY) = r
<1>1. r <= 86400 - 1
  BY SMT DEF SECSPERDAY
<1>2. ((86400 * q + r) \div 86400) = q
  BY <1>1, Z3
<1>3. ((86400 * q + r) % 86400) = r
  BY <1>1, Z3
<1> QED
  BY <1>2, <1>3, SMT DEF SECSPERDAY

LEMMA MovedClock ==
    ASSUME NEW t \in Clocks, NEW secs \in Int
    PROVE  Moved(t, secs) \in Clocks
<1>1. t.day \in Int /\ t.sec + secs \in Int
  BY DayLength, SMT DEF Clocks
<1>2. /\ (t.sec + secs) \div SECSPERDAY \in Int
      /\ (t.sec + secs) % SECSPERDAY \in 0..SECSPERDAY - 1
  BY <1>1, DivMod, SMT
<1> QED
  BY <1>1, <1>2, SMT DEF Moved, Clocks

\* Moving a time and moving it back.
LEMMA MovedBack ==
    ASSUME NEW t \in Clocks, NEW secs \in Int
    PROVE  Moved(Moved(t, -secs), secs) = t
<1> DEFINE x == t.sec + (-secs)
           u == Moved(t, -secs)
<1>1. /\ t.day \in Int /\ t.sec \in Int /\ t.sec \in 0..SECSPERDAY - 1
      /\ x \in Int
  BY DayLength, SMT DEF Clocks
<1>2. PICK q \in Int, r \in Int :
        /\ q = (x \div SECSPERDAY) /\ r = (x % SECSPERDAY)
        /\ x = SECSPERDAY * q + r
  <2> HIDE DEF x
  <2>1. (x % SECSPERDAY) \in Int
    BY <1>1, DivMod, DayLength, SMT
  <2> QED
    BY <1>1, <2>1, DivMod, SMT
<1>3. u.day = t.day + q /\ u.sec = r
  BY <1>2, SMT DEF Moved
<1>4. r + secs = SECSPERDAY * (-q) + t.sec
  <2>1. t.sec + (-secs) = 86400 * q + r
    BY <1>2, SMT DEF SECSPERDAY
  <2>2. r + secs = 86400 * (-q) + t.sec
    BY <1>1, <2>1, SMT
  <2> QED
    BY <2>2, SMT DEF SECSPERDAY
<1>5. /\ ((u.sec + secs) \div SECSPERDAY) = -q
      /\ ((u.sec + secs) % SECSPERDAY) = t.sec
  <2>1. -q \in Int /\ 0 <= t.sec /\ t.sec <= SECSPERDAY - 1
    BY <1>1, DayLength, SMT
  <2> QED
    BY <1>1, <1>3, <1>4, <2>1, DivModIs, SMT
<1>6. u.day + ((u.sec + secs) \div SECSPERDAY) = t.day
  BY <1>1, <1>3, <1>5, SMT
<1>7. Moved(u, secs) = [day |-> t.day, sec |-> t.sec]
  BY <1>5, <1>6, SMT DEF Moved
<1>8. t = [day |-> t.day, sec |-> t.sec]
  BY SMT DEF Clocks
<1> QED
  BY <1>7, <1>8, SMT

LEMMA YearStartInt ==
    ASSUME NEW y \in Nat
    PROVE  /\ YearStart(y) \in Int /\ 365 * y <= YearStart(y)
           /\ YearStart(y + 1) - YearStart(y)
                = 365 + (IF y % 4 = 0 THEN 1 ELSE 0)
                      - (IF y = 120 THEN 1 ELSE 0)
  BY Z3 DEF YearStart

\* The loop over the years ends in the year that has the day.
LEMMA YearFound ==
    ASSUME NEW days \in Nat
    PROVE  /\ YearOf(days) \in Nat
           /\ YearStart(YearOf(days)) <= days
           /\ days < YearStart(YearOf(days) + 1)
<1> DEFINE S == {y \in Nat : days < YearStart(y + 1)}
<1>1. days \in S
  BY YearStartInt, days + 1 \in Nat
<1>2. PICK y \in S : \A z \in S : y <= z
  BY <1>1, LeastExists
<1>3. YearStart(y) <= days
  <2>1. CASE y = 0
    BY <2>1, Z3 DEF YearStart
  <2>2. CASE y # 0
    <3>1. y - 1 \in Nat /\ ~(y <= y - 1) /\ (y - 1) + 1 = y
      BY <2>2
    <3>2. ~(days < YearStart(y))
      BY <1>2, <3>1
    <3> QED
      BY <3>2, YearStartInt
  <2> QED
    BY <2>1, <2>2
<1>4. y \in 0..(days \div 365)
  <2>1. 365 * y <= days
    BY <1>3, YearStartInt
  <2> QED
    BY <2>1, Z3
<1> DEFINE P(z) == YearStart(z) <= days /\ days < YearStart(z + 1)
<1>5. P(y)
  BY <1>2, <1>3
<1>6. \E z \in 0..(days \div 365) : P(z)
  BY <1>4, <1>5
<1>7. YearOf(days) \in 0..(days \div 365) /\ P(YearOf(days))
  <2>1. YearOf(days) = CHOOSE z \in 0..(days \div 365) : P(z)
    BY DEF YearOf
  <2> HIDE DEF P
  <2> QED
    BY <1>6, <2>1
<1> QED
  BY <1>7

Leap(y) == IF y % 4 = 0 THEN 1 ELSE 0

LEMMA LeapIs ==
    ASSUME NEW y \in Nat
    PROVE  Leap(y) \in 0..1 /\ (Leap(y) = 1 <=> (y % 4) = 0)
  BY DEF Leap

\* The months one by one.
LEMMA MonthValues ==
    ASSUME NEW y \in Nat
    PROVE  LET s == MonthStarts(y)
               l == Leap(y)
           IN  /\ s[1] = 0 /\ s[2] = 31 /\ s[3] = 59 + l /\ s[4] = 90 + l
               /\ s[5] = 120 + l /\ s[6] = 151 + l /\ s[7] = 181 + l
               /\ s[8] = 212 + l /\ s[9] = 243 + l /\ s[10] = 273 + l
               /\ s[11] = 304 + l /\ s[12] = 334 + l
  BY DEF MonthStarts, Leap

LEMMA MonthsRise ==
    ASSUME NEW y \in Nat, NEW i0 \in 1..12, NEW j \in 1..12
    PROVE  /\ MonthStarts(y)[i0] \in Nat
           /\ i0 <= j => MonthStarts(y)[i0] <= MonthStarts(y)[j]
<1> DEFINE s == MonthStarts(y)
<1> HIDE DEF s
<1>1. Leap(y) \in 0..1
  BY LeapIs
<1>2. /\ s[1] = 0 /\ s[2] = 31 /\ s[3] = 59 + Leap(y)
      /\ s[4] = 90 + Leap(y) /\ s[5] = 120 + Leap(y)
      /\ s[6] = 151 + Leap(y) /\ s[7] = 181 + Leap(y)
      /\ s[8] = 212 + Leap(y) /\ s[9] = 243 + Leap(y)
      /\ s[10] = 273 + Leap(y) /\ s[11] = 304 + Leap(y)
      /\ s[12] = 334 + Leap(y)
  BY MonthValues DEF s
<1>3. \A k \in 1..12 : s[k] \in Nat
  BY <1>1, <1>2
<1>4. \A k \in 1..11 : s[k] <= s[k + 1]
  BY <1>1, <1>2
<1> DEFINE Above(k) == \A m \in k..12 : s[k] <= s[m]
<1>5. Above(12)
  BY <1>3
<1>6. ASSUME NEW k \in 1..11, Above(k + 1) PROVE Above(k)
  <2>1. ASSUME NEW m \in k..12 PROVE s[k] <= s[m]
    <3>1. s[k] \in Nat /\ s[m] \in Nat /\ s[k + 1] \in Nat
      BY <1>3
    <3>2. s[k] <= s[k + 1]
      BY <1>4
    <3>3. m = k \/ s[k + 1] <= s[m]
      BY <1>6
    <3> QED
      BY <3>1, <3>2, <3>3
  <2> QED
    BY <2>1
<1>7. Above(11) /\ Above(10) /\ Above(9)
  BY <1>5, <1>6
<1>8. Above(8) /\ Above(7) /\ Above(6)
  BY <1>6, <1>7
<1>9. Above(5) /\ Above(4) /\ Above(3)
  BY <1>6, <1>8
<1>10. Above(2) /\ Above(1)
  BY <1>6, <1>9
<1>11. i0 \in {1, 2, 3, 4, 5, 6, 7, 8, 9, 10, 11, 12}
  OBVIOUS
<1>12. Above(i0)
  <2> HIDE DEF Above
  <2> QED
    BY <1>5, <1>7, <1>8, <1>9, <1>10, <1>11
<1>13. s[i0] \in Nat
  BY <1>3
<1>14. i0 <= j => s[i0] <= s[j]
  BY <1>12
<1> QED
  BY <1>13, <1>14 DEF s

\* The chain of comparisons ends in the month that has the day.
LEMMA MonthFound ==
    ASSUME NEW y \in Nat, NEW days \in Nat
    PROVE  /\ MonthOf(y, days) \in 1..12
           /\ MonthStarts(y)[MonthOf(y, days)] <= days
           /\ MonthOf(y, days) < 12 =>
                days < MonthStarts(y)[MonthOf(y, days) + 1]
<1> DEFINE s == MonthStarts(y)
           S == {k \in 1..12 : k = 12 \/ days < s[k + 1]}
<1>1. PICK m \in S : \A k \in S : m <= k
  <2>1. S \in SUBSET Nat /\ 12 \in S
    OBVIOUS
  <2> QED
    BY <2>1, LeastExists
<1>2. m \in 1..12 /\ (m < 12 => days < s[m + 1])
  BY <1>1
<1>3. s[m] <= days
  <2>1. CASE m = 1
    BY <2>1, MonthValues
  <2>2. CASE m # 1
    <3>1. m - 1 \in 1..12 /\ m - 1 # 12 /\ ~(m <= m - 1)
          /\ (m - 1) + 1 = m
      BY <1>2, <2>2
    <3>2. m - 1 \notin S
      BY <1>1, <3>1
    <3>3. ~(days < s[m])
      BY <3>1, <3>2
    <3>4. s[m] \in Nat
      BY <1>2, MonthsRise
    <3> QED
      BY <3>3, <3>4
  <2> QED
    BY <2>1, <2>2
<1>4. ASSUME NEW k \in 1..12 PROVE s[k] <= days <=> k <= m
  <2>1. s[k] \in Nat /\ s[m] \in Nat
    BY <1>2, MonthsRise
  <2>2. CASE k <= m
    <3>1. s[k] <= s[m]
      BY <1>2, <2>2, MonthsRise
    <3> HIDE DEF s
    <3> QED
      BY <1>3, <2>1, <2>2, <3>1
  <2>3. CASE m < k
    <3>1. m + 1 \in 1..12 /\ m < 12 /\ m + 1 <= k
      BY <1>2, <2>3
    <3>2. s[m + 1] <= s[k] /\ s[m + 1] \in Nat
      BY <3>1, MonthsRise
    <3> HIDE DEF s
    <3> QED
      BY <1>2, <2>1, <2>3, <3>1, <3>2
  <2> QED
    BY <1>2, <2>2, <2>3
<1>5. {k \in 1..12 : s[k] <= days} = 1..m
  BY <1>2, <1>4
<1>6. MonthOf(y, days) = m
  <2>1. MonthOf(y, days) = Cardinality(1..m)
    BY <1>5 DEF MonthOf
  <2>2. Cardinality(1..m) = m
    <3>1. 1 \in Int /\ m \in Int /\ ~(1 > m) /\ m - 1 + 1 = m
      BY <1>2
    <3> QED
      BY <3>1, FS_Interval
  <2> QED
    BY <2>1, <2>2
<1> QED
  BY <1>2, <1>3, <1>6

\* Years that FAT and the Gregorian calendar agree on: those to 2099, and the
\* first months of 2100.
Agree(y, m) == y \in Nat /\ y <= 120 /\ m \in 1..12 /\ (y = 120 => m <= 2)

LEMMA LeapYears ==
    ASSUME NEW y \in Nat, y <= 119
    PROVE  LeapYear(1980 + y) <=> Leap(y) = 1
<1>1. ((1980 + y) % 4) = (y % 4)
  BY Z3
<1>2. ((1980 + y) % 100) = 0 /\ ((1980 + y) % 4) = 0
         => ((1980 + y) % 400) = 0
  BY Z3
<1>3. ((1980 + y) % 400) = 0 => ((1980 + y) % 4) = 0
  BY Z3
<1>4. Leap(y) = 1 <=> (y % 4) = 0
  BY LeapIs
<1> QED
  BY <1>1, <1>2, <1>3, <1>4 DEF LeapYear

\* The months of the code are as long as those of the calendar.
LEMMA MonthLengths ==
    ASSUME NEW y, NEW m, Agree(y, m)
    PROVE  /\ m < 12 /\ (y = 120 => m = 1) =>
                MonthStarts(y)[m + 1] = MonthStarts(y)[m] + DaysIn(1980 + y, m)
           /\ m = 12 => DaysIn(1980 + y, m) = 31
           /\ y = 120 /\ m = 2 => DaysIn(1980 + y, m) = 28
<1>1. /\ y \in Nat /\ y <= 120 /\ (y = 120 => m <= 2)
      /\ m \in {1, 2, 3, 4, 5, 6, 7, 8, 9, 10, 11, 12}
  BY DEF Agree
<1>2. y <= 119 => DaysIn(1980 + y, 2) = 28 + Leap(y)
  BY <1>1, LeapYears, LeapIs DEF DaysIn
<1>3. DaysIn(2100, 2) = 28
  <2>1. (2100 % 100) = 0 /\ (2100 % 400) # 0
    BY Z3
  <2> QED
    BY <2>1 DEF DaysIn, LeapYear
<1>4. /\ DaysIn(1980 + y, 1) = 31 /\ DaysIn(1980 + y, 3) = 31
      /\ DaysIn(1980 + y, 4) = 30 /\ DaysIn(1980 + y, 5) = 31
      /\ DaysIn(1980 + y, 6) = 30 /\ DaysIn(1980 + y, 7) = 31
      /\ DaysIn(1980 + y, 8) = 31 /\ DaysIn(1980 + y, 9) = 30
      /\ DaysIn(1980 + y, 10) = 31 /\ DaysIn(1980 + y, 11) = 30
      /\ DaysIn(1980 + y, 12) = 31
  BY DEF DaysIn
<1>5. m < 12 /\ (y = 120 => m = 1) =>
         MonthStarts(y)[m + 1] = MonthStarts(y)[m] + DaysIn(1980 + y, m)
  <2> DEFINE s == MonthStarts(y)
             d(k) == DaysIn(1980 + y, k)
  <2>1. /\ s[1] = 0 /\ s[2] = 31 /\ s[3] = 59 + Leap(y)
        /\ s[4] = 90 + Leap(y) /\ s[5] = 120 + Leap(y)
        /\ s[6] = 151 + Leap(y) /\ s[7] = 181 + Leap(y)
        /\ s[8] = 212 + Leap(y) /\ s[9] = 243 + Leap(y)
        /\ s[10] = 273 + Leap(y) /\ s[11] = 304 + Leap(y)
        /\ s[12] = 334 + Leap(y)
    BY <1>1, MonthValues
  <2>2. /\ d(1) = 31 /\ d(3) = 31 /\ d(4) = 30 /\ d(5) = 31 /\ d(6) = 30
        /\ d(7) = 31 /\ d(8) = 31 /\ d(9) = 30 /\ d(10) = 31 /\ d(11) = 30
        /\ (y <= 119 => d(2) = 28 + Leap(y))
    BY <1>2, <1>4
  <2>3. Leap(y) \in 0..1
    BY <1>1, LeapIs
  <2> HIDE DEF s, d
  <2>4. m < 12 /\ (y = 120 => m = 1) => s[m + 1] = s[m] + d(m)
    BY <1>1, <2>1, <2>2, <2>3
  <2> QED
    BY <2>4 DEF s, d
<1> QED
  BY <1>3, <1>4, <1>5

LEMMA YearsAndMonths ==
    ASSUME NEW y, NEW m, NEW d
    PROVE  DaysSince1601(y, m, d)
             = 365 * (y - 1601) + ((y - 1601) \div 4) - ((y - 1601) \div 100)
                 + ((y - 1601) \div 400)
                 + (CHOOSE f : f = [k \in 0..m - 1 |->
                        IF k = 0 THEN 0 ELSE f[k - 1] + DaysIn(y, k)])[m - 1]
                 + d - 1
  BY Zenon DEF DaysSince1601

\* The day of a date as the code counts them is that of the calendar.
LEMMA CalendarDay ==
    ASSUME NEW y, NEW m, Agree(y, m), NEW d \in Int,
           NEW x, x = 1980 + y
    PROVE  DaysSince1601(x, m, d)
             = FILETIME_DELTA + YearStart(y) + MonthStarts(y)[m] + d - 1
<1> DEFINE Body(f) == [k \in 0..m - 1 |->
                IF k = 0 THEN 0 ELSE f[k - 1] + DaysIn(x, k)]
           f0 == [k \in 0..m - 1 |-> MonthStarts(y)[k + 1]]
           g == CHOOSE f : f = Body(f)
<1>1. y \in Nat /\ y <= 120 /\ m \in 1..12 /\ m - 1 \in Nat
  BY DEF Agree
<1>2. ASSUME NEW k \in 1..m - 1
      PROVE  MonthStarts(y)[k + 1] = MonthStarts(y)[k] + DaysIn(x, k)
  <2>1. Agree(y, k) /\ k < 12 /\ (y = 120 => k = 1)
    BY <1>1 DEF Agree
  <2>2. MonthStarts(y)[k + 1] = MonthStarts(y)[k] + DaysIn(1980 + y, k)
    BY <2>1, MonthLengths
  <2> QED
    BY <2>2
<1>3. f0 = Body(f0)
  <2>1. ASSUME NEW k \in 0..m - 1
        PROVE  f0[k] = IF k = 0 THEN 0 ELSE f0[k - 1] + DaysIn(x, k)
    <3>1. CASE k = 0
      BY <1>1, <3>1, MonthValues
    <3>2. CASE k # 0
      <4>1. k \in 1..m - 1 /\ k - 1 \in 0..m - 1 /\ (k - 1) + 1 = k
        BY <1>1, <3>2
      <4>2. f0[k] = MonthStarts(y)[k + 1] /\ f0[k - 1] = MonthStarts(y)[k]
        BY <4>1
      <4> QED
        BY <1>2, <3>2, <4>1, <4>2
    <3> QED
      BY <3>1, <3>2
  <2> QED
    BY <2>1
<1>4. g = Body(g)
  <2> DEFINE P(f) == f = Body(f)
  <2>1. P(f0)
    BY <1>3
  <2>2. g = CHOOSE f : P(f)
    OBVIOUS
  <2> HIDE DEF P, g, f0
  <2>3. P(g)
    BY <2>1, <2>2, Zenon
  <2> QED
    BY <2>3 DEF P
<1> HIDE DEF g
<1>5. g[m - 1] = MonthStarts(y)[m]
  <2> DEFINE S == {k \in 0..m - 1 : g[k] = MonthStarts(y)[k + 1]}
  <2>1. 0 \in S
    <3>1. g[0] = 0
      BY <1>1, <1>4
    <3> QED
      BY <1>1, <3>1, MonthValues
  <2>2. ASSUME NEW k \in 1..m - 1, k - 1 \in S PROVE k \in S
    <3>1. k \in 0..m - 1 /\ k # 0 /\ (k - 1) + 1 = k
      BY <1>1
    <3>2. g[k] = g[k - 1] + DaysIn(x, k)
      <4>1. g[k] = Body(g)[k]
        BY <1>4
      <4>2. Body(g)[k] = g[k - 1] + DaysIn(x, k)
        BY <3>1, Zenon
      <4> QED
        BY <4>1, <4>2
    <3>3. g[k - 1] = MonthStarts(y)[k]
      BY <2>2, <3>1
    <3> QED
      BY <1>2, <3>1, <3>2, <3>3
  <2> HIDE DEF S
  <2>3. m - 1 \in S
    BY <1>1, <2>1, <2>2, Induct
  <2> QED
    BY <1>1, <2>3 DEF S
<1> HIDE DEF f0
<1>6. DaysSince1601(x, m, d)
        = 365 * (x - 1601) + ((x - 1601) \div 4)
            - ((x - 1601) \div 100) + ((x - 1601) \div 400)
            + g[m - 1] + d - 1
  BY YearsAndMonths, Zenon DEF g
<1>7. 365 * (x - 1601) + ((x - 1601) \div 4)
            - ((x - 1601) \div 100) + ((x - 1601) \div 400)
        = FILETIME_DELTA + YearStart(y)
  <2>1. ((x - 1601) \div 4) = 94 + ((y + 3) \div 4)
    BY <1>1, Z3
  <2>2. ((x - 1601) \div 400) = ((x - 1601) \div 100) - 3
    BY <1>1, Z3
  <2>3. /\ ((y + 3) \div 4) \in Int
        /\ ((x - 1601) \div 100) \in Int
    BY <1>1, Z3
  <2>4. YearStart(y) = 365 * y + ((y + 3) \div 4)
    BY <1>1, <2>3 DEF YearStart
  <2> QED
    BY <1>1, <2>1, <2>2, <2>3, <2>4, SMT DEF FILETIME_DELTA
<1>8. MonthStarts(y)[m] \in Nat /\ YearStart(y) \in Int
      /\ FILETIME_DELTA \in Nat
  <2>1. FILETIME_DELTA \in Nat
    BY SMT DEF FILETIME_DELTA
  <2> QED
    BY <1>1, <2>1, MonthsRise, YearStartInt
<1> QED
  BY <1>5, <1>6, <1>7, <1>8, SMT

\* The FAT time of a local time.
Days(local) == IF local.day < FILETIME_DELTA THEN FILETIME_DELTA
               ELSE local.day - FILETIME_DELTA
FatOf(local) ==
    LET year == YearOf(Days(local))
        left == Days(local) - YearStart(year)
        month == MonthOf(year, left)
    IN  [year |-> year % 128, month |-> month,
         day |-> 1 + left - MonthStarts(year)[month],
         hour |-> local.sec \div 3600,
         min |-> (local.sec % 3600) \div 60,
         sec |-> (local.sec % 60) \div 2]

LEMMA FatOfLocal ==
    ASSUME NEW t, NEW offset
    PROVE  FTimeToFatTime(t, offset) = FatOf(Moved(t, offset))
  BY Zenon DEF FTimeToFatTime, FatOf, Days

LEMMA DeltaNat == FILETIME_DELTA \in Nat
  BY SMT DEF FILETIME_DELTA

\* Where the loops end: a year, a month and a day of it.
LEMMA DateFound ==
    ASSUME NEW days \in Nat
    PROVE  \E y \in Nat, m \in 1..12 :
             LET left == days - YearStart(y)
             IN  /\ y = YearOf(days) /\ m = MonthOf(y, left)
                 /\ YearStart(y) \in Int /\ left \in Nat
                 /\ MonthStarts(y)[m] \in Nat /\ MonthStarts(y)[m] <= left
                 /\ m < 12 => left < MonthStarts(y)[m + 1]
                 /\ left <= 365
                 /\ (y % 4) # 0 => left <= 364
                 /\ 365 * y <= days
<1> DEFINE y == YearOf(days)
           left == days - YearStart(y)
           m == MonthOf(y, left)
<1>1. /\ y \in Nat /\ YearStart(y) <= days /\ days < YearStart(y + 1)
  BY YearFound
<1> HIDE DEF y
<1>2. YearStart(y) \in Int /\ YearStart(y + 1) \in Int
  BY <1>1, YearStartInt, y + 1 \in Nat
<1>3. /\ 365 * y <= YearStart(y)
      /\ YearStart(y + 1) - YearStart(y)
           = 365 + (IF y % 4 = 0 THEN 1 ELSE 0)
                 - (IF y = 120 THEN 1 ELSE 0)
  BY <1>1, YearStartInt
<1>4. /\ left \in Nat /\ left <= 365 /\ ((y % 4) # 0 => left <= 364)
      /\ 365 * y <= days
  BY <1>1, <1>2, <1>3
<1> HIDE DEF left
<1>5. /\ m \in 1..12 /\ MonthStarts(y)[m] <= left
      /\ (m < 12 => left < MonthStarts(y)[m + 1])
  BY <1>1, <1>4, MonthFound
<1>6. MonthStarts(y)[m] \in Nat
  BY <1>1, <1>5, MonthsRise
<1>7. m \in 1..12 /\ y = YearOf(days) /\ m = MonthOf(y, days - YearStart(y))
  BY <1>5 DEF y, left, m
<1> HIDE DEF m
<1> QED
  BY <1>1, <1>2, <1>4, <1>5, <1>6, <1>7 DEF left

\* Hours, minutes and two seconds.
LEMMA ClockFields ==
    ASSUME NEW s \in Nat
    PROVE  LET h == s \div 3600
               n == (s % 3600) \div 60
               d == (s % 60) \div 2
               e == s - (s % 2)
           IN  /\ h \in Nat /\ n \in Nat /\ d \in Nat /\ e \in Nat
               /\ e <= s
               /\ 3600 * h + 60 * n + 2 * d = e
               /\ e \div 3600 = h /\ (e % 3600) \div 60 = n
               /\ (e % 60) \div 2 = d
<1> DEFINE h == s \div 3600
           u == s % 3600
           n == u \div 60
           v == s % 60
           d == v \div 2
<1>1. h \in Nat /\ u \in Nat /\ u < 3600 /\ s = 3600 * h + u
  BY Z3
<1>2. v \in Nat /\ v < 60
  BY Z3
<1>3. n \in Nat /\ n < 60 /\ u = 60 * n + (u % 60)
  <2> HIDE DEF u
  <2> QED
    BY <1>1, Z3
<1>4. (u % 60) = v
  BY Z3
<1>5. u = 60 * n + v
  BY <1>3, <1>4
<1>6. d \in Nat /\ d < 30 /\ v = 2 * d + (v % 2)
  <2> HIDE DEF v
  <2> QED
    BY <1>2, Z3
<1>7. (v % 2) = (s % 2)
  BY Z3
<1> DEFINE e == s - (s % 2)
<1>8. (s % 2) \in 0..1
  BY Z3
<1> HIDE DEF h, u, n, v, d
<1>9. e = 3600 * h + 60 * n + 2 * d /\ e \in Nat /\ e <= s
  <2> DEFINE b == s % 2
  <2>1. b \in 0..1 /\ v = 2 * d + b
    BY <1>6, <1>7, <1>8
  <2> HIDE DEF b
  <2>2. s - b = 3600 * h + 60 * n + 2 * d
    BY <1>1, <1>3, <1>5, <1>6, <2>1
  <2>3. s - b \in Nat /\ s - b <= s
    BY <1>1, <1>3, <1>6, <2>1, <2>2
  <2> QED
    BY <2>2, <2>3 DEF b
<1> HIDE DEF e
<1>10. (e \div 3600) = h /\ (e % 3600) = 60 * n + 2 * d
  <2> DEFINE w == 60 * n + 2 * d
  <2>1. w < 3600 /\ w \in Nat /\ e = 3600 * h + w
    BY <1>1, <1>3, <1>6, <1>9
  <2> HIDE DEF w
  <2>2. (e \div 3600) = h /\ (e % 3600) = w
    BY <1>1, <2>1, Z3
  <2> QED
    BY <2>2 DEF w
<1>11. ((60 * n + 2 * d) \div 60) = n
  BY <1>3, <1>6, Z3
<1>12. (e % 60) = 2 * d
  BY <1>1, <1>3, <1>6, <1>9, Z3
<1>13. ((2 * d) \div 2) = d
  BY <1>6, Z3
<1> QED
  BY <1>1, <1>3, <1>6, <1>9, <1>10, <1>11, <1>12, <1>13 DEF h, u, n, v, d, e

\* From 1980 to the end of February 2100 the loops give the year, the month
\* and the day that the calendar has.
LEMMA DateInRange ==
    ASSUME NEW days \in Nat, days <= YearStart(120) + 58
    PROVE  \E y, m :
             LET left == days - YearStart(y)
             IN  /\ Agree(y, m) /\ y = YearOf(days) /\ m = MonthOf(y, left)
                 /\ YearStart(y) \in Int /\ left \in Nat
                 /\ MonthStarts(y)[m] \in Nat /\ MonthStarts(y)[m] <= left
                 /\ 1 + left - MonthStarts(y)[m] <= DaysIn(1980 + y, m)
<1>1. PICK y \in Nat, m \in 1..12 :
          /\ y = YearOf(days) /\ m = MonthOf(y, days - YearStart(y))
          /\ YearStart(y) \in Int /\ days - YearStart(y) \in Nat
          /\ MonthStarts(y)[m] \in Nat
          /\ MonthStarts(y)[m] <= days - YearStart(y)
          /\ m < 12 => days - YearStart(y) < MonthStarts(y)[m + 1]
          /\ days - YearStart(y) <= 365
          /\ (y % 4) # 0 => days - YearStart(y) <= 364
          /\ 365 * y <= days
  BY DateFound, Zenon
<1> DEFINE left == days - YearStart(y)
<1>2. YearStart(120) = 43830
  <2>1. ((120 + 3) \div 4) = 30
    BY Z3
  <2> QED
    BY <2>1, SMT DEF YearStart
<1>3. y <= 120 /\ (y = 120 => left <= 58)
  BY <1>1, <1>2, SMT
<1>4. y = 120 => m <= 2
  <2> SUFFICES ASSUME y = 120, 3 <= m PROVE FALSE
    BY <1>1
  <2>1. MonthStarts(y)[3] = 59 + Leap(y) /\ Leap(y) = 1
    <3>1. (120 % 4) = 0
      BY Z3
    <3> QED
      BY <3>1, MonthValues, LeapIs
  <2>2. MonthStarts(y)[3] <= MonthStarts(y)[m]
    BY <1>1, MonthsRise
  <2> QED
    BY <1>1, <1>3, <2>1, <2>2
<1>5. Agree(y, m)
  BY <1>1, <1>3, <1>4 DEF Agree
<1>6. 1 + left - MonthStarts(y)[m] <= DaysIn(1980 + y, m)
  <2> DEFINE s == MonthStarts(y)
             d == DaysIn(1980 + y, m)
  <2>1. m < 12 /\ (y = 120 => m = 1) => s[m + 1] = s[m] + d
    BY <1>5, MonthLengths
  <2>2. CASE m < 12 /\ (y = 120 => m = 1)
    <3>1. m + 1 \in 1..12
      BY <1>1, <2>2
    <3>2. s[m + 1] \in Nat /\ s[m] \in Nat
      BY <1>1, <3>1, MonthsRise
    <3>3. d \in Int
      <4>1. d \in {28, 29, 30, 31}
        BY <1>1 DEF DaysIn
      <4> QED
        BY <4>1
    <3>4. left < s[m] + d /\ left \in Nat
      BY <1>1, <2>1, <2>2
    <3> HIDE DEF s, d, left
    <3>5. 1 + left - s[m] <= d
      BY <3>2, <3>3, <3>4
    <3> QED
      BY <3>5 DEF s, d
  <2>3. CASE y = 120 /\ m = 2
    <3>1. s[2] = 31 /\ d = 28
      BY <1>1, <1>5, <2>3, MonthLengths, MonthValues
    <3> QED
      BY <1>1, <1>3, <2>3, <3>1
  <2>4. CASE m = 12
    <3>1. s[12] = 334 + Leap(y) /\ d = 31
      BY <1>5, <2>4, MonthLengths, MonthValues
    <3>2. Leap(y) \in 0..1 /\ (Leap(y) = 1 <=> (y % 4) = 0)
      BY LeapIs
    <3>3. left \in Nat /\ left <= 365 /\ (Leap(y) = 0 => left <= 364)
      BY <1>1, <3>2
    <3> HIDE DEF left, s, d
    <3>4. 1 + left - s[m] <= d
      BY <2>4, <3>1, <3>2, <3>3
    <3> QED
      BY <3>4 DEF left, s, d
  <2> QED
    BY <1>1, <1>4, <2>2, <2>3, <2>4
<1> QED
  BY <1>1, <1>5, <1>6

\* A time that a listing shows: on the calendar, and on the way back.
LEMMA CalendarTime ==
    ASSUME NEW t \in Clocks, NEW offset \in Int,
           Moved(t, offset).day \in
               DaysSince1601(1980, 1, 1)..DaysSince1601(2100, 2, 28)
    PROVE  LET f == FTimeToFatTime(t, offset)
               local == Moved(t, offset)
           IN  /\ DaysSince1601(1980 + f.year, f.month, f.day) = local.day
               /\ f.day <= DaysIn(1980 + f.year, f.month)
               /\ 3600 * f.hour + 60 * f.min + 2 * f.sec
                    = local.sec - (local.sec % 2)
               /\ FTimeToFatTime(FatTimeToFTime(f, offset), offset) = f
<1> DEFINE local == Moved(t, offset)
           days == local.day - FILETIME_DELTA
           s == local.sec
<1>1. local \in Clocks
  BY MovedClock
<1>2. local.day \in Int /\ s \in Nat /\ s <= SECSPERDAY - 1
  BY <1>1, DayLength DEF Clocks
<1>3. /\ DaysSince1601(1980, 1, 1) = FILETIME_DELTA
      /\ DaysSince1601(2100, 2, 28) = FILETIME_DELTA + YearStart(120) + 58
  <2>1. DaysSince1601(1980, 1, 1)
          = FILETIME_DELTA + YearStart(0) + MonthStarts(0)[1] + 1 - 1
    BY CalendarDay, Agree(0, 1), 1980 = 1980 + 0 DEF Agree
  <2>2. DaysSince1601(2100, 2, 28)
          = FILETIME_DELTA + YearStart(120) + MonthStarts(120)[2] + 28 - 1
    BY CalendarDay, Agree(120, 2), 2100 = 1980 + 120 DEF Agree
  <2>3. YearStart(0) = 0 /\ YearStart(120) \in Int
    <3>1. ((0 + 3) \div 4) = 0
      BY Z3
    <3> QED
      BY <3>1, YearStartInt DEF YearStart
  <2>4. MonthStarts(0)[1] = 0 /\ MonthStarts(120)[2] = 31
    BY MonthValues
  <2> QED
    BY <2>1, <2>2, <2>3, <2>4, DeltaNat
<1>4. /\ days \in Nat /\ days <= YearStart(120) + 58 /\ Days(local) = days
      /\ local.day = FILETIME_DELTA + days
  <2>1. YearStart(120) \in Int
    BY YearStartInt
  <2> HIDE DEF local
  <2>2. /\ FILETIME_DELTA <= local.day
        /\ local.day <= FILETIME_DELTA + YearStart(120) + 58
    BY <1>2, <1>3, <2>1, DeltaNat DEF local
  <2> QED
    BY <1>2, <2>1, <2>2, DeltaNat DEF Days
<1> HIDE DEF local, days
<1>5. PICK y, m :
          /\ Agree(y, m) /\ y = YearOf(days)
          /\ m = MonthOf(y, days - YearStart(y))
          /\ YearStart(y) \in Int /\ days - YearStart(y) \in Nat
          /\ MonthStarts(y)[m] \in Nat
          /\ MonthStarts(y)[m] <= days - YearStart(y)
          /\ 1 + (days - YearStart(y)) - MonthStarts(y)[m]
               <= DaysIn(1980 + y, m)
  BY <1>4, DateInRange
<1> DEFINE d == 1 + (days - YearStart(y)) - MonthStarts(y)[m]
           h == s \div 3600
           n == (s % 3600) \div 60
           c == (s % 60) \div 2
           e == s - (s % 2)
           f == [year |-> y, month |-> m, day |-> d,
                 hour |-> h, min |-> n, sec |-> c]
<1>6. FTimeToFatTime(t, offset) = f
  <2>1. (y % 128) = y
    <3>1. y \in Nat /\ y <= 120
      BY <1>5 DEF Agree
    <3> QED
      BY <3>1, Z3
  <2>2. FatOf(local) = [f EXCEPT !.year = y % 128]
    BY <1>4, <1>5 DEF FatOf
  <2> QED
    BY <2>1, <2>2, FatOfLocal DEF local
<1>7. y \in Nat /\ y <= 120 /\ m \in 1..12 /\ d \in Int
  BY <1>5, <1>4 DEF Agree
<1>8. DaysSince1601(1980 + y, m, d) = local.day
  <2>1. DaysSince1601(1980 + y, m, d)
          = FILETIME_DELTA + YearStart(y) + MonthStarts(y)[m] + d - 1
    BY <1>5, <1>7, CalendarDay
  <2> QED
    BY <1>4, <1>5, <2>1, DeltaNat
<1>9. /\ h \in Nat /\ n \in Nat /\ c \in Nat /\ e \in Nat /\ e <= s
      /\ 3600 * h + 60 * n + 2 * c = e
      /\ (e \div 3600) = h /\ ((e % 3600) \div 60) = n
      /\ ((e % 60) \div 2) = c
  <2> HIDE DEF s
  <2> QED
    BY <1>2, ClockFields, SMT
<1> HIDE DEF d, h, n, c, e
<1> DEFINE there == [day |-> local.day, sec |-> e]
<1>10. FatInstant(f) = there
  <2>1. FILETIME_DELTA + 365 * y + ((y + 3) \div 4) + d - 1
            + MonthStarts(y)[m] = local.day
    <3>1. YearStart(y) = 365 * y + ((y + 3) \div 4)
             /\ ((y + 3) \div 4) \in Int
      <4>1. ((y + 3) \div 4) \in Int
        BY <1>7, Z3
      <4> QED
        BY <1>7, <4>1 DEF YearStart
    <3> QED
      BY <1>4, <1>5, <1>7, <3>1, DeltaNat DEF d
  <2> QED
    BY <1>9, <2>1 DEF FatInstant
<1>11. there \in Clocks
  <2>1. e \in 0..SECSPERDAY - 1
    BY <1>2, <1>9, DayLength
  <2> QED
    BY <1>2, <2>1 DEF Clocks
<1>12. FTimeToFatTime(FatTimeToFTime(f, offset), offset) = FatOf(there)
  <2>1. Moved(FatTimeToFTime(f, offset), offset) = there
    BY <1>10, <1>11, MovedBack DEF FatTimeToFTime
  <2> QED
    BY <2>1, FatOfLocal
<1>13. FatOf(there) = f
  <2>1. Days(there) = days
    BY <1>4 DEF Days
  <2>2. FatOf(there) = [f EXCEPT !.year = y % 128]
    BY <1>5, <1>9, <2>1 DEF FatOf, d
  <2>3. (y % 128) = y
    BY <1>7, Z3
  <2> QED
    BY <2>2, <2>3
<1>14. d <= DaysIn(1980 + y, m)
  BY <1>5 DEF d
<1> HIDE DEF there
<1> QED
  BY <1>6, <1>8, <1>9, <1>12, <1>13, <1>14 DEF e, local

LEMMA DaysBack ==
    ASSUME NEW x \in Int, NEW q \in Int, NEW r \in Int,
           x = SECSPERDAY * q + r, r <= SECSPERDAY - 1, -SECSPERDAY <= x
    PROVE  -2 <= q
  BY SMT DEF SECSPERDAY

\* A file keeps a time of the host when it is given that of another one.
LEMMA CopiedTime ==
    ASSUME NEW t \in FTime, NEW offset \in -SECSPERDAY..SECSPERDAY
    PROVE  FatTimeToFTime(FTimeToFatTime(t, offset), offset) \in FTime
<1> DEFINE local == Moved(t, offset)
           s == local.sec
           days == Days(local)
<1>1. offset \in Int /\ -SECSPERDAY <= offset /\ offset <= SECSPERDAY
  BY DayLength
<1>2. local \in Clocks
  <2>1. t \in Clocks
    BY DayLength DEF FTime, Clocks
  <2> QED
    BY <1>1, <2>1, MovedClock
<1>3. local.day \in Int /\ s \in Nat /\ s <= SECSPERDAY - 1
  BY <1>2, DayLength DEF Clocks
<1> HIDE DEF local
<1>4. days \in Nat
  BY <1>3, DeltaNat DEF Days
<1> HIDE DEF days
<1>5. PICK y \in Nat, m \in 1..12 :
          /\ y = YearOf(days) /\ m = MonthOf(y, days - YearStart(y))
          /\ YearStart(y) \in Int /\ days - YearStart(y) \in Nat
          /\ MonthStarts(y)[m] \in Nat
          /\ MonthStarts(y)[m] <= days - YearStart(y)
  BY <1>4, DateFound, Zenon
<1> DEFINE d == 1 + (days - YearStart(y)) - MonthStarts(y)[m]
           h == s \div 3600
           n == (s % 3600) \div 60
           c == (s % 60) \div 2
           e == s - (s % 2)
           yy == y % 128
           f == [year |-> yy, month |-> m, day |-> d,
                 hour |-> h, min |-> n, sec |-> c]
<1>6. FTimeToFatTime(t, offset) = f
  <2>1. FatOf(local) = f
    BY <1>5 DEF FatOf, days
  <2> QED
    BY <2>1, FatOfLocal DEF local
<1>7. yy \in Nat /\ d \in Int /\ 1 <= d
  <2>1. yy \in Nat
    BY <1>5, Z3
  <2>2. d \in Int /\ 1 <= d
    BY <1>4, <1>5
  <2> QED
    BY <2>1, <2>2
<1>8. /\ h \in Nat /\ n \in Nat /\ c \in Nat /\ e \in Nat /\ e <= s
      /\ 3600 * h + 60 * n + 2 * c = e
  <2> HIDE DEF s
  <2> QED
    BY <1>3, ClockFields, SMT
<1> HIDE DEF d, h, n, c, e, yy
<1> DEFINE day == FILETIME_DELTA + 365 * yy + ((yy + 3) \div 4) + d - 1
                    + MonthStarts(yy)[m]
           there == [day |-> day, sec |-> e]
<1>9. FatInstant(f) = there
  BY <1>8 DEF FatInstant
<1>10. day \in Nat /\ 2 <= day
  <2>1. ((yy + 3) \div 4) \in Nat
    BY <1>7, Z3
  <2>2. MonthStarts(yy)[m] \in Nat
    BY <1>5, <1>7, MonthsRise
  <2>3. FILETIME_DELTA \in Nat /\ 2 <= FILETIME_DELTA
    BY SMT DEF FILETIME_DELTA
  <2> QED
    BY <1>7, <2>1, <2>2, <2>3
<1> HIDE DEF day
<1> DEFINE x == e + (-offset)
<1>11. /\ x \in Int /\ (x \div SECSPERDAY) \in Int
       /\ (x % SECSPERDAY) \in 0..SECSPERDAY - 1
       /\ x = SECSPERDAY * (x \div SECSPERDAY) + (x % SECSPERDAY)
  <2>1. x \in Int
    BY <1>1, <1>8
  <2> HIDE DEF x
  <2> QED
    BY <2>1, DivMod
<1>12. -2 <= (x \div SECSPERDAY)
  <2> DEFINE q == x \div SECSPERDAY
             r == x % SECSPERDAY
  <2>1. r \in Int /\ r <= SECSPERDAY - 1 /\ q \in Int
        /\ x = SECSPERDAY * q + r /\ -SECSPERDAY <= x
    BY <1>1, <1>8, <1>11, DayLength
  <2> HIDE DEF q, r, x
  <2>2. -2 <= q
    BY <1>11, <2>1, DaysBack
  <2> QED
    BY <2>2 DEF q
<1>13. Moved(there, -offset)
         = [day |-> day + (x \div SECSPERDAY), sec |-> x % SECSPERDAY]
  BY DEF Moved
<1>14. day + (x \div SECSPERDAY) \in Nat
  <2> HIDE DEF x
  <2> QED
    BY <1>10, <1>11, <1>12
<1>15. Moved(there, -offset) \in FTime
  <2> HIDE DEF x, there
  <2> QED
    BY <1>11, <1>13, <1>14 DEF FTime
<1> QED
  BY <1>6, <1>9, <1>15 DEF FatTimeToFTime

-----------------------------------------------------------------------------
(* The components of a path.                                               *)

SizeOf(path, f) ==
    f = [k \in 0..Len(path) |->
            IF k = 0 THEN 0 ELSE f[k - 1] + 1 + Len(path[k])]

Paths == Seq(Name)

LEMMA Names1 ==
    ASSUME NEW path \in Paths
    PROVE  /\ Len(path) \in Nat /\ DOMAIN path = 1..Len(path)
           /\ \A k \in 1..Len(path) : path[k] \in Name /\ Len(path[k]) \in Nat
<1>1. \A k \in 1..Len(path) : path[k] \in Name
  BY DEF Paths
<1>2. ASSUME NEW name \in Name PROVE Len(name) \in Nat
  BY DEF Name
<1> QED
  BY <1>1, <1>2 DEF Paths

\* Size is what its local function says.
LEMMA SizeIs ==
    ASSUME NEW path \in Paths
    PROVE  \E f \in [0..Len(path) -> Nat] :
               SizeOf(path, f) /\ Size(path) = f[Len(path)]
<1> DEFINE n == Len(path)
           F == [p \in (1..n) \X Nat |-> p[2] + 1 + Len(path[p[1]])]
           g == CHOOSE f : SizeOf(path, f)
<1>1. n \in Nat /\ \A k \in 1..n : Len(path[k]) \in Nat
  BY Names1
<1>2. ASSUME NEW k \in 1..n, NEW s \in Nat
      PROVE  F[<<k, s>>] = s + 1 + Len(path[k])
  <2> HIDE DEF n
  <2>1. <<k, s>> \in (1..n) \X Nat
    OBVIOUS
  <2> QED
    BY <2>1
<1>3. F \in [(1..n) \X Nat -> Nat]
  <2>1. ASSUME NEW p \in (1..n) \X Nat
        PROVE  p[2] + 1 + Len(path[p[1]]) \in Nat
    <3>1. p[1] \in 1..n /\ p[2] \in Nat
      OBVIOUS
    <3>2. Len(path[p[1]]) \in Nat
      BY <1>1, <3>1
    <3> HIDE DEF n
    <3> QED
      BY <3>1, <3>2
  <2> HIDE DEF n
  <2> QED
    BY <2>1
<1>4. Size(path) = g[n]
  BY Zenon DEF Size, SizeOf
<1> HIDE DEF F, n
<1>5. PICK f \in [0..n -> Nat] : Iterates(f, n, 0, F)
  BY <1>1, <1>3, Recursion
<1>6. SizeOf(path, f)
  <2>1. ASSUME NEW k \in 0..n
        PROVE  f[k] = IF k = 0 THEN 0 ELSE f[k - 1] + 1 + Len(path[k])
    <3>1. CASE k = 0
      BY <1>5, <3>1 DEF Iterates
    <3>2. CASE k # 0
      <4>1. k \in 1..n /\ k - 1 \in 0..n
        BY <1>1, <3>2
      <4>2. f[k] = F[<<k, f[k - 1]>>] /\ f[k - 1] \in Nat
        BY <1>5, <4>1 DEF Iterates
      <4> QED
        BY <1>2, <3>2, <4>1, <4>2
    <3> QED
      BY <3>1, <3>2
  <2>2. f = [k \in 0..n |-> f[k]]
    BY <1>5
  <2> QED
    BY <2>1, <2>2 DEF SizeOf, n
<1>7. SizeOf(path, g)
  BY <1>6, Zenon
<1> HIDE DEF g
<1>8. ASSUME NEW k \in 0..n PROVE g[k] = f[k]
  <2> DEFINE S == {l \in 0..n : g[l] = f[l]}
  <2>1. 0 \in S
    <3>1. g[0] = 0 /\ f[0] = 0
      BY <1>1, <1>6, <1>7 DEF SizeOf, n
    <3> QED
      BY <1>1, <3>1
  <2>2. ASSUME NEW l \in 1..n, l - 1 \in S PROVE l \in S
    <3>1. l \in 0..n /\ l # 0
      BY <1>1
    <3>2. g[l] = g[l - 1] + 1 + Len(path[l])
      BY <1>7, <3>1 DEF SizeOf, n
    <3>3. f[l] = f[l - 1] + 1 + Len(path[l])
      BY <1>6, <3>1 DEF SizeOf, n
    <3> QED
      BY <2>2, <3>1, <3>2, <3>3
  <2> HIDE DEF S
  <2>3. k \in S
    BY <1>1, <2>1, <2>2, Induct
  <2> QED
    BY <2>3 DEF S
<1>9. Size(path) = f[n]
  BY <1>1, <1>4, <1>8
<1> QED
  BY <1>5, <1>6, <1>9 DEF n

LEMMA SizeNat ==
    ASSUME NEW path \in Paths
    PROVE  Size(path) \in Nat
<1>1. PICK f \in [0..Len(path) -> Nat] : Size(path) = f[Len(path)]
  BY SizeIs
<1> QED
  BY <1>1, Names1

LEMMA SizeEmpty == Size(<<>>) = 0
<1>1. <<>> \in Paths /\ Len(<<>>) = 0
  BY EmptySeq DEF Paths
<1>2. PICK f \in [0..Len(<<>>) -> Nat] :
          SizeOf(<<>>, f) /\ Size(<<>>) = f[Len(<<>>)]
  BY <1>1, SizeIs
<1> QED
  BY <1>1, <1>2 DEF SizeOf

LEMMA SizeAppend ==
    ASSUME NEW path \in Paths, NEW name \in Name
    PROVE  /\ Append(path, name) \in Paths
           /\ Size(Append(path, name)) = Size(path) + 1 + Len(name)
<1> DEFINE p == Append(path, name)
           n == Len(path)
<1>1. /\ p \in Paths /\ Len(p) = n + 1 /\ n \in Nat
      /\ p[n + 1] = name /\ \A k \in 1..n : p[k] = path[k]
  BY AppendProperties, Names1 DEF Paths
<1>2. PICK f \in [0..n -> Nat] : SizeOf(path, f) /\ Size(path) = f[n]
  BY SizeIs
<1>3. PICK g \in [0..n + 1 -> Nat] : SizeOf(p, g) /\ Size(p) = g[n + 1]
  BY <1>1, SizeIs
<1> HIDE DEF p, n
<1>4. g[n] = f[n]
  <2> DEFINE S == {k \in 0..n : g[k] = f[k]}
  <2>1. 0 \in S
    <3>1. g[0] = 0 /\ f[0] = 0
      BY <1>1, <1>2, <1>3 DEF SizeOf, n
    <3> QED
      BY <1>1, <3>1
  <2>2. ASSUME NEW k \in 1..n, k - 1 \in S PROVE k \in S
    <3>1. k \in 0..n /\ k \in 0..n + 1 /\ k # 0
      BY <1>1
    <3>2. f[k] = f[k - 1] + 1 + Len(path[k])
      BY <1>2, <3>1 DEF SizeOf, n
    <3>3. g[k] = g[k - 1] + 1 + Len(p[k])
      BY <1>1, <1>3, <3>1 DEF SizeOf
    <3> QED
      BY <1>1, <2>2, <3>1, <3>2, <3>3
  <2> HIDE DEF S
  <2>3. \A k \in 0..n : k \in S
    BY <1>1, <2>1, <2>2, Induct
  <2>4. n \in S
    BY <1>1, <2>3
  <2> QED
    BY <2>4 DEF S
<1>5. g[n + 1] = g[n] + 1 + Len(p[n + 1])
  <2>1. n + 1 \in 0..Len(p) /\ n + 1 # 0 /\ (n + 1) - 1 = n
    BY <1>1
  <2> QED
    BY <1>3, <2>1 DEF SizeOf
<1> QED
  BY <1>1, <1>2, <1>3, <1>4, <1>5 DEF p

-----------------------------------------------------------------------------
(* The host.                                                               *)

HostPaths == IsFiniteSet(DOMAIN host) /\ DOMAIN host \subseteq Paths

LEMMA KidsAre ==
    ASSUME HostPaths, NEW path
    PROVE  Kids(path) \subseteq Name /\ IsFiniteSet(Kids(path))
<1> DEFINE Q == {q \in DOMAIN host : q # <<>> /\ Front1(q) = path}
           f == [q \in Q |-> q[Len(q)]]
<1>1. Kids(path) = {q[Len(q)] : q \in Q}
  BY Zenon DEF Kids
<1>2. ASSUME NEW q \in Q PROVE q[Len(q)] \in Name
  <2>1. q \in Paths /\ q # <<>>
    BY DEF HostPaths
  <2>2. Len(q) \in 1..Len(q)
    BY <2>1, EmptySeq DEF Paths
  <2> QED
    BY <2>1, <2>2, Names1
<1>3. IsFiniteSet(Q)
  BY FS_Subset DEF HostPaths
<1> HIDE DEF Q
<1>4. IsFiniteSet({q[Len(q)] : q \in Q})
  <2>1. f \in Surjection(Q, {q[Len(q)] : q \in Q})
    BY DEF Surjection
  <2> HIDE DEF f
  <2> QED
    BY <1>3, <2>1, FS_Surjection, Zenon
<1> QED
  BY <1>1, <1>2, <1>4

\* The host finds or makes one component below the last one.
LEMMA ChildIs ==
    ASSUME HostPaths, NEW path \in Paths, NEW name \in Name
    PROVE  /\ Child(path, name) \in Paths
           /\ Len(Child(path, name)) = Len(path) + 1
<1> DEFINE same == {c \in Kids(path) : path # <<>> /\ Fold(c) = Fold(name)}
<1>1. ASSUME NEW c \in Name
      PROVE  Append(path, c) \in Paths /\ Len(Append(path, c)) = Len(path) + 1
  BY AppendProperties DEF Paths
<1>2. same # {} => (CHOOSE c \in same : TRUE) \in Name
  <2>1. same \subseteq Name
    BY KidsAre
  <2> HIDE DEF same
  <2> QED
    BY <2>1
<1>3. Child(path, name) = IF name \in Kids(path) \/ same = {}
                          THEN Append(path, name)
                          ELSE Append(path, CHOOSE c \in same : TRUE)
  BY Zenon DEF Child
<1> HIDE DEF same
<1> QED
  BY <1>1, <1>2, <1>3

ResolveOf(path, f) ==
    f = [k \in 0..Len(path) |->
            IF k = 0 THEN <<>> ELSE Child(f[k - 1], path[k])]

\* Resolve is what its local function says.
LEMMA ResolveIs ==
    ASSUME HostPaths, NEW path \in Paths
    PROVE  /\ Resolve(path) \in Paths /\ Len(Resolve(path)) = Len(path)
           /\ \E f \in [0..Len(path) -> Paths] :
                ResolveOf(path, f) /\ Resolve(path) = f[Len(path)]
<1> DEFINE n == Len(path)
           F == [p \in (1..n) \X Paths |-> Child(p[2], path[p[1]])]
           Body(f) == [k \in 0..n |->
                         IF k = 0 THEN <<>> ELSE Child(f[k - 1], path[k])]
           P(f) == f = Body(f)
           g == CHOOSE f : P(f)
<1>1. n \in Nat /\ \A k \in 1..n : path[k] \in Name
  BY Names1
<1>2. Resolve(path) = g[n]
  BY Zenon DEF Resolve
<1> HIDE DEF n
<1>3. F \in [(1..n) \X Paths -> Paths]
  <2>1. ASSUME NEW p \in (1..n) \X Paths
        PROVE  Child(p[2], path[p[1]]) \in Paths
    <3>1. p[1] \in 1..n /\ p[2] \in Paths
      OBVIOUS
    <3>2. path[p[1]] \in Name
      BY <1>1, <3>1
    <3> QED
      BY <3>1, <3>2, ChildIs
  <2> QED
    BY <2>1
<1>4. ASSUME NEW k \in 1..n, NEW p \in Paths
      PROVE  F[<<k, p>>] = Child(p, path[k])
  <2>1. <<k, p>> \in (1..n) \X Paths
    OBVIOUS
  <2> QED
    BY <2>1
<1> HIDE DEF F
<1>5. PICK f \in [0..n -> Paths] : Iterates(f, n, <<>>, F)
  <2>1. <<>> \in Paths
    BY EmptySeq DEF Paths
  <2> QED
    BY <1>1, <1>3, <2>1, Recursion
<1>6. P(f)
  <2>1. ASSUME NEW k \in 0..n
        PROVE  f[k] = IF k = 0 THEN <<>> ELSE Child(f[k - 1], path[k])
    <3>1. CASE k = 0
      BY <1>5, <3>1 DEF Iterates
    <3>2. CASE k # 0
      <4>1. k \in 1..n /\ k - 1 \in 0..n
        BY <1>1, <3>2
      <4>2. f[k] = F[<<k, f[k - 1]>>] /\ f[k - 1] \in Paths
        BY <1>5, <4>1 DEF Iterates
      <4> QED
        BY <1>4, <3>2, <4>1, <4>2
    <3> QED
      BY <3>1, <3>2
  <2>2. f = [k \in 0..n |-> f[k]]
    BY <1>5
  <2> QED
    BY <2>1, <2>2
<1>7. P(g)
  <2> HIDE DEF P
  <2> QED
    BY <1>6, Zenon
<1> HIDE DEF g
<1> DEFINE S == {k \in 0..n : g[k] \in Paths /\ Len(g[k]) = k}
<1>8. 0 \in S
  <2>1. g[0] = <<>>
    BY <1>1, <1>7
  <2>2. g[0] \in Paths /\ Len(g[0]) = 0
    BY <2>1, EmptySeq DEF Paths
  <2> QED
    BY <1>1, <2>2
<1>9. ASSUME NEW k \in 1..n, k - 1 \in S PROVE k \in S
  <2>1. k \in 0..n /\ k # 0 /\ g[k - 1] \in Paths /\ Len(g[k - 1]) = k - 1
    BY <1>1, <1>9
  <2>2. g[k] = Child(g[k - 1], path[k])
    <3>1. g[k] = Body(g)[k]
      BY <1>7
    <3>2. Body(g)[k] = Child(g[k - 1], path[k])
      BY <2>1, Zenon
    <3> QED
      BY <3>1, <3>2
  <2>3. g[k] \in Paths /\ Len(g[k]) = (k - 1) + 1
    BY <1>1, <2>1, <2>2, ChildIs
  <2> QED
    BY <2>1, <2>3
<1> HIDE DEF S
<1>10. \A k \in 0..n : k \in S
  BY <1>1, <1>8, <1>9, Induct
<1>11. n \in S
  BY <1>1, <1>10
<1>12. g \in [0..n -> Paths]
  <2>1. \A k \in 0..n : g[k] \in Paths
    BY <1>10 DEF S
  <2>2. g = Body(g)
    BY <1>7
  <2>3. g = [k \in 0..n |-> g[k]]
    BY <2>2
  <2> HIDE DEF Body
  <2> QED
    BY <2>1, <2>3
<1>13. ResolveOf(path, g)
  BY <1>7 DEF ResolveOf, n
<1> HIDE DEF P, Body
<1> QED
  BY <1>2, <1>11, <1>12, <1>13 DEF S, n

LEMMA ResolveEmpty ==
    ASSUME HostPaths
    PROVE  Resolve(<<>>) = <<>>
<1>1. <<>> \in Paths /\ Len(<<>>) = 0
  BY EmptySeq DEF Paths
<1>2. PICK f \in [0..Len(<<>>) -> Paths] :
          ResolveOf(<<>>, f) /\ Resolve(<<>>) = f[Len(<<>>)]
  BY <1>1, ResolveIs
<1>3. f[0] = <<>>
  BY <1>1, <1>2 DEF ResolveOf
<1> QED
  BY <1>1, <1>2, <1>3

LEMMA ResolveAppend ==
    ASSUME HostPaths, NEW path \in Paths, NEW name \in Name
    PROVE  Resolve(Append(path, name)) = Child(Resolve(path), name)
<1> DEFINE p == Append(path, name)
           n == Len(path)
<1>1. /\ p \in Paths /\ Len(p) = n + 1 /\ n \in Nat
      /\ p[n + 1] = name /\ \A k \in 1..n : p[k] = path[k]
  BY AppendProperties, Names1 DEF Paths
<1>2. PICK f \in [0..n -> Paths] : ResolveOf(path, f) /\ Resolve(path) = f[n]
  BY ResolveIs
<1>3. PICK g \in [0..n + 1 -> Paths] : ResolveOf(p, g)
                                         /\ Resolve(p) = g[n + 1]
  BY <1>1, ResolveIs
<1> HIDE DEF p, n
<1>4. g[n] = f[n]
  <2> DEFINE S == {k \in 0..n : g[k] = f[k]}
  <2>1. 0 \in S
    <3>1. g[0] = <<>> /\ f[0] = <<>>
      BY <1>1, <1>2, <1>3 DEF ResolveOf, n
    <3> QED
      BY <1>1, <3>1
  <2>2. ASSUME NEW k \in 1..n, k - 1 \in S PROVE k \in S
    <3>1. k \in 0..n /\ k \in 0..n + 1 /\ k # 0
      BY <1>1
    <3>2. f[k] = Child(f[k - 1], path[k])
      BY <1>2, <3>1 DEF ResolveOf, n
    <3>3. g[k] = Child(g[k - 1], p[k])
      BY <1>1, <1>3, <3>1 DEF ResolveOf
    <3> QED
      BY <1>1, <2>2, <3>1, <3>2, <3>3
  <2> HIDE DEF S
  <2>3. \A k \in 0..n : k \in S
    BY <1>1, <2>1, <2>2, Induct
  <2>4. n \in S
    BY <1>1, <2>3
  <2> QED
    BY <2>4 DEF S
<1>5. g[n + 1] = Child(g[n], p[n + 1])
  <2>1. n + 1 \in 0..Len(p) /\ n + 1 # 0 /\ (n + 1) - 1 = n
    BY <1>1
  <2> QED
    BY <1>1, <1>3, <2>1 DEF ResolveOf
<1> QED
  BY <1>1, <1>2, <1>3, <1>4, <1>5 DEF p

-----------------------------------------------------------------------------
(* The invariant: TypeOK variable by variable, what DOS and the host hold,  *)
(* and where a lookup is on its path.                                       *)

NamesOK == world \in DOMAIN Worlds /\ tables = Tables(W)
HostOK == Tree(host)
CwdOK ==
    /\ cwd = [path |-> cwd.path, want |-> cwd.want]
    /\ cwd.path \in Paths /\ cwd.want \in Paths
    /\ Len(cwd.path) = Len(cwd.want)
PcOK == pc \in {"dos", "lookup", "read", "null", "opened"}
CallOK == Asks(call)
LookOK == rest \in Paths /\ dest \in Paths /\ Size(dest) <= MaxPath
ListOK == listing \in Seq(Name) /\ i \in 0..Len(listing)
PlaceOK ==
    /\ pc \in {"lookup", "read"} => Len(dest) + Len(rest) = Len(call.want)
    /\ pc = "read" => rest # <<>>
    /\ pc = "opened" => call.fn = "open"
    /\ pc \in {"lookup", "read"} /\ call.fn = "space" => call.want = cwd.want
FlagsOK == second \in BOOLEAN /\ clean \in BOOLEAN
CodeOK ==
    /\ ax \in Codes
    /\ call.fn \in {"rmdir", "mkdir", "chdir"} => ax # "FILENOTFND"
DirsOK ==
    /\ dirs \in Nat /\ (pc = "read" => 1 <= dirs)
    /\ LeakBound
CountsOK ==
    /\ fails \in 0..MaxFail
    /\ calls \in 0..W.most /\ changes \in 0..MaxChange

CallInv ==
    /\ NamesOK /\ HostOK /\ CwdOK /\ PcOK /\ CallOK /\ LookOK /\ ListOK
    /\ PlaceOK /\ FlagsOK /\ CodeOK /\ DirsOK /\ CountsOK

LEMMA WorldIs ==
    ASSUME world \in DOMAIN Worlds
    PROVE  /\ \A h \in W.hosts : Tree(h)
           /\ \A c \in W.calls : Asks(c)
           /\ W.others \subseteq Paths \ {<<>>}
           /\ Option(W.opt)
           /\ W.now \in FTime /\ W.most \in Nat
  BY PathCallsAssumption, Zenon DEF W, Paths

LEMMA OptionIs ==
    ASSUME world \in DOMAIN Worlds
    PROVE  /\ Settings(W.opt)
           /\ W.opt.lfn \in BOOLEAN
           /\ W.opt.gmtOffset \in -SECSPERDAY..SECSPERDAY
<1>1. Option(W.opt)
  BY WorldIs
<1>2. W.opt.page \in [128..255 -> CodePoint]
  BY <1>1, Zenon DEF Option
<1>3. W.opt.lfn => W.opt.manglingChars \in 2..6
  BY <1>1, Zenon DEF Option
<1>4. /\ W.opt.lfn \in BOOLEAN
      /\ W.opt.gmtOffset \in -SECSPERDAY..SECSPERDAY
  BY <1>1, Zenon DEF Option
<1> QED
  BY <1>2, <1>3, <1>4, Zenon DEF Settings, Page

\* The tables are the conversions.
LEMMA ConversionsAre ==
    ASSUME NamesOK, NEW name \in Name, NEW isRoot \in BOOLEAN
    PROVE  /\ FcbName(name, isRoot) = FNameToFcbName(W.opt, name, isRoot)
           /\ DosName(FcbName(name, isRoot)) \in Name
           /\ Utf8Name(name) = LocalToUtf8(W.opt.page, name)
           /\ Utf8Name(name) \in Name
<1> DEFINE fcb(n, r) == FNameToFcbName(W.opt, n, r)
           dos == {DosName(fcb(n, r)) : n \in Given(W), r \in BOOLEAN}
           utf8 == [n \in dos |-> LocalToUtf8(W.opt.page, n)]
           all == Given(W) \cup dos \cup {utf8[n] : n \in dos}
<1>1. tables = [fcbName |-> [r \in BOOLEAN |-> [n \in all |-> fcb(n, r)]],
                utf8 |-> utf8]
  BY SMT DEF Tables, NamesOK
<1>2. Settings(W.opt)
  BY OptionIs DEF NamesOK
<1>3. FcbName(name, isRoot) = fcb(name, isRoot)
  <2> HIDE DEF utf8, all, fcb
  <2>1. tables.fcbName[isRoot] = [n \in all |-> fcb(n, isRoot)]
    BY <1>1
  <2>2. FcbName(name, isRoot)
          = IF name \in DOMAIN tables.fcbName[isRoot]
            THEN tables.fcbName[isRoot][name] ELSE fcb(name, isRoot)
    BY Zenon DEF FcbName, fcb
  <2> QED
    BY <2>1, <2>2
<1>4. Utf8Name(name) = LocalToUtf8(W.opt.page, name)
  <2> HIDE DEF dos, all, fcb
  <2>1. tables.utf8 = utf8
    BY <1>1
  <2> QED
    BY <2>1 DEF Utf8Name
<1>5. DosName(fcb(name, isRoot)) \in Name
  <2>1. name \in Seq(Byte)
    BY DEF Name
  <2>2. DosName(FNameToFcbName(W.opt, name, isRoot)) \in Seq(Byte)
    BY <1>2, <2>1, DosNameTyped, Zenon
  <2> QED
    BY <2>2 DEF Name
<1>6. LocalToUtf8(W.opt.page, name) \in Name
  <2>1. name \in Seq(Byte) /\ Page(W.opt.page)
    BY <1>2 DEF Name, Settings
  <2>2. LocalToUtf8(W.opt.page, name) \in Seq(Byte)
    BY <2>1, Utf8Typed, Zenon
  <2> QED
    BY <2>2 DEF Name
<1> HIDE DEF fcb
<1>7. fcb(name, isRoot) = FNameToFcbName(W.opt, name, isRoot)
  BY DEF fcb
<1> QED
  BY <1>3, <1>4, <1>5, <1>6, <1>7

LEMMA EncodedIs ==
    ASSUME NamesOK, NEW path \in Paths
    PROVE  /\ Encoded(path) \in Paths /\ Len(Encoded(path)) = Len(path)
           /\ \A k \in 1..Len(path) : Encoded(path)[k] = Utf8Name(path[k])
<1>1. /\ Len(path) \in Nat /\ DOMAIN path = 1..Len(path)
      /\ \A k \in 1..Len(path) : path[k] \in Name
  BY Names1
<1>2. \A k \in 1..Len(path) : Utf8Name(path[k]) \in Name
  BY <1>1, ConversionsAre, Zenon
<1>3. Encoded(path) = [k \in 1..Len(path) |-> Utf8Name(path[k])]
  BY <1>1, Zenon DEF Encoded
<1> QED
  BY <1>1, <1>2, <1>3 DEF Paths

\* What programs use on the way to a file that they mean.
LEMMA DosPathIs ==
    ASSUME NamesOK, NEW path \in Paths
    PROVE  /\ DosPath(path) \in Paths
           /\ Len(DosPath(path)) = Len(path)
           /\ \A k \in 1..Len(path) :
                /\ Listed(path)[k] = FcbName(path[k], k = 1)
                /\ DosPath(path)[k] = DosName(FcbName(path[k], k = 1))
<1>1. /\ Len(path) \in Nat /\ DOMAIN path = 1..Len(path)
      /\ \A k \in 1..Len(path) : path[k] \in Name
  BY Names1
<1>2. ASSUME NEW k \in 1..Len(path)
      PROVE  DosName(FcbName(path[k], k = 1)) \in Name
  <2>1. (k = 1) \in BOOLEAN
    OBVIOUS
  <2> QED
    BY <1>1, <2>1, ConversionsAre, Zenon
<1>3. Listed(path) = [k \in 1..Len(path) |-> FcbName(path[k], k = 1)]
  BY <1>1, Zenon DEF Listed
<1>4. DosPath(path)
        = [k \in 1..Len(path) |-> DosName(FcbName(path[k], k = 1))]
  BY <1>1, <1>3 DEF DosPath
<1> QED
  BY <1>1, <1>2, <1>3, <1>4 DEF Paths

LEMMA PathIs ==
    ASSUME NamesOK, LookOK
    PROVE  Path \in Paths /\ Len(Path) = Len(dest) + Len(rest)
<1>1. Encoded(rest) \in Paths /\ Len(Encoded(rest)) = Len(rest)
  BY EncodedIs DEF LookOK
<1>2. dest \in Seq(Name) /\ Encoded(rest) \in Seq(Name)
  BY <1>1 DEF LookOK, Paths
<1>3. /\ dest \o Encoded(rest) \in Seq(Name)
      /\ Len(dest \o Encoded(rest)) = Len(dest) + Len(Encoded(rest))
  BY <1>2, ConcatProperties
<1> QED
  BY <1>1, <1>3 DEF Path, Paths

-----------------------------------------------------------------------------
(* What the host does.                                                     *)

Refusals == {"ENOTEXIST", "ENODIR", "ENOTEMPTY", "EEXIST"}

\* A share before and after: nothing happens unless it is said.
Does(does) ==
    /\ does.status \in Refusals \cup {"SUCCESS"}
    /\ Tree(does.host)
    /\ does.status # "SUCCESS" => does.host = host

LEMMA TreeIs ==
    ASSUME HostOK
    PROVE  /\ HostPaths
           /\ \A p \in DOMAIN host : host[p] \in Node
           /\ <<>> \in DOMAIN host /\ host[<<>>].mode.dir
           /\ \A p \in DOMAIN host \ {<<>>} : IsDir(Front1(p))
  BY Zenon DEF HostOK, Tree, HostPaths, Paths, IsDir, Exists

\* Only what is in a directory of the host is there.
LEMMA NoKids ==
    ASSUME HostOK, NEW path, ~IsDir(path)
    PROVE  Kids(path) = {}
  BY TreeIs DEF Kids

LEMMA FModeIs ==
    ASSUME NEW fat \in SUBSET FatAttr
    PROVE  FatAttrToFMode(fat) \in FMode
  BY DEF FatAttrToFMode, FMode, FatAttr

LEMMA ModeIs ==
    ASSUME NEW mode \in FMode, NEW dir \in BOOLEAN
    PROVE  [mode EXCEPT !.dir = dir] \in FMode
           /\ [mode EXCEPT !.dir = dir].dir = dir
  BY DEF FMode

LEMMA NewIs ==
    ASSUME NEW dir \in BOOLEAN, NEW fat \in SUBSET FatAttr,
           world \in DOMAIN Worlds
    PROVE  New(dir, fat) \in Node /\ New(dir, fat).mode.dir = dir
<1>1. W.now \in FTime
  BY WorldIs
<1>2. [FatAttrToFMode(fat) EXCEPT !.dir = dir] \in FMode
      /\ [FatAttrToFMode(fat) EXCEPT !.dir = dir].dir = dir
  BY FModeIs, ModeIs
<1> QED
  BY <1>1, <1>2 DEF New, Node

LEMMA PutIs ==
    ASSUME HostOK, NEW path \in Paths, NEW node \in Node,
           path # <<>> => IsDir(Front1(path)),
           IsDir(path) => node.mode.dir
    PROVE  /\ Put(path, node).status = "SUCCESS"
           /\ Tree(Put(path, node).host)
           /\ DOMAIN Put(path, node).host = DOMAIN host \cup {path}
           /\ Put(path, node).host[path] = node
           /\ \A p \in DOMAIN host \ {path} :
                Put(path, node).host[p] = host[p]
<1> DEFINE h == [p \in DOMAIN host \cup {path} |->
                    IF p = path THEN node ELSE host[p]]
<1>1. Put(path, node).status = "SUCCESS" /\ Put(path, node).host = h
  BY DEF Put
<1>2. /\ DOMAIN h = DOMAIN host \cup {path} /\ h[path] = node
      /\ \A p \in DOMAIN host \ {path} : h[p] = host[p]
  OBVIOUS
<1> HIDE DEF h
<1>3. IsFiniteSet(DOMAIN h) /\ DOMAIN h \subseteq Seq(Name)
  <2>1. IsFiniteSet(DOMAIN host) /\ DOMAIN host \subseteq Paths
    BY TreeIs DEF HostPaths
  <2>2. IsFiniteSet(DOMAIN host \cup {path})
    BY <2>1, FS_AddElement
  <2> QED
    BY <1>2, <2>1, <2>2 DEF Paths
<1>4. \A p \in DOMAIN h : h[p] \in Node
  BY <1>2, TreeIs
<1>5. ASSUME NEW p, IsDir(p)
      PROVE  p \in DOMAIN h /\ h[p].mode.dir
  <2>1. p \in DOMAIN host /\ host[p].mode.dir
    BY <1>5 DEF IsDir, Exists
  <2>2. CASE p = path
    BY <1>2, <1>5, <2>2
  <2>3. CASE p # path
    BY <1>2, <2>1, <2>3
  <2> QED
    BY <2>2, <2>3
<1>6. IsDir(<<>>)
  BY TreeIs DEF IsDir, Exists
<1>7. ASSUME NEW p \in DOMAIN h \ {<<>>}
      PROVE  Front1(p) \in DOMAIN h /\ h[Front1(p)].mode.dir
  <2>1. p \in DOMAIN host \/ p = path
    BY <1>2
  <2>2. IsDir(Front1(p))
    BY <2>1, TreeIs
  <2> QED
    BY <1>5, <2>2
<1> QED
  BY <1>1, <1>2, <1>3, <1>4, <1>5, <1>6, <1>7, Zenon DEF Tree

LEMMA StatusIs ==
    ASSUME HostOK, NEW path, NEW status \in Refusals \cup {"SUCCESS"}
    PROVE  /\ Status(path, status).status = status
           /\ Status(path, status).host = host
           /\ Does(Status(path, status))
  BY DEF Status, Does, HostOK

\* Where something goes, what is below goes as well.
LEMMA Removed ==
    ASSUME HostOK, NEW left \in SUBSET DOMAIN host, <<>> \in left,
           \A p \in left \ {<<>>} : Front1(p) \in left
    PROVE  Tree([p \in left |-> host[p]])
<1> DEFINE h == [p \in left |-> host[p]]
<1>1. DOMAIN h = left /\ \A p \in left : h[p] = host[p]
  OBVIOUS
<1> HIDE DEF h
<1>2. IsFiniteSet(DOMAIN h)
  BY <1>1, TreeIs, FS_Subset DEF HostPaths
<1>3. DOMAIN h \subseteq Seq(Name) /\ \A p \in DOMAIN h : h[p] \in Node
  BY <1>1, TreeIs DEF HostPaths, Paths
<1>4. <<>> \in DOMAIN h /\ h[<<>>].mode.dir
  BY <1>1, TreeIs
<1>5. ASSUME NEW p \in DOMAIN h \ {<<>>}
      PROVE  Front1(p) \in DOMAIN h /\ h[Front1(p)].mode.dir
  BY <1>1, TreeIs DEF IsDir
<1> QED
  BY <1>2, <1>3, <1>4, <1>5, Zenon DEF Tree, h

LEMMA DeleteDirDoes ==
    ASSUME HostOK, NEW path \in Paths, path # <<>>
    PROVE  LET does == HostDeleteDir(path)
           IN  /\ Does(does)
               /\ does.status = "SUCCESS" =>
                    /\ IsDir(path) /\ Kids(path) = {}
                    /\ DOMAIN does.host = DOMAIN host \ {path}
               /\ \A p \in DOMAIN host \ {path} :
                    p \in DOMAIN does.host /\ does.host[p] = host[p]
<1> DEFINE h == [p \in DOMAIN host \ {path} |-> host[p]]
           does == HostDeleteDir(path)
<1>1. CASE Exists(path) /\ IsDir(path) /\ Kids(path) = {}
  <2>3. Tree(h)
    <3> DEFINE left == DOMAIN host \ {path}
    <3>1. ASSUME NEW p \in left \ {<<>>} PROVE Front1(p) \in left
      <4>1. Front1(p) \in DOMAIN host
        BY TreeIs DEF IsDir, Exists
      <4>2. Front1(p) # path
        BY <1>1, Zenon DEF Kids
      <4> QED
        BY <4>1, <4>2
    <3>2. left \in SUBSET DOMAIN host /\ <<>> \in left
      BY TreeIs
    <3> HIDE DEF left
    <3>3. Tree([p \in left |-> host[p]])
      BY <3>1, <3>2, Removed
    <3> QED
      BY <3>3 DEF left
  <2>1. does = [status |-> "SUCCESS", host |-> h]
    BY <1>1 DEF HostDeleteDir
  <2>2. DOMAIN h = DOMAIN host \ {path} /\ \A p \in DOMAIN h : h[p] = host[p]
    OBVIOUS
  <2> HIDE DEF h
  <2> QED
    BY <1>1, <2>1, <2>2, <2>3 DEF Does
<1>2. CASE ~(Exists(path) /\ IsDir(path) /\ Kids(path) = {})
  <2>1. \E status \in Refusals : does = Status(path, status)
    BY <1>2 DEF HostDeleteDir, Refusals
  <2>2. Does(does) /\ does.status # "SUCCESS" /\ does.host = host
    BY <2>1, StatusIs DEF Refusals
  <2> QED
    BY <2>2
<1> QED
  BY <1>1, <1>2

LEMMA CreateDirDoes ==
    ASSUME HostOK, NamesOK, NEW path \in Paths
    PROVE  LET does == HostCreateDir(path)
           IN  /\ Does(does)
               /\ does.status = "SUCCESS" =>
                    /\ ~Exists(path) /\ IsDir(Front1(path))
                    /\ path \in DOMAIN does.host
                    /\ does.host[path].mode.dir
               /\ \A p \in DOMAIN host \ {path} :
                    p \in DOMAIN does.host /\ does.host[p] = host[p]
<1> DEFINE does == HostCreateDir(path)
<1>1. CASE ~Exists(path) /\ IsDir(Front1(path))
  <2>1. New(TRUE, {}) \in Node /\ New(TRUE, {}).mode.dir
    BY NewIs DEF NamesOK
  <2>2. does = Put(path, New(TRUE, {}))
    BY <1>1 DEF HostCreateDir
  <2>3. path # <<>>
    BY <1>1, TreeIs DEF Exists
  <2> DEFINE node == New(TRUE, {})
  <2>4. node \in Node /\ node.mode.dir
    BY <2>1
  <2> HIDE DEF node
  <2>5. /\ does.status = "SUCCESS" /\ Tree(does.host)
        /\ DOMAIN does.host = DOMAIN host \cup {path}
        /\ does.host[path] = node
        /\ \A p \in DOMAIN host \ {path} : does.host[p] = host[p]
    <3>1. does = Put(path, node)
      BY <2>2 DEF node
    <3> QED
      BY <1>1, <2>3, <2>4, <3>1, PutIs
  <2> HIDE DEF does
  <2>6. Does(does) /\ path \in DOMAIN does.host /\ does.host[path].mode.dir
    BY <2>4, <2>5 DEF Does
  <2> QED
    BY <1>1, <2>4, <2>5, <2>6 DEF does
<1>2. CASE ~(~Exists(path) /\ IsDir(Front1(path)))
  <2>1. \E status \in Refusals : does = Status(path, status)
    BY <1>2 DEF HostCreateDir, Refusals
  <2>2. Does(does) /\ does.status # "SUCCESS" /\ does.host = host
    BY <2>1, StatusIs DEF Refusals
  <2> QED
    BY <2>2
<1> QED
  BY <1>1, <1>2

LEMMA GetAttrDoes ==
    ASSUME HostOK, NEW path
    PROVE  LET does == HostGetAttr(path)
           IN  /\ Does(does) /\ does.host = host
               /\ does.status = "SUCCESS" => Exists(path)
  BY StatusIs DEF HostGetAttr, Refusals

LEMMA SetAttrDoes ==
    ASSUME HostOK, NEW path \in Paths, NEW mode \in FMode
    PROVE  LET does == HostSetAttr(path, mode)
           IN  /\ Does(does)
               /\ does.status = "SUCCESS" =>
                    /\ path \in DOMAIN does.host
                    /\ \E dir \in BOOLEAN :
                         does.host[path].mode = [mode EXCEPT !.dir = dir]
               /\ \A p \in DOMAIN host \ {path} :
                    p \in DOMAIN does.host /\ does.host[p] = host[p]
<1> DEFINE does == HostSetAttr(path, mode)
<1>1. CASE ~Exists(path)
  <2>1. does = Status(path, "ENOTEXIST")
    BY <1>1 DEF HostSetAttr
  <2>2. Does(does) /\ does.status # "SUCCESS" /\ does.host = host
    BY <2>1, StatusIs DEF Refusals
  <2> QED
    BY <2>2
<1>2. CASE Exists(path)
  <2> DEFINE was == host[path].mode.dir
             new == [mode EXCEPT !.dir = was]
             node == [host[path] EXCEPT !.mode = new]
  <2>1. host[path] \in Node /\ was \in BOOLEAN
    BY <1>2, TreeIs DEF Exists, Node, FMode
  <2>2. new \in FMode /\ new.dir = was
    BY <2>1, ModeIs
  <2>3. does = Put(path, node)
    BY <1>2 DEF HostSetAttr
  <2>4. /\ IsDir(path) => was
        /\ path # <<>> => IsDir(Front1(path))
    BY <1>2, TreeIs DEF IsDir, Exists
  <2> HIDE DEF was, new
  <2>5. node \in Node /\ node.mode = new
    BY <2>1, <2>2 DEF Node
  <2>6. IsDir(path) => node.mode.dir
    BY <2>2, <2>4, <2>5
  <2> HIDE DEF node
  <2>7. /\ Does(does) /\ path \in DOMAIN does.host /\ does.host[path] = node
        /\ \A p \in DOMAIN host \ {path} :
             p \in DOMAIN does.host /\ does.host[p] = host[p]
    BY <2>3, <2>4, <2>5, <2>6, PutIs DEF Does
  <2> QED
    BY <2>1, <2>5, <2>7 DEF new
<1> QED
  BY <1>1, <1>2

\* What an extended action asks for.
LEMMA ActionIs ==
    ASSUME NEW ext \in SUBSET {"create", "open", "replace"}
    PROVE  LET action == DosExtActionToOpenAction(ext)
           IN  /\ action \in Actions
               /\ action \in {"O_TRUNC", "C_ALWAYS"} <=> "replace" \in ext
               /\ action \in {"O_EXIST", "O_TRUNC"} <=> "create" \notin ext
               /\ action = "C_NEW" <=> "create" \in ext
                                         /\ ext \cap {"open", "replace"} = {}
<1> DEFINE c == "create" \in ext
           o == "open" \in ext
           r == "replace" \in ext
<1>1. ext \cap {"open", "replace"} = {} <=> ~o /\ ~r
  OBVIOUS
<1>2. DosExtActionToOpenAction(ext)
        = CASE c /\ r -> "C_ALWAYS"
            [] c /\ ~r /\ o -> "O_ALWAYS"
            [] c /\ ~r /\ ~o -> "C_NEW"
            [] ~c /\ r -> "O_TRUNC"
            [] ~c /\ ~r -> "O_EXIST"
  BY Zenon DEF DosExtActionToOpenAction
<1> HIDE DEF c, o, r
<1>3. CASE c /\ r
  BY <1>1, <1>2, <1>3 DEF Actions, c, o, r
<1>4. CASE c /\ ~r /\ o
  BY <1>1, <1>2, <1>4 DEF Actions, c, o, r
<1>5. CASE c /\ ~r /\ ~o
  BY <1>1, <1>2, <1>5 DEF Actions, c, o, r
<1>6. CASE ~c /\ r
  BY <1>1, <1>2, <1>6 DEF Actions, c, o, r
<1>7. CASE ~c /\ ~r
  BY <1>1, <1>2, <1>7 DEF Actions, c, o, r
<1> QED
  BY <1>3, <1>4, <1>5, <1>6, <1>7

LEMMA OpenFileDoes ==
    ASSUME HostOK, NamesOK, NEW path \in Paths, NEW action \in Actions,
           NEW mode \in FMode
    PROVE  LET does == HostOpenFile(path, action, mode)
           IN  /\ Does(does)
               /\ does.status = "SUCCESS" => path \in DOMAIN does.host
               /\ does.status = "SUCCESS" /\ ~Exists(path) =>
                    action \notin {"O_EXIST", "O_TRUNC"}
               /\ does.status = "SUCCESS" /\ Exists(path) =>
                    action # "C_NEW"
               /\ Exists(path) =>
                    /\ path \in DOMAIN does.host
                    /\ does.host[path].mode = host[path].mode
                    /\ does.host[path].data # host[path].data =>
                         action \in {"O_TRUNC", "C_ALWAYS"}
               /\ does.status = "SUCCESS"
                    /\ action \in {"O_TRUNC", "C_ALWAYS"} =>
                      ~does.host[path].data \/ does.host[path].mode.dir
               /\ does.status = "ENOTEXIST" =>
                    \/ action \in {"O_EXIST", "O_TRUNC"}
                    \/ ~IsDir(Front1(path))
               /\ \A p \in DOMAIN host \ {path} :
                    p \in DOMAIN does.host /\ does.host[p] = host[p]
<1> DEFINE does == HostOpenFile(path, action, mode)
           truncates == action \in {"O_TRUNC", "C_ALWAYS"}
           opens == action \in {"O_EXIST", "O_TRUNC"}
<1>1. CASE Exists(path) /\ action = "C_NEW"
  <2>1. does = Status(path, "EEXIST")
    BY <1>1 DEF HostOpenFile
  <2>2. Does(does) /\ does.status = "EEXIST" /\ does.host = host
    BY <2>1, StatusIs DEF Refusals
  <2> QED
    BY <1>1, <2>2 DEF Exists
<1>2. CASE Exists(path) /\ action # "C_NEW" /\ ~IsDir(path) /\ truncates
  <2> DEFINE node == [host[path] EXCEPT !.data = FALSE]
  <2>1. host[path] \in Node /\ path # <<>> /\ IsDir(Front1(path))
    BY <1>2, TreeIs DEF Exists, IsDir
  <2>2. node \in Node /\ node.mode = host[path].mode /\ ~node.data
    BY <2>1 DEF Node
  <2>3. does = Put(path, node)
    BY <1>2 DEF HostOpenFile
  <2> HIDE DEF node
  <2>4. /\ does.status = "SUCCESS" /\ Tree(does.host)
        /\ DOMAIN does.host = DOMAIN host \cup {path}
        /\ does.host[path] = node
        /\ \A p \in DOMAIN host \ {path} : does.host[p] = host[p]
    BY <1>2, <2>1, <2>2, <2>3, PutIs
  <2> HIDE DEF does
  <2>5. Does(does)
    BY <2>4 DEF Does
  <2>6. action \notin {"C_NEW"}
    BY <1>2
  <2> QED
    BY <1>2, <2>2, <2>4, <2>5, <2>6 DEF does
<1>3. CASE Exists(path) /\ action # "C_NEW" /\ ~(~IsDir(path) /\ truncates)
  <2>1. does = Status(path, "SUCCESS")
    BY <1>3 DEF HostOpenFile
  <2>2. Does(does) /\ does.status = "SUCCESS" /\ does.host = host
    BY <2>1, StatusIs
  <2>3. truncates => host[path].mode.dir
    BY <1>3 DEF IsDir
  <2> HIDE DEF does
  <2> QED
    BY <1>3, <2>2, <2>3 DEF does, Exists
<1>4. CASE ~Exists(path) /\ (opens \/ ~IsDir(Front1(path)))
  <2>1. does = Status(path, "ENOTEXIST")
    BY <1>4 DEF HostOpenFile
  <2>2. Does(does) /\ does.status = "ENOTEXIST" /\ does.host = host
    BY <2>1, StatusIs DEF Refusals
  <2> HIDE DEF does
  <2> QED
    BY <1>4, <2>2 DEF does
<1>5. CASE ~Exists(path) /\ ~opens /\ IsDir(Front1(path))
  <2> DEFINE node == [New(FALSE, {}) EXCEPT
                        !.mode = [mode EXCEPT !.dir = FALSE]]
  <2>1. path # <<>>
    BY <1>5, TreeIs DEF Exists
  <2>2. node \in Node /\ ~node.data
    <3>1. W.now \in FTime
      BY WorldIs DEF NamesOK
    <3>2. [mode EXCEPT !.dir = FALSE] \in FMode
      BY ModeIs
    <3> QED
      BY <3>1, <3>2 DEF New, Node
  <2>3. does = Put(path, node)
    BY <1>5 DEF HostOpenFile
  <2> HIDE DEF node
  <2>4. /\ does.status = "SUCCESS" /\ Tree(does.host)
        /\ DOMAIN does.host = DOMAIN host \cup {path}
        /\ does.host[path] = node
        /\ \A p \in DOMAIN host \ {path} : does.host[p] = host[p]
    <3>1. ~IsDir(path)
      BY <1>5 DEF IsDir
    <3> QED
      BY <1>5, <2>1, <2>2, <2>3, <3>1, PutIs
  <2> HIDE DEF does
  <2>5. Does(does)
    BY <2>4 DEF Does
  <2> QED
    BY <1>5, <2>2, <2>4, <2>5 DEF does
<1> QED
  BY <1>1, <1>2, <1>3, <1>4, <1>5

-----------------------------------------------------------------------------
(* What becomes of a request.                                              *)

\* The codes of a request.
Answers == {"SUCCESS", "FILENOTFND", "PATHNOTFND", "ACCESS", "NOTREADY"}

\* What a caller of a request r for what the host does may rely on.
Serves(r, does) ==
    /\ Tree(r.host)
    /\ r.lost \in 0..1
    /\ Code(r) \in Answers
    /\ r.host = host \/ r.host = does.host
    /\ Code(r) = "SUCCESS" => does.status = "SUCCESS" /\ r.host = does.host
    /\ Code(r) \notin {"SUCCESS", "NOTREADY"} => r.host = host
    /\ Code(r) = "NOTREADY" <=> r.lost = 1
    /\ Code(r) = "FILENOTFND" => does.status = "ENOTEXIST"

LEMMA ErrorIs ==
    ASSUME NEW status
    PROVE  /\ VmshfStatusToDosError("SUCCESS") = "SUCCESS"
           /\ VmshfStatusToDosError("EACCESS") = "ACCESS"
           /\ status = "ENOTEXIST" =>
                VmshfStatusToDosError(status) = "FILENOTFND"
           /\ status \in Refusals \ {"ENOTEXIST"} =>
                VmshfStatusToDosError(status) \in {"PATHNOTFND", "ACCESS"}
<1>1. VmshfStatusToDosError("SUCCESS") = "SUCCESS"
  BY DEF VmshfStatusToDosError
<1>2. VmshfStatusToDosError("EACCESS") = "ACCESS"
  BY DEF VmshfStatusToDosError
<1>3. VmshfStatusToDosError("ENOTEXIST") = "FILENOTFND"
  BY DEF VmshfStatusToDosError
<1>4. VmshfStatusToDosError("ENODIR") = "PATHNOTFND"
  BY DEF VmshfStatusToDosError
<1>5. VmshfStatusToDosError("ENOTEMPTY") = "ACCESS"
  BY DEF VmshfStatusToDosError
<1>6. VmshfStatusToDosError("EEXIST") = "ACCESS"
  BY DEF VmshfStatusToDosError
<1> QED
  BY <1>1, <1>2, <1>3, <1>4, <1>5, <1>6 DEF Refusals

LEMMA RpcServed ==
    ASSUME HostOK, NEW does, Does(does), NEW r \in ExecuteRpc(does)
    PROVE  Serves(r, does)
<1>1. Tree(host) /\ Tree(does.host)
  BY DEF HostOK, Does
<1>2. CASE r = Answer(does.status, does.host, 0)
  <2>1. /\ r.lost = 0 /\ r.host = does.host
        /\ Code(r) = VmshfStatusToDosError(does.status)
    BY <1>2 DEF Answer, Code
  <2>2. CASE does.status = "SUCCESS"
    <3>1. Code(r) = "SUCCESS"
      BY <2>1, <2>2, ErrorIs
    <3> QED
      BY <1>1, <2>1, <2>2, <3>1 DEF Serves, Answers
  <2>3. CASE does.status = "ENOTEXIST"
    <3>1. Code(r) = "FILENOTFND" /\ does.host = host
      BY <2>1, <2>3, ErrorIs DEF Does
    <3> QED
      BY <1>1, <2>1, <2>3, <3>1 DEF Serves, Answers
  <2>4. CASE does.status \in Refusals \ {"ENOTEXIST"}
    <3>1. Code(r) \in {"PATHNOTFND", "ACCESS"} /\ does.host = host
      BY <2>1, <2>4, ErrorIs DEF Does, Refusals
    <3> QED
      BY <1>1, <2>1, <3>1 DEF Serves, Answers
  <2> QED
    BY <2>2, <2>3, <2>4 DEF Does
<1>3. CASE r = Answer("EACCESS", host, 0)
  <2>1. r.lost = 0 /\ r.host = host /\ Code(r) = "ACCESS"
    BY <1>3, ErrorIs DEF Answer, Code
  <2> QED
    BY <1>1, <2>1 DEF Serves, Answers
<1>4. CASE \/ r = Answer("VMTOOLERR", host, 1)
           \/ r = Answer("VMTOOLERR", does.host, 1)
  <2>1. /\ r.lost = 1 /\ Code(r) = "NOTREADY"
        /\ r.host = host \/ r.host = does.host
    BY <1>4 DEF Answer, Code
  <2> QED
    BY <1>1, <2>1 DEF Serves, Answers
<1> QED
  BY <1>2, <1>3, <1>4 DEF ExecuteRpc

\* A request goes where Path is, or nowhere.
LEMMA RequestServed ==
    ASSUME HostOK, CountsOK, NEW does, Portable => Does(does),
           NEW r \in Request(does), Receive(r)
    PROVE  /\ Tree(host')
           /\ fails' \in 0..MaxFail /\ fails <= fails'
           /\ Code(r) \in Answers
           /\ host' = host \/ host' = does.host
           /\ Code(r) = "SUCCESS" => does.status = "SUCCESS"
                                       /\ host' = does.host
           /\ Code(r) \notin {"SUCCESS", "NOTREADY"} => host' = host
           /\ Code(r) = "NOTREADY" => fails' = fails + 1
           /\ Code(r) = "FILENOTFND" => does.status = "ENOTEXIST"
           /\ Portable => target' = Resolve(Path)
           /\ ~Portable => Code(r) = "ACCESS" /\ host' = host
<1>1. MaxFail \in Nat /\ fails \in Nat
  BY PathCallsAssumption DEF CountsOK
<1>2. /\ host' = r.host /\ fails + r.lost <= MaxFail
      /\ fails' = fails + r.lost
      /\ target' = IF Portable THEN Resolve(Path) ELSE <<>>
  BY DEF Receive, CountFails
<1>3. CASE Portable
  <2>1. r \in ExecuteRpc(does)
    BY <1>3 DEF Request
  <2>2. Serves(r, does)
    BY <1>3, <2>1, RpcServed
  <2>3. fails' \in 0..MaxFail /\ fails <= fails'
    BY <1>1, <1>2, <2>2 DEF Serves
  <2>4. target' = Resolve(Path)
    BY <1>2, <1>3
  <2>5. /\ Tree(host') /\ Code(r) \in Answers
        /\ host' = host \/ host' = does.host
        /\ Code(r) = "SUCCESS" => does.status = "SUCCESS"
                                    /\ host' = does.host
        /\ Code(r) \notin {"SUCCESS", "NOTREADY"} => host' = host
        /\ Code(r) = "FILENOTFND" => does.status = "ENOTEXIST"
    BY <1>2, <2>2 DEF Serves
  <2>6. Code(r) = "NOTREADY" => fails' = fails + 1
    BY <1>2, <2>2 DEF Serves
  <2> QED
    BY <1>3, <2>3, <2>4, <2>5, <2>6
<1>4. CASE ~Portable
  <2>1. r = Answer("EACCESS", host, 0)
    BY <1>4 DEF Request
  <2>2. r.lost = 0 /\ r.host = host /\ Code(r) = "ACCESS"
    BY <2>1, ErrorIs DEF Answer, Code
  <2>3. Tree(host') /\ host' = host
    BY <1>2, <2>2 DEF HostOK
  <2>4. fails' \in 0..MaxFail /\ fails <= fails'
    BY <1>1, <1>2, <2>2
  <2> QED
    BY <1>4, <2>2, <2>3, <2>4 DEF Answers
<1> QED
  BY <1>3, <1>4

\* Where a request goes.
LEMMA TargetIs ==
    ASSUME HostOK, NamesOK, LookOK
    PROVE  Resolve(Path) \in Paths /\ Len(Resolve(Path)) = Len(Path)
  BY TreeIs, PathIs, ResolveIs

-----------------------------------------------------------------------------
(* What the handlers do.  SaysStep is about their last steps.              *)

SaysStep ==
    pc # "dos" /\ pc' = "dos" =>
        LET p == target'
            others == DOMAIN host \ {p}
        IN  /\ ax' \notin {"SUCCESS", "NOTREADY"} => host' = host
            /\ call.fn \in {"chdir", "getattr", "space"} => host' = host
            /\ \A q \in others : q \in DOMAIN host' /\ host'[q] = host[q]
            /\ ax' = "SUCCESS" =>
                /\ call.fn = "rmdir" =>
                     /\ IsDir(p) /\ Kids(p) = {}
                     /\ DOMAIN host' = others
                /\ call.fn = "mkdir" =>
                     /\ ~Exists(p) /\ IsDir(Front1(p))
                     /\ p \in DOMAIN host' /\ host'[p].mode.dir
                /\ call.fn = "setattr" =>
                     FModeToFatAttr(host'[p].mode) \ {"subdir"}
                        = call.fat \ {"subdir"}

\* A call that returns.
Returned ==
    /\ Tree(host')
    /\ fails' \in 0..MaxFail /\ fails <= fails'
    /\ pc' = "dos"
    /\ ax' \in Codes
    /\ call.fn \in {"rmdir", "mkdir", "chdir"} => ax' # "FILENOTFND"

LEMMA AnswersAreCodes ==
    ASSUME NEW code \in Answers
    PROVE  /\ code \in Codes
           /\ PathCode(code) \in Answers \ {"FILENOTFND"}
           /\ PathCode(code) = "SUCCESS" <=> code = "SUCCESS"
           /\ PathCode(code) = "NOTREADY" <=> code = "NOTREADY"
  BY DEF Answers, Codes, PathCode

\* A path of a call that has one names nothing less than its components.
LEMMA PortableIs ==
    ASSUME CallInv, Portable
    PROVE  /\ Resolve(Path) \in Paths
           /\ Len(Resolve(Path)) = Len(call.want)
<1>1. Len(Path) = Len(dest) + Len(rest)
  BY PathIs DEF CallInv
<1>2. Len(dest) + Len(rest) = Len(call.want)
  BY DEF CallInv, PlaceOK, Portable
<1> QED
  BY <1>1, <1>2, TargetIs DEF CallInv

LEMMA RmDirDoes ==
    ASSUME CallInv, RmDir
    PROVE  Returned /\ SaysStep
<1> DEFINE p == Resolve(Path)
           does == HostDeleteDir(p)
<1>1. PICK r \in Request(does) : Receive(r) /\ Return(PathCode(Code(r)))
  BY DEF RmDir, VMShfDeleteFileDir
<1>2. ASSUME Portable PROVE p \in Paths /\ p # <<>>
  <2>1. p \in Paths /\ Len(p) = Len(call.want)
    BY <1>2, PortableIs
  <2>2. Len(call.want) # 0
    <3>1. call.want \in Seq(Name) /\ call.want # <<>>
      BY DEF CallInv, CallOK, Asks, Call, RmDir, Handles
    <3> QED
      BY <3>1, EmptySeq
  <2> QED
    BY <2>1, <2>2, EmptySeq
<1>3. Portable =>
        /\ Does(does)
        /\ does.status = "SUCCESS" =>
             IsDir(p) /\ Kids(p) = {} /\ DOMAIN does.host = DOMAIN host \ {p}
        /\ \A q \in DOMAIN host \ {p} :
             q \in DOMAIN does.host /\ does.host[q] = host[q]
  BY <1>2, DeleteDirDoes DEF CallInv
<1> HIDE DEF p, does
<1>4. /\ Tree(host') /\ fails' \in 0..MaxFail /\ fails <= fails'
      /\ Code(r) \in Answers
      /\ host' = host \/ host' = does.host
      /\ Code(r) = "SUCCESS" => does.status = "SUCCESS"
                                  /\ host' = does.host
      /\ Code(r) \notin {"SUCCESS", "NOTREADY"} => host' = host
      /\ Portable => target' = p
      /\ ~Portable => Code(r) = "ACCESS" /\ host' = host
  BY <1>1, <1>3, RequestServed DEF CallInv, p
<1>5. pc' = "dos" /\ ax' = PathCode(Code(r))
  BY <1>1 DEF Return
<1>6. Returned
  BY <1>4, <1>5, AnswersAreCodes DEF Returned, Answers, Codes
<1>7. call.fn = "rmdir"
  BY DEF RmDir, Handles
<1>8. ax' \notin {"SUCCESS", "NOTREADY"} => host' = host
  BY <1>4, <1>5, AnswersAreCodes
<1>9. \A q \in DOMAIN host \ {target'} :
          q \in DOMAIN host' /\ host'[q] = host[q]
  BY <1>3, <1>4
<1>10. ax' = "SUCCESS" =>
         /\ IsDir(target') /\ Kids(target') = {}
         /\ DOMAIN host' = DOMAIN host \ {target'}
  <2>1. ax' = "SUCCESS" => Code(r) = "SUCCESS"
    BY <1>4, <1>5, AnswersAreCodes
  <2> QED
    BY <1>3, <1>4, <2>1
<1> QED
  BY <1>6, <1>7, <1>8, <1>9, <1>10 DEF SaysStep

LEMMA MkDirDoes ==
    ASSUME CallInv, MkDir
    PROVE  Returned /\ SaysStep
<1> DEFINE p == Resolve(Path)
           does == HostCreateDir(p)
<1>1. PICK r \in Request(does) : Receive(r) /\ Return(PathCode(Code(r)))
  BY DEF MkDir, VMShfCreateDir
<1>2. /\ Does(does)
      /\ does.status = "SUCCESS" =>
           /\ ~Exists(p) /\ IsDir(Front1(p))
           /\ p \in DOMAIN does.host /\ does.host[p].mode.dir
      /\ \A q \in DOMAIN host \ {p} :
           q \in DOMAIN does.host /\ does.host[q] = host[q]
  BY TargetIs, CreateDirDoes DEF CallInv
<1> HIDE DEF p, does
<1>3. /\ Tree(host') /\ fails' \in 0..MaxFail /\ fails <= fails'
      /\ Code(r) \in Answers
      /\ host' = host \/ host' = does.host
      /\ Code(r) = "SUCCESS" => does.status = "SUCCESS"
                                  /\ host' = does.host
      /\ Code(r) \notin {"SUCCESS", "NOTREADY"} => host' = host
      /\ Portable => target' = p
      /\ ~Portable => Code(r) = "ACCESS" /\ host' = host
  BY <1>1, <1>2, RequestServed DEF CallInv, p
<1>4. pc' = "dos" /\ ax' = PathCode(Code(r))
  BY <1>1 DEF Return
<1>5. Returned
  BY <1>3, <1>4, AnswersAreCodes DEF Returned, Answers, Codes
<1>6. call.fn = "mkdir"
  BY DEF MkDir, Handles
<1>7. ax' \notin {"SUCCESS", "NOTREADY"} => host' = host
  BY <1>3, <1>4, AnswersAreCodes
<1>8. \A q \in DOMAIN host \ {target'} :
          q \in DOMAIN host' /\ host'[q] = host[q]
  BY <1>2, <1>3
<1>9. ax' = "SUCCESS" =>
        /\ ~Exists(target') /\ IsDir(Front1(target'))
        /\ target' \in DOMAIN host' /\ host'[target'].mode.dir
  <2>1. ax' = "SUCCESS" => Code(r) = "SUCCESS"
    BY <1>3, <1>4, AnswersAreCodes
  <2> QED
    BY <1>2, <1>3, <2>1
<1> QED
  BY <1>5, <1>6, <1>7, <1>8, <1>9 DEF SaysStep

\* CwdIsDir, step by step.
CwdStep ==
    cwd' # cwd =>
        \/ call.fn = "chdir" /\ (IsDir(target') \/ fails' > fails)
        \/ call.fn = "space" /\ IsStrictPrefix(cwd'.path, cwd.path)

LEMMA AttrServed ==
    ASSUME CallInv, NEW r \in VMShfGetAttr, Receive(r)
    PROVE  /\ Tree(host') /\ fails' \in 0..MaxFail /\ fails <= fails'
           /\ Code(r) \in Answers
           /\ host' = host
           /\ Code(r) = "SUCCESS" =>
                Exists(Resolve(Path)) /\ target' = Resolve(Path)
           /\ Code(r) = "NOTREADY" => fails' > fails
<1> DEFINE p == Resolve(Path)
           does == HostGetAttr(p)
<1>1. r \in Request(does)
  BY DEF VMShfGetAttr
<1>2. /\ Does(does) /\ does.host = host
      /\ does.status = "SUCCESS" => Exists(p)
  BY GetAttrDoes DEF CallInv
<1> HIDE DEF p, does
<1>3. /\ Tree(host') /\ fails' \in 0..MaxFail /\ fails <= fails'
      /\ Code(r) \in Answers
      /\ host' = host \/ host' = does.host
      /\ Code(r) = "SUCCESS" => does.status = "SUCCESS"
      /\ Code(r) = "NOTREADY" => fails' = fails + 1
      /\ Portable => target' = p
      /\ ~Portable => Code(r) = "ACCESS"
  BY <1>1, <1>2, RequestServed DEF CallInv, p
<1>4. fails \in Int
  BY PathCallsAssumption DEF CallInv, CountsOK
<1>5. Code(r) = "SUCCESS" => Exists(p) /\ target' = p
  BY <1>2, <1>3
<1>6. Code(r) = "NOTREADY" => fails' > fails
  BY <1>3, <1>4
<1> QED
  BY <1>2, <1>3, <1>5, <1>6 DEF p

\* Without the bit the node is a file.
LEMMA NoDirectoryIs ==
    ASSUME HostOK, NEW path, Exists(path), ~NoDirectory(path)
    PROVE  IsDir(path)
  BY DEF NoDirectory, IsDir, FModeToFatAttr, Exists, HostOK, Tree, Node, FMode

LEMMA ChDirDoes ==
    ASSUME CallInv, ChDir
    PROVE  /\ Returned /\ SaysStep /\ CwdStep
           /\ cwd' = cwd \/ Copied
<1>1. call.fn = "chdir"
  BY DEF ChDir, Handles
<1>2. CASE call.want = <<>>
  <2>1. /\ Return("SUCCESS") /\ Copied /\ target' = <<>>
        /\ UNCHANGED <<host, fails>>
    BY <1>2 DEF ChDir
  <2>2. Tree(host') /\ fails' \in 0..MaxFail /\ fails <= fails'
    BY <2>1, PathCallsAssumption DEF CallInv, HostOK, CountsOK
  <2>3. Returned
    BY <2>1, <2>2 DEF Returned, Return, Codes
  <2>4. SaysStep
    BY <1>1, <2>1 DEF SaysStep
  <2>5. IsDir(target')
    BY <2>1, TreeIs DEF IsDir, Exists, CallInv
  <2> QED
    BY <1>1, <2>1, <2>3, <2>4, <2>5 DEF CwdStep
<1>3. CASE call.want # <<>>
  <2> DEFINE Code2(r) == PathCode(Code(r))
             File(r) == Code2(r) = "SUCCESS" /\ NoDirectory(Resolve(Path))
  <2>1. PICK r \in VMShfGetAttr :
          /\ Receive(r)
          /\ Return(IF File(r) THEN "PATHNOTFND" ELSE Code2(r))
          /\ IF Code2(r) \in {"SUCCESS", "NOTREADY"} /\ ~File(r)
             THEN Copied ELSE UNCHANGED cwd
    BY <1>3, Zenon DEF ChDir
  <2>2. /\ Tree(host') /\ fails' \in 0..MaxFail /\ fails <= fails'
        /\ Code(r) \in Answers
        /\ host' = host
        /\ Code(r) = "SUCCESS" =>
             Exists(Resolve(Path)) /\ target' = Resolve(Path)
        /\ Code(r) = "NOTREADY" => fails' > fails
    BY <2>1, AttrServed
  <2>3. /\ Code2(r) \in Answers \ {"FILENOTFND"}
        /\ Code2(r) = "SUCCESS" <=> Code(r) = "SUCCESS"
        /\ Code2(r) = "NOTREADY" <=> Code(r) = "NOTREADY"
    BY <2>2, AnswersAreCodes
  <2>4. pc' = "dos" /\ ax' = IF File(r) THEN "PATHNOTFND" ELSE Code2(r)
    BY <2>1 DEF Return
  <2>5. cwd' = cwd \/ Copied
    BY <2>1
  <2>6. cwd' # cwd => Code2(r) \in {"SUCCESS", "NOTREADY"} /\ ~File(r)
    BY <2>1
  <2> HIDE DEF Code2
  <2>7. Returned
    BY <2>2, <2>3, <2>4 DEF Returned, Answers, Codes
  <2>8. SaysStep
    BY <1>1, <2>2 DEF SaysStep
  <2>9. ASSUME cwd' # cwd PROVE IsDir(target') \/ fails' > fails
    <3>1. CASE Code2(r) = "NOTREADY"
      BY <2>2, <2>3, <3>1
    <3>2. CASE Code2(r) = "SUCCESS"
      <4>1. ~NoDirectory(Resolve(Path))
        BY <2>6, <2>9, <3>2
      <4>2. Exists(Resolve(Path)) /\ target' = Resolve(Path)
        BY <2>2, <2>3, <3>2
      <4> QED
        BY <4>1, <4>2, NoDirectoryIs DEF CallInv
    <3> QED
      BY <2>6, <2>9, <3>1, <3>2
  <2> QED
    BY <1>1, <2>5, <2>7, <2>8, <2>9 DEF CwdStep
<1> QED
  BY <1>2, <1>3

LEMMA GetFileAttribDoes ==
    ASSUME CallInv, GetFileAttrib
    PROVE  Returned /\ SaysStep
<1>1. PICK r \in VMShfGetAttr : Receive(r) /\ Return(Code(r))
  BY DEF GetFileAttrib
<1>2. /\ Tree(host') /\ fails' \in 0..MaxFail /\ fails <= fails'
      /\ Code(r) \in Answers /\ host' = host
  BY <1>1, AttrServed
<1>3. call.fn = "getattr"
  BY DEF GetFileAttrib, Handles
<1>4. Returned
  BY <1>1, <1>2, <1>3, AnswersAreCodes DEF Returned, Return
<1> QED
  BY <1>2, <1>3, <1>4 DEF SaysStep

LEMMA SetFileAttribReadDoes ==
    ASSUME CallInv, SetFileAttribRead
    PROVE  /\ SaysStep
           /\ \/ Returned /\ UNCHANGED <<rest, dest, second>>
              \/ /\ Tree(host') /\ fails' \in 0..MaxFail /\ fails <= fails'
                 /\ ~second /\ second' /\ pc' = "lookup"
                 /\ rest' = DosPath(call.want) /\ dest' = <<>>
                 /\ ax' = ax
<1>1. PICK r \in VMShfGetAttr :
        /\ Receive(r)
        /\ \/ /\ Code(r) # "SUCCESS"
              /\ Return(Code(r)) /\ UNCHANGED <<rest, dest, second>>
           \/ Return("ACCESS") /\ UNCHANGED <<rest, dest, second>>
           \/ /\ second' = TRUE /\ pc' = "lookup"
              /\ rest' = DosPath(call.want) /\ dest' = <<>>
              /\ ax' = ax
  BY Zenon DEF SetFileAttribRead
<1>2. /\ Tree(host') /\ fails' \in 0..MaxFail /\ fails <= fails'
      /\ Code(r) \in Answers /\ host' = host
  BY <1>1, AttrServed
<1>3. call.fn = "setattr" /\ ~second
  BY DEF SetFileAttribRead, Handles
<1>4. pc' = "dos" => ax' # "SUCCESS"
  BY <1>1 DEF Return
<1>5. SaysStep
  BY <1>2, <1>3, <1>4 DEF SaysStep
<1>6. ASSUME NEW code \in Answers, Return(code) PROVE Returned
  BY <1>2, <1>3, <1>6, AnswersAreCodes DEF Returned, Return
<1>7. "ACCESS" \in Answers
  BY DEF Answers
<1>8. CASE Return(Code(r)) /\ UNCHANGED <<rest, dest, second>>
  BY <1>2, <1>5, <1>6, <1>8
<1>9. CASE Return("ACCESS") /\ UNCHANGED <<rest, dest, second>>
  BY <1>5, <1>6, <1>7, <1>9
<1>10. CASE /\ second' = TRUE /\ pc' = "lookup"
            /\ rest' = DosPath(call.want) /\ dest' = <<>>
            /\ ax' = ax
  BY <1>2, <1>3, <1>5, <1>10
<1> QED
  BY <1>1, <1>8, <1>9, <1>10

\* The attributes of a file that were set are those that a program reads.
LEMMA FatModes ==
    ASSUME NEW fat \in SUBSET FatAttr, NEW dir \in BOOLEAN
    PROVE  FModeToFatAttr([FatAttrToFMode(fat) EXCEPT !.dir = dir])
               \ {"subdir"} = fat \ {"subdir"}
<1> DEFINE m == [FatAttrToFMode(fat) EXCEPT !.dir = dir]
<1>1. /\ m.dir = dir /\ m.write = ("rdonly" \notin fat)
      /\ m.attr = fat \cap {"hidden", "system", "arch"}
  BY DEF FatAttrToFMode
<1> HIDE DEF m
<1>2. FModeToFatAttr(m) \ {"subdir"} = fat \ {"subdir"}
  BY <1>1 DEF FModeToFatAttr, FatAttr
<1> QED
  BY <1>2 DEF m

LEMMA SetFileAttribDoes ==
    ASSUME CallInv, SetFileAttrib
    PROVE  Returned /\ SaysStep
<1> DEFINE p == Resolve(Path)
           mode == FatAttrToFMode(call.fat)
           does == HostSetAttr(p, mode)
<1>1. PICK r \in Request(does) : Receive(r) /\ Return(Code(r))
  BY DEF SetFileAttrib, VMShfSetAttr
<1>2. call.fat \in SUBSET FatAttr
  BY DEF CallInv, CallOK, Asks, Call
<1>3. /\ Does(does)
      /\ does.status = "SUCCESS" =>
           /\ p \in DOMAIN does.host
           /\ \E dir \in BOOLEAN :
                does.host[p].mode = [mode EXCEPT !.dir = dir]
      /\ \A q \in DOMAIN host \ {p} :
           q \in DOMAIN does.host /\ does.host[q] = host[q]
  <2>1. mode \in FMode
    BY <1>2, FModeIs
  <2> HIDE DEF mode
  <2> QED
    BY <2>1, TargetIs, SetAttrDoes DEF CallInv
<1>4. does.status = "SUCCESS" =>
         FModeToFatAttr(does.host[p].mode) \ {"subdir"}
            = call.fat \ {"subdir"}
  BY <1>2, <1>3, FatModes
<1> HIDE DEF p, does
<1>5. /\ Tree(host') /\ fails' \in 0..MaxFail /\ fails <= fails'
      /\ Code(r) \in Answers
      /\ host' = host \/ host' = does.host
      /\ Code(r) = "SUCCESS" => does.status = "SUCCESS"
                                  /\ host' = does.host
      /\ Code(r) \notin {"SUCCESS", "NOTREADY"} => host' = host
      /\ Portable => target' = p
      /\ ~Portable => Code(r) = "ACCESS" /\ host' = host
  BY <1>1, <1>3, RequestServed DEF CallInv, p
<1>6. pc' = "dos" /\ ax' = Code(r)
  BY <1>1 DEF Return
<1>7. call.fn = "setattr"
  BY DEF SetFileAttrib, Handles
<1>8. Returned
  BY <1>5, <1>6, <1>7, AnswersAreCodes DEF Returned
<1>9. \A q \in DOMAIN host \ {target'} :
          q \in DOMAIN host' /\ host'[q] = host[q]
  BY <1>3, <1>5
<1>10. ax' = "SUCCESS" =>
         FModeToFatAttr(host'[target'].mode) \ {"subdir"}
            = call.fat \ {"subdir"}
  BY <1>4, <1>5, <1>6
<1> QED
  BY <1>5, <1>6, <1>7, <1>8, <1>9, <1>10 DEF SaysStep

LEMMA GetDiskSpaceDoes ==
    ASSUME CallInv, GetDiskSpace
    PROVE  Returned /\ SaysStep
<1>1. PICK r \in VMShfGetDirSize :
        Receive(r) /\ Return(IF r.lost = 1 THEN "none" ELSE "SUCCESS")
  BY DEF GetDiskSpace
<1>2. Tree(host') /\ fails' \in 0..MaxFail /\ fails <= fails' /\ host' = host
  <2>1. CASE pc = "null"
    <3> DEFINE does == HostGetAttr(<<>>)
    <3>1. r \in ExecuteRpc(does)
      BY <2>1 DEF VMShfGetDirSize
    <3>2. Does(does) /\ does.host = host
      BY GetAttrDoes DEF CallInv
    <3> HIDE DEF does
    <3>3. Serves(r, does)
      BY <3>1, <3>2, RpcServed DEF CallInv
    <3>4. /\ host' = r.host /\ fails + r.lost <= MaxFail
          /\ fails' = fails + r.lost
      BY <1>1 DEF Receive, CountFails
    <3>5. Tree(host') /\ host' = host /\ r.lost \in 0..1
      BY <3>2, <3>3, <3>4 DEF Serves
    <3> QED
      BY <3>4, <3>5, PathCallsAssumption DEF CallInv, CountsOK
  <2>2. CASE pc # "null"
    <3>1. r \in VMShfGetAttr
      BY <2>2 DEF VMShfGetDirSize, VMShfGetAttr
    <3> QED
      BY <1>1, <3>1, AttrServed
  <2> QED
    BY <2>1, <2>2
<1>3. call.fn = "space"
  BY DEF GetDiskSpace, Handles
<1>4. Returned
  BY <1>1, <1>2, <1>3 DEF Returned, Return, Codes
<1> QED
  BY <1>2, <1>3, <1>4 DEF SaysStep

\* OpenMeans, step by step.
OpenStep ==
    pc = "lookup" /\ call.fn = "open" /\ changes' = changes =>
        LET p == target'
        IN  /\ pc' = "opened" /\ ~Exists(p) => "create" \in call.ext
            /\ pc' = "opened" /\ Exists(p) =>
                 call.ext \cap {"open", "replace"} # {}
            /\ Exists(p) /\ host'[p].data # host[p].data =>
                 "replace" \in call.ext
            /\ pc' = "opened" /\ "replace" \in call.ext =>
                 ~host'[p].data \/ host'[p].mode.dir
            /\ pc' = "dos" /\ ax' = "FILENOTFND" =>
                 "create" \notin call.ext \/ ~IsDir(Front1(p))

LEMMA OpenOrCreateFileDoes ==
    ASSUME CallInv, OpenOrCreateFile
    PROVE  /\ SaysStep /\ OpenStep
           /\ \/ Returned
              \/ /\ Tree(host') /\ fails' \in 0..MaxFail /\ fails <= fails'
                 /\ pc = "lookup" /\ pc' = "opened" /\ ax' = ax
                 /\ call.fn = "open"
<1> DEFINE p == Resolve(Path)
           action == DosExtActionToOpenAction(call.ext)
           mode == FatAttrToFMode(call.fat)
           does == HostOpenFile(p, action, mode)
           truncates == action \in {"O_TRUNC", "C_ALWAYS"}
           opens == action \in {"O_EXIST", "O_TRUNC"}
<1>1. PICK r \in Request(does) :
        /\ Receive(r)
        /\ IF Code(r) = "SUCCESS" THEN pc' = "opened" /\ UNCHANGED ax
                                  ELSE Return(Code(r))
  BY DEF OpenOrCreateFile, VMShfOpenFile
<1>2. call.fn = "open" /\ call.ext # {} /\ pc \in {"lookup", "null"}
      /\ call.fat \in SUBSET FatAttr
      /\ call.ext \in SUBSET {"create", "open", "replace"}
  BY DEF CallInv, CallOK, Asks, Call, OpenOrCreateFile, Handles
<1>3. /\ action \in Actions
      /\ truncates <=> "replace" \in call.ext
      /\ opens <=> "create" \notin call.ext
      /\ action = "C_NEW" <=> "create" \in call.ext
                                /\ call.ext \cap {"open", "replace"} = {}
  BY <1>2, ActionIs
<1>4. "create" \notin call.ext => call.ext \cap {"open", "replace"} # {}
  BY <1>2
<1>5. mode \in FMode
  BY <1>2, FModeIs
<1> HIDE DEF action, mode
<1>6. /\ Does(does)
      /\ does.status = "SUCCESS" => p \in DOMAIN does.host
      /\ does.status = "SUCCESS" /\ ~Exists(p) => ~opens
      /\ does.status = "SUCCESS" /\ Exists(p) => action # "C_NEW"
      /\ Exists(p) /\ does.host[p].data # host[p].data => truncates
      /\ does.status = "SUCCESS" /\ truncates =>
           ~does.host[p].data \/ does.host[p].mode.dir
      /\ does.status = "ENOTEXIST" => opens \/ ~IsDir(Front1(p))
      /\ \A q \in DOMAIN host \ {p} :
           q \in DOMAIN does.host /\ does.host[q] = host[q]
  BY <1>3, <1>5, TargetIs, OpenFileDoes DEF CallInv
<1> HIDE DEF p, does, truncates, opens
<1>7. /\ Tree(host') /\ fails' \in 0..MaxFail /\ fails <= fails'
      /\ Code(r) \in Answers
      /\ host' = host \/ host' = does.host
      /\ Code(r) = "SUCCESS" => does.status = "SUCCESS"
                                  /\ host' = does.host
      /\ Code(r) \notin {"SUCCESS", "NOTREADY"} => host' = host
      /\ Code(r) = "FILENOTFND" => does.status = "ENOTEXIST"
      /\ Portable => target' = p
      /\ ~Portable => Code(r) = "ACCESS" /\ host' = host
  BY <1>1, <1>6, RequestServed DEF CallInv, p
<1>8. pc' = "opened" <=> Code(r) = "SUCCESS"
  BY <1>1 DEF Return
<1>9. pc' = "dos" => Return(Code(r)) /\ Code(r) # "SUCCESS"
  BY <1>1 DEF Return
<1>10. \A q \in DOMAIN host \ {target'} :
           q \in DOMAIN host' /\ host'[q] = host[q]
  BY <1>6, <1>7
<1>11. SaysStep
  BY <1>2, <1>7, <1>9, <1>10 DEF SaysStep, Return
<1>12. OpenStep
  <2>1. pc' = "opened" =>
          /\ target' = p /\ does.status = "SUCCESS" /\ host' = does.host
    BY <1>7, <1>8
  <2>2. pc' = "opened" /\ ~Exists(target') => "create" \in call.ext
    BY <1>3, <1>6, <2>1
  <2>3. pc' = "opened" /\ Exists(target') =>
          call.ext \cap {"open", "replace"} # {}
    BY <1>3, <1>4, <1>6, <2>1
  <2>4. Exists(target') /\ host'[target'].data # host[target'].data =>
          "replace" \in call.ext
    BY <1>3, <1>6, <1>7
  <2>5. pc' = "opened" /\ "replace" \in call.ext =>
          ~host'[target'].data \/ host'[target'].mode.dir
    BY <1>3, <1>6, <2>1
  <2>6. pc' = "dos" /\ ax' = "FILENOTFND" =>
          "create" \notin call.ext \/ ~IsDir(Front1(target'))
    BY <1>3, <1>6, <1>7, <1>9 DEF Return
  <2> QED
    BY <2>2, <2>3, <2>4, <2>5, <2>6 DEF OpenStep
<1>13. CASE pc' = "opened"
  <2>1. Code(r) = "SUCCESS"
    BY <1>8, <1>13
  <2>2. pc = "lookup"
    BY <1>7, <2>1 DEF Portable
  <2>3. ax' = ax
    BY <1>1, <2>1
  <2> QED
    BY <1>2, <1>7, <1>11, <1>12, <1>13, <2>2, <2>3
<1>14. CASE pc' # "opened"
  <2>1. Return(Code(r))
    BY <1>1, <1>14
  <2>2. Returned
    BY <1>2, <1>7, <2>1, AnswersAreCodes DEF Returned, Return
  <2> QED
    BY <1>11, <1>12, <2>2
<1> QED
  BY <1>13, <1>14

LEMMA OpenedDoes ==
    ASSUME CallInv, Opened
    PROVE  Returned /\ SaysStep
<1> DEFINE does == Status(target, "SUCCESS")
<1>1. PICK r \in ExecuteRpc(does) :
        /\ CountFails(r.lost)
        /\ Return(IF Code(r) = "SUCCESS" /\ IsDir(target) THEN "ACCESS"
                                                         ELSE Code(r))
  BY DEF Opened
<1>2. pc = "opened" /\ host' = host
  BY DEF Opened
<1>3. call.fn = "open"
  BY <1>2 DEF CallInv, PlaceOK
<1>4. Does(does)
  BY StatusIs DEF CallInv
<1> HIDE DEF does
<1>5. Serves(r, does)
  BY <1>1, <1>4, RpcServed DEF CallInv
<1>6. r.lost \in 0..1 /\ Code(r) \in Answers /\ "ACCESS" \in Answers
  BY <1>5 DEF Serves, Answers
<1>7. fails' \in 0..MaxFail /\ fails <= fails'
  <2>1. fails + r.lost <= MaxFail /\ fails' = fails + r.lost
    BY <1>1 DEF CountFails
  <2> QED
    BY <1>6, <2>1, PathCallsAssumption DEF CallInv, CountsOK
<1>8. pc' = "dos" /\ ax' \in Answers
  BY <1>1, <1>6 DEF Return
<1>9. Returned
  BY <1>2, <1>3, <1>7, <1>8, AnswersAreCodes
     DEF Returned, CallInv, HostOK
<1> QED
  BY <1>2, <1>3, <1>9 DEF SaysStep

-----------------------------------------------------------------------------
(* The handlers keep the invariant.                                        *)

LEMMA FixedKept ==
    ASSUME NamesOK, UNCHANGED fixed
    PROVE  NamesOK' /\ W' = W
<1>1. world' = world /\ tables' = tables
  BY DEF fixed
<1>2. W' = W
  BY <1>1 DEF W
<1>3. NamesOK'
  BY <1>1, <1>2, Zenon DEF NamesOK
<1> QED
  BY <1>2, <1>3

\* What no handler changes.
Handling ==
    /\ UNCHANGED <<fixed, call, listing, i, clean, dirs, calls, changes>>
    /\ pc # "read"

LEMMA AtMost ==
    ASSUME NEW a \in Int, NEW b \in Int, NEW c \in Int, a <= b, b <= c
    PROVE  a <= c + 0
  OBVIOUS

LEMMA CallIs ==
    ASSUME CallInv
    PROVE  call.want \in Paths /\ cwd.want \in Paths /\ cwd.path \in Paths
  BY DEF CallInv, CallOK, CwdOK, Asks, Call, Paths

LEMMA HandledKeeps ==
    ASSUME CallInv, Handling,
           Tree(host'), fails' \in 0..MaxFail, fails <= fails',
           CwdOK', LookOK', PlaceOK', CodeOK',
           pc' \in {"dos", "lookup", "opened"}, second' \in BOOLEAN
    PROVE  CallInv'
<1>1. NamesOK' /\ W' = W
  BY FixedKept DEF CallInv, Handling
<1>2. HostOK' /\ PcOK'
  BY DEF HostOK, PcOK
<1>3. CallOK'
  BY <1>1 DEF CallInv, CallOK, Handling
<1>4. ListOK'
  BY DEF CallInv, ListOK, Handling
<1>5. FlagsOK'
  BY Zenon DEF CallInv, FlagsOK, Handling
<1>6. DirsOK'
  <2>1. dirs' = dirs /\ dirs \in Nat /\ fails \in Int /\ fails' \in Int
    BY PathCallsAssumption DEF CallInv, DirsOK, CountsOK, Handling
  <2>2. dirs <= fails
    BY <2>1 DEF CallInv, DirsOK, LeakBound, Handling
  <2>3. pc' # "read"
    OBVIOUS
  <2>4. dirs' <= fails' + 0
    BY <2>1, <2>2, AtMost, dirs \in Int, Zenon
  <2>5. dirs' \in Nat
    BY <2>1
  <2>6. LeakBound'
    BY <2>3, <2>4 DEF LeakBound
  <2> QED
    BY <2>3, <2>5, <2>6, Zenon DEF DirsOK
<1>7. CountsOK'
  BY <1>1 DEF CallInv, CountsOK, Handling
<1> QED
  BY <1>1, <1>2, <1>3, <1>4, <1>5, <1>6, <1>7, Zenon DEF CallInv

LEMMA SameCwd ==
    ASSUME CwdOK, UNCHANGED <<cwd, tables>>
    PROVE  CwdOK'
<1>1. cwd' = cwd
  OBVIOUS
<1> QED
  BY <1>1 DEF CwdOK

LEMMA SameLook ==
    ASSUME LookOK, UNCHANGED <<rest, dest, tables>>
    PROVE  LookOK'
<1>1. rest' = rest /\ dest' = dest
  OBVIOUS
<1> QED
  BY <1>1 DEF LookOK

\* A call that returns keeps the invariant.
LEMMA ReturnKeeps ==
    ASSUME CallInv, Handling, Returned, UNCHANGED <<rest, dest, second>>,
           CwdOK'
    PROVE  CallInv'
<1>1. tables' = tables /\ call' = call
  BY DEF Handling, fixed
<1>2. LookOK'
  BY <1>1, SameLook DEF CallInv
<1>3. PlaceOK' /\ CodeOK'
  BY <1>1 DEF Returned, PlaceOK, CodeOK
<1>4. second' \in BOOLEAN
  BY Zenon DEF CallInv, FlagsOK
<1> QED
  BY <1>2, <1>3, <1>4, HandledKeeps DEF Returned

LEMMA ChDirKeeps ==
    ASSUME CallInv, Handling, ChDir
    PROVE  CallInv'
<1>1. tables' = tables /\ NamesOK'
  BY FixedKept DEF Handling, fixed, CallInv
<1>2. Returned /\ (cwd' = cwd \/ Copied)
  BY ChDirDoes
<1>3. UNCHANGED <<rest, dest, second>> /\ call.fn = "chdir"
  BY DEF ChDir, Handles
<1>4. CwdOK'
  <2>1. CASE cwd' = cwd
    BY <1>1, <2>1, SameCwd DEF CallInv
  <2>2. CASE Copied
    <3>1. call.want \in Paths
      BY CallIs
    <3>2. /\ DosPath(call.want) \in Paths
          /\ Len(DosPath(call.want)) = Len(call.want)
          /\ call.want \in Paths
      BY <3>1, DosPathIs DEF CallInv
    <3>3. cwd' = [path |-> DosPath(call.want), want |-> call.want]
      BY <2>2 DEF Copied
    <3>4. cwd'.path = DosPath(call.want) /\ cwd'.want = call.want
      BY <3>3
    <3> QED
      BY <3>2, <3>3, <3>4 DEF CwdOK
  <2> QED
    BY <1>2, <2>1, <2>2
<1> QED
  BY <1>2, <1>3, <1>4, ReturnKeeps

LEMMA SetFileAttribReadKeeps ==
    ASSUME CallInv, Handling, SetFileAttribRead
    PROVE  CallInv'
<1>1. tables' = tables /\ call' = call
  BY DEF Handling, fixed
<1>2. CwdOK'
  <2>1. cwd' = cwd
    BY DEF SetFileAttribRead
  <2> QED
    BY <1>1, <2>1, SameCwd DEF CallInv
<1>3. CASE Returned /\ UNCHANGED <<rest, dest, second>>
  BY <1>2, <1>3, ReturnKeeps
<1>4. CASE /\ Tree(host') /\ fails' \in 0..MaxFail /\ fails <= fails'
           /\ ~second /\ second' /\ pc' = "lookup"
           /\ rest' = DosPath(call.want) /\ dest' = <<>>
           /\ ax' = ax
  <2>1. call.fn = "setattr" /\ call.want \in Paths
    BY CallIs DEF SetFileAttribRead, Handles
  <2>2. /\ DosPath(call.want) \in Paths
        /\ Len(DosPath(call.want)) = Len(call.want) /\ call.want \in Paths
    BY <2>1, DosPathIs DEF CallInv
  <2>4. <<>> \in Paths /\ Len(<<>>) = 0
    BY EmptySeq DEF Paths
  <2>5. LookOK'
    BY <1>4, <2>2, <2>4, SizeEmpty, PathCallsAssumption
       DEF LookOK
  <2>6. PlaceOK'
    <3>1. Len(dest') + Len(rest') = Len(call'.want)
      <4>1. Len(call.want) \in Nat
        BY <2>2, Names1
      <4> QED
        BY <1>1, <1>4, <2>2, <2>4, <4>1
    <3> QED
      BY <1>1, <1>4, <2>1, <3>1 DEF PlaceOK
  <2>7. CodeOK'
    BY <1>1, <1>4 DEF CallInv, CodeOK
  <2>8. second' \in BOOLEAN
    <3>1. second' = TRUE
      <4>1. \E r \in VMShfGetAttr : pc' = "lookup" => second' = TRUE
        BY Zenon DEF SetFileAttribRead, Return
      <4> QED
        BY <1>4, <4>1
    <3> QED
      BY <3>1
  <2> QED
    BY <1>2, <1>4, <2>5, <2>6, <2>7, <2>8, HandledKeeps
<1> QED
  BY <1>3, <1>4, SetFileAttribReadDoes

LEMMA OpenOrCreateFileKeeps ==
    ASSUME CallInv, Handling, OpenOrCreateFile
    PROVE  CallInv'
<1>1. tables' = tables /\ call' = call /\ UNCHANGED <<cwd, rest, dest, second>>
  BY DEF Handling, fixed, OpenOrCreateFile
<1>2. CwdOK' /\ LookOK'
  BY <1>1, SameCwd, SameLook DEF CallInv
<1>3. CASE Returned
  BY <1>1, <1>2, <1>3, ReturnKeeps
<1>4. CASE /\ Tree(host') /\ fails' \in 0..MaxFail /\ fails <= fails'
           /\ pc = "lookup" /\ pc' = "opened" /\ ax' = ax
           /\ call.fn = "open"
  <2>1. PlaceOK' /\ CodeOK'
    BY <1>1, <1>4 DEF PlaceOK, CallInv, CodeOK
  <2>2. second' \in BOOLEAN
    BY <1>1, Zenon DEF CallInv, FlagsOK
  <2> QED
    BY <1>2, <1>4, <2>1, <2>2, HandledKeeps
<1> QED
  BY <1>3, <1>4, OpenOrCreateFileDoes

LEMMA HandlerKeeps ==
    ASSUME CallInv, Handler
    PROVE  CallInv'
<1>1. Handling
  <2>1. ASSUME NEW fn, Handles(fn) PROVE pc # "read"
    BY <2>1 DEF Handles
  <2>2. \/ \E fn : Handles(fn)
        \/ pc = "opened"
    BY Zenon DEF Handler, RmDir, MkDir, ChDir, GetFileAttrib,
         SetFileAttribRead, SetFileAttrib, GetDiskSpace, OpenOrCreateFile,
         Opened
  <2>3. UNCHANGED <<fixed, call, listing, i, clean, dirs, calls, changes>>
    BY Zenon DEF Handler
  <2> QED
    BY <2>1, <2>2, <2>3 DEF Handling
<1>2. ASSUME UNCHANGED <<cwd, rest, dest, second>>, Returned PROVE CallInv'
  <2>1. CwdOK'
    BY <1>1, <1>2, SameCwd DEF CallInv, Handling, fixed
  <2> QED
    BY <1>1, <1>2, <2>1, ReturnKeeps
<1>3. CASE RmDir
  BY <1>2, <1>3, RmDirDoes DEF RmDir
<1>4. CASE MkDir
  BY <1>2, <1>4, MkDirDoes DEF MkDir
<1>5. CASE ChDir
  BY <1>1, <1>5, ChDirKeeps
<1>6. CASE GetFileAttrib
  BY <1>2, <1>6, GetFileAttribDoes DEF GetFileAttrib
<1>7. CASE SetFileAttribRead
  BY <1>1, <1>7, SetFileAttribReadKeeps
<1>8. CASE SetFileAttrib
  BY <1>2, <1>8, SetFileAttribDoes DEF SetFileAttrib
<1>9. CASE GetDiskSpace
  BY <1>2, <1>9, GetDiskSpaceDoes DEF GetDiskSpace
<1>10. CASE OpenOrCreateFile
  BY <1>1, <1>10, OpenOrCreateFileKeeps
<1>11. CASE Opened
  <2>1. UNCHANGED <<cwd, rest, dest, second>>
    BY <1>11 DEF Opened
  <2> QED
    BY <1>2, <1>11, <2>1, OpenedDoes
<1> QED
  BY <1>3, <1>4, <1>5, <1>6, <1>7, <1>8, <1>9, <1>10, <1>11 DEF Handler

-----------------------------------------------------------------------------
(* Other steps outside a lookup.                                           *)

LEMMA DistinctIs ==
    ASSUME NEW path
    PROVE  Distinct(path) \in BOOLEAN
  BY Zenon DEF Distinct

\* A call begins.
LEMMA StartKeeps ==
    ASSUME CallInv, NEW c, NEW path \in Paths, Start(c, path),
           Asks(c),
           pc' \in {"lookup", "null"}, ax' = "SUCCESS",
           pc' = "lookup" => Len(path) = Len(c.want),
           c.fn = "space" => c.want = cwd.want \/ pc' = "null"
    PROVE  CallInv'
<1>1. /\ pc = "dos" /\ calls < W.most /\ calls' = calls + 1
      /\ call' = c /\ rest' = path /\ dest' = <<>>
      /\ second' = FALSE /\ clean' = Distinct(c.want)
      /\ UNCHANGED <<host, cwd, listing, i, target, dirs, fails, changes>>
  BY DEF Start
<1>2. UNCHANGED fixed
  BY DEF Start
<1>3. tables' = tables /\ NamesOK' /\ W' = W
  BY <1>2, FixedKept DEF CallInv, fixed
<1>4. HostOK' /\ PcOK'
  BY <1>1 DEF CallInv, HostOK, PcOK
<1>5. CwdOK'
  BY <1>1, <1>3, SameCwd DEF CallInv
<1>6. CallOK'
  BY <1>1, <1>3 DEF CallOK
<1>7. LookOK'
  <2>1. <<>> \in Paths
    BY EmptySeq DEF Paths
  <2> QED
    BY <1>1, <1>3, <2>1, SizeEmpty, PathCallsAssumption DEF LookOK
<1>8. ListOK'
  BY <1>1 DEF CallInv, ListOK
<1>9. PlaceOK'
  <2>1. ASSUME pc' = "lookup" PROVE Len(dest') + Len(rest') = Len(call'.want)
    <3>1. Len(dest') = 0 /\ Len(rest') = Len(call'.want)
      BY <1>1, <2>1, EmptySeq
    <3>2. Len(path) \in Nat
      BY LenProperties
    <3> QED
      BY <1>1, <3>1, <3>2
  <2> QED
    BY <1>1, <2>1 DEF PlaceOK
<1>10. FlagsOK'
  <2>1. second' \in BOOLEAN
    BY <1>1
  <2>2. clean' \in BOOLEAN
    BY <1>1, DistinctIs
  <2> QED
    BY <2>1, <2>2, Zenon DEF FlagsOK
<1>11. CodeOK'
  BY DEF CodeOK, Codes
<1>12. DirsOK'
  BY <1>1 DEF CallInv, DirsOK, LeakBound
<1>13. CountsOK'
  <2>1. W.most \in Nat
    BY WorldIs DEF CallInv, NamesOK
  <2> QED
    BY <1>1, <1>3, <2>1 DEF CallInv, CountsOK
<1> QED
  BY <1>3, <1>4, <1>5, <1>6, <1>7, <1>8, <1>9, <1>10, <1>11, <1>12, <1>13,
     Zenon DEF CallInv

LEMMA StartCallKeeps ==
    ASSUME CallInv, StartCall
    PROVE  CallInv'
<1>1. PICK c \in W.calls :
        /\ c.fn # "space" /\ Start(c, DosPath(c.want))
        /\ pc' = "lookup" /\ ax' = "SUCCESS"
  BY DEF StartCall
<1>2. Asks(c)
  BY WorldIs DEF CallInv, NamesOK
<1>3. /\ DosPath(c.want) \in Paths
      /\ Len(DosPath(c.want)) = Len(c.want)
  <2>1. c.want \in Paths
    BY <1>2 DEF Asks, Call, Paths
  <2> QED
    BY <2>1, DosPathIs DEF CallInv
<1> QED
  BY <1>1, <1>2, <1>3, StartKeeps

LEMMA StartSpaceKeeps ==
    ASSUME CallInv, StartSpace
    PROVE  CallInv'
<1>1. PICK c \in W.calls :
        /\ c.fn = "space"
        /\ IF c.flag THEN Start([c EXCEPT !.want = cwd.want], cwd.path)
                     ELSE Start([c EXCEPT !.want = <<>>], <<>>)
        /\ pc' = (IF c.flag THEN "lookup" ELSE "null") /\ ax' = "SUCCESS"
  BY DEF StartSpace
<1>2. Asks(c)
  BY WorldIs DEF CallInv, NamesOK
<1>3. CASE c.flag
  <2> DEFINE d == [c EXCEPT !.want = cwd.want]
  <2>1. /\ cwd.path \in Paths /\ cwd.want \in Seq(Name)
        /\ Len(cwd.path) = Len(cwd.want)
    BY DEF CallInv, CwdOK, Paths
  <2>2. d \in Call /\ d.fn = "space" /\ d.want = cwd.want
    BY <1>1, <1>2, <2>1 DEF Asks, Call
  <2>3. Asks(d)
    BY <2>2 DEF Asks
  <2>4. Start(d, cwd.path) /\ pc' = "lookup" /\ ax' = "SUCCESS"
    BY <1>1, <1>3
  <2> HIDE DEF d
  <2> QED
    BY <2>1, <2>2, <2>3, <2>4, StartKeeps
<1>4. CASE ~c.flag
  <2> DEFINE d == [c EXCEPT !.want = <<>>]
  <2>1. <<>> \in Paths /\ <<>> \in Seq(Name)
    BY EmptySeq DEF Paths
  <2>2. d \in Call /\ d.fn = "space"
    BY <1>1, <1>2, <2>1 DEF Asks, Call
  <2>3. Asks(d)
    BY <2>2 DEF Asks
  <2>4. Start(d, <<>>) /\ pc' = "null" /\ ax' = "SUCCESS"
    BY <1>1, <1>4
  <2> HIDE DEF d
  <2> QED
    BY <2>1, <2>2, <2>3, <2>4, StartKeeps
<1> QED
  BY <1>3, <1>4

\* Only the host changes.
LEMMA HostKeeps ==
    ASSUME CallInv, Tree(host'),
           UNCHANGED <<fixed, cwd, pc, call, search, second, ax, dirs, fails>>,
           clean' \in BOOLEAN,
           calls' \in 0..W.most, changes' \in 0..MaxChange
    PROVE  CallInv'
<1>1. UNCHANGED <<cwd, pc, call, rest, dest, listing, i, second, ax, dirs,
                  fails, tables>>
  BY DEF search, fixed
<1>2. NamesOK' /\ W' = W
  BY FixedKept DEF CallInv
<1>3. HostOK' /\ PcOK'
  BY <1>1 DEF CallInv, HostOK, PcOK
<1>4. CwdOK' /\ LookOK'
  BY <1>1, SameCwd, SameLook DEF CallInv
<1>5. CallOK'
  BY <1>1, <1>2 DEF CallInv, CallOK
<1>6. ListOK' /\ PlaceOK'
  BY <1>1 DEF CallInv, ListOK, PlaceOK
<1>7. FlagsOK'
  BY <1>1, Zenon DEF CallInv, FlagsOK
<1>8. CodeOK' /\ DirsOK'
  BY <1>1 DEF CallInv, CodeOK, DirsOK, LeakBound
<1>9. CountsOK'
  BY <1>1, <1>2, Zenon DEF CallInv, CountsOK
<1> QED
  BY <1>2, <1>3, <1>4, <1>5, <1>6, <1>7, <1>8, <1>9, Zenon DEF CallInv

\* Nothing is below a path when its directory is not.
LEMMA BelowIs ==
    ASSUME NEW p \in Paths, p # <<>>
    PROVE  /\ ~IsPrefix(p, <<>>)
           /\ \A q \in Paths \ {<<>>} :
                ~IsPrefix(p, q) => ~IsPrefix(p, Front1(q))
<1>1. Len(p) \in Nat /\ Len(p) >= 1
  BY EmptySeq DEF Paths
<1>2. ~IsPrefix(p, <<>>)
  BY <1>1 DEF IsPrefix
<1>3. ASSUME NEW q \in Paths \ {<<>>}, IsPrefix(p, Front1(q))
      PROVE  IsPrefix(p, q)
  <2>1. Len(q) \in Nat /\ Len(q) >= 1
    BY EmptySeq DEF Paths
  <2> DEFINE n == Len(q) - 1
             f == SubSeq(q, 1, n)
  <2>2. f \in Paths /\ Len(f) = n /\ \A k \in 1..n : f[k] = q[k]
    <3> HIDE DEF f
    <3>1. q \in Seq(Name) /\ 1 \in 1..Len(q) + 1 /\ n \in Int
          /\ 1 - 1 <= n /\ n <= Len(q)
      BY <2>1 DEF Paths
    <3>2. /\ SubSeq(q, 1, n) \in Seq(Name)
          /\ Len(SubSeq(q, 1, n)) = n - 1 + 1
          /\ \A k \in 1..n - 1 + 1 : SubSeq(q, 1, n)[k] = q[1 + k - 1]
      BY <3>1, PartIs
    <3>3. n - 1 + 1 = n /\ \A k \in 1..n : 1 + k - 1 = k
      BY <2>1
    <3> QED
      BY <3>2, <3>3 DEF Paths, f
  <2>3. IsPrefix(p, f)
    BY <1>3 DEF Front1
  <2> HIDE DEF f
  <2>4. Len(p) <= n /\ SubSeq(p, 1, Len(p)) = SubSeq(f, 1, Len(p))
    BY <2>2, <2>3 DEF IsPrefix
  <2>5. SubSeq(f, 1, Len(p)) = SubSeq(q, 1, Len(p))
    BY <1>1, <2>1, <2>2, <2>4 DEF Paths
  <2> QED
    BY <1>1, <2>1, <2>4, <2>5 DEF IsPrefix
<1> QED
  BY <1>2, <1>3

LEMMA HostChangeKeeps ==
    ASSUME CallInv, HostChange
    PROVE  CallInv'
<1>1. PICK p \in W.others :
        \/ /\ Exists(p)
           /\ host' = [q \in {q \in DOMAIN host : ~IsPrefix(p, q)} |-> host[q]]
        \/ /\ ~Exists(p) /\ IsDir(Front1(p))
           /\ host' = Put(p, New(FALSE, {})).host
  BY Zenon DEF HostChange
<1>2. p \in Paths /\ p # <<>>
  BY <1>1, WorldIs DEF CallInv, NamesOK
<1>3. Tree(host')
  <2>1. CASE host' = [q \in {q \in DOMAIN host : ~IsPrefix(p, q)} |-> host[q]]
    <3> DEFINE left == {q \in DOMAIN host : ~IsPrefix(p, q)}
    <3>1. HostOK /\ DOMAIN host \subseteq Paths
      BY TreeIs DEF CallInv, HostPaths
    <3>2. <<>> \in left
      BY <1>2, <3>1, BelowIs, TreeIs
    <3>3. ASSUME NEW q \in left \ {<<>>} PROVE Front1(q) \in left
      <4>1. Front1(q) \in DOMAIN host
        BY <3>1, TreeIs DEF IsDir, Exists
      <4> QED
        BY <1>2, <3>1, <4>1, BelowIs
    <3>4. left \in SUBSET DOMAIN host
      OBVIOUS
    <3> HIDE DEF left
    <3>5. Tree([q \in left |-> host[q]])
      BY <3>1, <3>2, <3>3, <3>4, Removed
    <3> QED
      BY <2>1, <3>5 DEF left
  <2>2. CASE /\ ~Exists(p) /\ IsDir(Front1(p))
             /\ host' = Put(p, New(FALSE, {})).host
    <3>1. New(FALSE, {}) \in Node
      BY NewIs DEF CallInv, NamesOK
    <3>2. ~IsDir(p)
      BY <2>2 DEF IsDir
    <3> QED
      BY <1>2, <2>2, <3>1, <3>2, PutIs DEF CallInv
  <2> QED
    BY <1>1, <2>1, <2>2
<1>4. clean' \in BOOLEAN
  <2>1. clean' = (clean /\ pc = "dos")
    BY DEF HostChange
  <2> QED
    BY <2>1, Zenon
<1>5. changes' \in 0..MaxChange /\ calls' \in 0..W.most
  BY PathCallsAssumption DEF HostChange, CallInv, CountsOK
<1>6. UNCHANGED <<fixed, cwd, pc, call, search, second, ax, dirs, fails>>
  BY DEF HostChange
<1> QED
  BY <1>3, <1>4, <1>5, <1>6, HostKeeps

LEMMA CloseWithDateOfKeeps ==
    ASSUME CallInv, NEW from, NEW to, CloseWithDateOf(from, to)
    PROVE  CallInv'
<1> DEFINE gmt == W.opt.gmtOffset
           t == FatTimeToFTime(FTimeToFatTime(host[from].time, gmt), gmt)
<1>1. Exists(from) /\ Exists(to) /\ host' = [host EXCEPT ![to].time = t]
  BY DEF CloseWithDateOf
<1>2. t \in FTime
  <2>1. host[from].time \in FTime
    BY <1>1, TreeIs DEF CallInv, Exists, Node
  <2>2. gmt \in -SECSPERDAY..SECSPERDAY
    BY OptionIs DEF CallInv, NamesOK
  <2> QED
    BY <2>1, <2>2, CopiedTime, Zenon
<1> HIDE DEF t
<1>3. Tree(host')
  <2>1. DOMAIN host' = DOMAIN host
    BY <1>1
  <2>2. IsFiniteSet(DOMAIN host') /\ DOMAIN host' \subseteq Seq(Name)
    BY <2>1 DEF CallInv, HostOK, Tree
  <2>3. ASSUME NEW p \in DOMAIN host
        PROVE  host'[p] \in Node /\ host'[p].mode = host[p].mode
    <3>1. host[p] \in Node
      BY TreeIs DEF CallInv
    <3>2. CASE p = to
      <4>1. host'[p] = [host[p] EXCEPT !.time = t]
        BY <1>1, <3>2
      <4> QED
        BY <1>2, <3>1, <4>1 DEF Node
    <3>3. CASE p # to
      BY <1>1, <3>1, <3>3
    <3> QED
      BY <3>2, <3>3
  <2>4. <<>> \in DOMAIN host /\ host[<<>>].mode.dir
    BY TreeIs DEF CallInv
  <2>5. ASSUME NEW q \in DOMAIN host \ {<<>>}
        PROVE  Front1(q) \in DOMAIN host' /\ host'[Front1(q)].mode.dir
    <3>1. Front1(q) \in DOMAIN host /\ host[Front1(q)].mode.dir
      BY TreeIs DEF CallInv, IsDir, Exists
    <3> QED
      BY <2>1, <2>3, <3>1
  <2> QED
    BY <2>1, <2>2, <2>3, <2>4, <2>5, Zenon DEF Tree
<1>4. clean' \in BOOLEAN
  BY Zenon DEF CloseWithDateOf, CallInv, FlagsOK
<1>5. calls' \in 0..W.most /\ changes' \in 0..MaxChange
  <2>1. W.most \in Nat
    BY WorldIs DEF CallInv, NamesOK
  <2> QED
    BY <2>1 DEF CloseWithDateOf, CallInv, CountsOK
<1>6. UNCHANGED <<fixed, cwd, pc, call, search, second, ax, dirs, fails>>
  BY DEF CloseWithDateOf
<1> QED
  BY <1>3, <1>4, <1>5, <1>6, HostKeeps

-----------------------------------------------------------------------------
(* The lookup.                                                             *)

LEMMA TakeIs ==
    ASSUME NEW S, NEW s \in Seq(S), NEW n \in 0..Len(s)
    PROVE  /\ Take(s, n) \in Seq(S) /\ Len(Take(s, n)) = n
           /\ \A k \in 1..n : Take(s, n)[k] = s[k]
           /\ IsPrefix(Take(s, n), s)
<1>1. Len(s) \in Nat /\ \A k \in 1..Len(s) : s[k] \in S
  BY LenProperties, ElementOfSeq
<1>2. Take(s, n) = SubSeq(s, 1, n)
  BY <1>1 DEF Take
<1> DEFINE t == SubSeq(s, 1, n)
<1>3. t \in Seq(S) /\ Len(t) = n /\ \A k \in 1..n : t[k] = s[k]
  <2>1. \A k \in 1..n : s[k] \in S
    BY <1>1
  <2>2. 1 \in Int /\ n \in Int /\ n \in Nat
    BY <1>1
  <2>3. /\ t \in Seq(S) /\ Len(t) = IF 1 <= n THEN n - 1 + 1 ELSE 0
        /\ \A k \in 1..n - 1 + 1 : t[k] = s[1 + k - 1]
    BY <2>1, <2>2, SubSeqProperties
  <2> HIDE DEF t
  <2>4. Len(t) = n
    BY <2>2, <2>3
  <2>5. ASSUME NEW k \in 1..n PROVE t[k] = s[k]
    <3>1. k \in 1..n - 1 + 1 /\ 1 + k - 1 = k
      BY <2>2
    <3> QED
      BY <2>3, <3>1
  <2> QED
    BY <2>3, <2>4, <2>5
<1> HIDE DEF t
<1>4. SubSeq(t, 1, n) = t
  <2>1. n \in 0..Len(t) /\ Len(t) \in Nat
    BY <1>1, <1>3
  <2>2. SubSeq(t, 1, Len(t)) = t
    BY <1>3, SubSeqFull
  <2> QED
    BY <1>3, <2>2
<1> QED
  BY <1>1, <1>2, <1>3, <1>4 DEF IsPrefix, t

\* Where a lookup gives up it leaves a current directory.
LEMMA NullIs ==
    ASSUME CallInv, pc \in {"lookup", "read"}, tables' = tables,
           NEW path, Len(path) \in Nat, Len(path) < Len(call.want),
           Null(path)
    PROVE  /\ CwdOK' /\ CwdStep
           /\ pc' = "null" /\ rest' = rest /\ dest' = dest
<1>1. pc' = "null" /\ rest' = rest /\ dest' = dest
  BY DEF Null
<1>2. CASE call.fn = "space"
  <2> DEFINE n == Len(path)
  <2>1. /\ call.want = cwd.want /\ CwdOK
        /\ cwd.path \in Paths /\ cwd.want \in Seq(Name)
        /\ Len(cwd.path) = Len(cwd.want)
    BY <1>2 DEF CallInv, PlaceOK, CwdOK, Paths
  <2>2. Len(cwd.path) \in Nat
    BY <2>1, LenProperties
  <2>3. n \in 0..Len(cwd.path) /\ n \in 0..Len(cwd.want) /\ n # Len(cwd.path)
    BY <2>1, <2>2
  <2>4. cwd' = [path |-> Take(cwd.path, n), want |-> Take(cwd.want, n)]
    BY <1>2 DEF Null
  <2> HIDE DEF n
  <2>5. /\ Take(cwd.path, n) \in Paths
        /\ Len(Take(cwd.path, n)) = n
        /\ IsPrefix(Take(cwd.path, n), cwd.path)
    BY <2>1, <2>3, TakeIs DEF Paths
  <2>6. Take(cwd.want, n) \in Seq(Name) /\ Len(Take(cwd.want, n)) = n
    BY <2>1, <2>3, TakeIs
  <2>7. cwd'.path = Take(cwd.path, n) /\ cwd'.want = Take(cwd.want, n)
    BY <2>4
  <2>8. CwdOK'
    BY <2>4, <2>5, <2>6, <2>7 DEF CwdOK, Paths
  <2>9. CwdStep
    BY <1>2, <2>3, <2>5, <2>7 DEF CwdStep, IsStrictPrefix
  <2> QED
    BY <1>1, <2>8, <2>9
<1>3. CASE call.fn # "space"
  <2>1. cwd' = cwd
    BY <1>3 DEF Null
  <2> QED
    BY <1>1, <2>1, SameCwd DEF CwdStep, CallInv
<1> QED
  BY <1>2, <1>3

\* What every step of a lookup keeps.
Looking ==
    /\ UNCHANGED <<fixed, host, call, second, ax, target, history>>
    /\ pc \in {"lookup", "read"}

LEMMA LookingKeeps ==
    ASSUME CallInv, Looking,
           CwdOK', LookOK', ListOK', PlaceOK', DirsOK',
           pc' \in {"lookup", "read", "null"},
           clean' \in BOOLEAN, fails' \in 0..MaxFail
    PROVE  CallInv'
<1>1. UNCHANGED <<fixed, host, call, second, ax, calls, changes>>
  BY DEF Looking, history
<1>2. NamesOK' /\ W' = W
  BY <1>1, FixedKept DEF CallInv
<1>3. HostOK' /\ PcOK'
  BY <1>1 DEF CallInv, HostOK, PcOK
<1>4. CallOK' /\ CodeOK'
  BY <1>1, <1>2 DEF CallInv, CallOK, CodeOK
<1>5. FlagsOK'
  BY <1>1, Zenon DEF CallInv, FlagsOK
<1>6. CountsOK'
  BY <1>1, <1>2 DEF CallInv, CountsOK
<1> QED
  BY <1>2, <1>3, <1>4, <1>5, <1>6, Zenon DEF CallInv

\* A name that fits is added.
LEMMA AppendKeeps ==
    ASSUME CallInv, Looking,
           NEW path \in Paths, NEW names \in Paths, names # <<>>,
           Len(path) + Len(names) = Len(call.want),
           NEW name \in Name, Len(name) <= Room(path),
           dest' = Append(path, name), rest' = Tail(names), pc' = "lookup",
           cwd' = cwd
    PROVE  /\ CwdOK' /\ LookOK' /\ PlaceOK' /\ CwdStep
           /\ Len(dest') = Len(path) + 1
           /\ Len(dest') + Len(rest') = Len(call.want)
<1>1. tables' = tables /\ call' = call
  BY DEF Looking, fixed
<1>2. CwdOK' /\ CwdStep
  BY <1>1, SameCwd DEF CallInv, CwdStep
<1>3. /\ Len(path) \in Nat /\ Len(names) \in Nat /\ Len(name) \in Nat
      /\ Tail(names) \in Paths /\ Len(Tail(names)) = Len(names) - 1
      /\ Append(path, name) \in Paths
      /\ Len(Append(path, name)) = Len(path) + 1
  <2>1. Tail(names) \in Paths /\ Len(Tail(names)) = Len(names) - 1
    BY HeadTailProperties DEF Paths
  <2>2. Len(path) \in Nat /\ Len(names) \in Nat
    BY LenProperties DEF Paths
  <2>3. Len(name) \in Nat
    BY LenProperties DEF Name
  <2>4. Append(path, name) \in Paths
        /\ Len(Append(path, name)) = Len(path) + 1
    BY AppendProperties DEF Paths
  <2> QED
    BY <2>1, <2>2, <2>3, <2>4
<1>4. Size(dest') <= MaxPath
  <2>1. Size(Append(path, name)) = Size(path) + 1 + Len(name)
    BY SizeAppend
  <2>2. Len(name) <= MaxPath - (Size(path) + 1)
    BY DEF Room
  <2>3. Size(path) \in Nat /\ MaxPath \in Nat
    BY SizeNat, PathCallsAssumption
  <2> QED
    BY <1>3, <2>1, <2>2, <2>3
<1>5. LookOK'
  BY <1>1, <1>3, <1>4 DEF LookOK
<1>6. Len(dest') + Len(rest') = Len(call.want)
  <2>1. Len(dest') = Len(path) + 1 /\ Len(rest') = Len(names) - 1
    BY <1>3, Zenon
  <2>2. (Len(path) + 1) + (Len(names) - 1) = Len(path) + Len(names)
    BY <1>3
  <2> QED
    BY <2>1, <2>2, Zenon
<1>7. PlaceOK'
  BY <1>1, <1>6 DEF PlaceOK, CallInv, Looking
<1> QED
  BY <1>2, <1>3, <1>5, <1>6, <1>7

LEMMA NotFoundIs ==
    ASSUME CallInv, Looking,
           NEW path \in Paths, NEW names \in Paths, names # <<>>,
           Len(path) + Len(names) = Len(call.want),
           NotFound(path, names)
    PROVE  /\ CwdOK' /\ LookOK' /\ PlaceOK' /\ CwdStep
           /\ \/ pc' = "null"
              \/ /\ pc' = "lookup" /\ Len(dest') = Len(path) + 1
                 /\ Len(dest') + Len(rest') = Len(call.want)
<1>1. /\ Len(path) \in Nat /\ Len(names) \in Nat /\ Len(names) # 0
      /\ names[1] \in Name
  <2>1. Len(path) \in Nat /\ Len(names) \in Nat /\ Len(names) # 0
    BY LenProperties, EmptySeq DEF Paths
  <2> QED
    BY <2>1, ElementOfSeq DEF Paths
<1>2. CASE Null(path)
  <2>1. Len(path) < Len(call.want)
    BY <1>1
  <2>2. tables' = tables /\ pc \in {"lookup", "read"}
    BY DEF Looking, fixed
  <2>3. /\ CwdOK' /\ CwdStep
        /\ pc' = "null" /\ rest' = rest /\ dest' = dest
    BY <1>1, <1>2, <2>1, <2>2, NullIs
  <2>4. LookOK'
    BY <2>2, <2>3, SameLook DEF CallInv
  <2>5. PlaceOK'
    BY <2>3 DEF PlaceOK
  <2> QED
    BY <2>3, <2>4, <2>5
<1>3. CASE /\ Len(names[1]) + 2 <= Room(path)
           /\ dest' = Append(path, names[1]) /\ rest' = Tail(names)
           /\ pc' = "lookup"
           /\ UNCHANGED cwd
  <2>1. names[1] \in Name
    BY <1>1 DEF CallInv, NamesOK
  <2>2. Len(names[1]) <= Room(path)
    <3>1. Size(path) \in Nat /\ MaxPath \in Nat /\ Len(names[1]) \in Nat
      BY <2>1, SizeNat, PathCallsAssumption, LenProperties DEF Name
    <3> QED
      BY <1>3, <3>1 DEF Room
  <2>3. /\ CwdOK' /\ LookOK' /\ PlaceOK' /\ CwdStep
        /\ Len(dest') = Len(path) + 1
        /\ Len(dest') + Len(rest') = Len(call.want)
    BY <1>3, <2>1, <2>2, AppendKeeps
  <2> QED
    BY <1>3, <2>3
<1> QED
  BY <1>2, <1>3 DEF NotFound

-----------------------------------------------------------------------------
(* Calls advance.                                                          *)

AdvanceStep ==
    pc # "dos" /\ pc' # "dos" /\ changes' = changes =>
        /\ Before(Place, Place')
        /\ pc' = "read" => i' <= Len(listing')
        /\ pc' \in {"lookup", "read"} /\ second' = second =>
             Len(dest') + Len(rest') = Len(dest) + Len(rest)

LEMMA BeforeAt ==
    ASSUME NEW k \in 1..6, NEW s, NEW t,
           DOMAIN s = 1..6, s[k] < t[k], \A l \in 1..k - 1 : s[l] = t[l]
    PROVE  Before(s, t)
  BY DEF Before

LEMMA PlaceIs ==
    /\ DOMAIN Place = 1..6
    /\ Place[1] = IF second THEN 1 ELSE 0
    /\ Place[2] = IF pc = "null" THEN 1 ELSE 0
    /\ Place[3] = IF pc = "opened" THEN 1 ELSE 0
    /\ Place[4] = Len(dest)
    /\ Place[5] = IF pc = "read" THEN 1 ELSE 0
    /\ Place[6] = i
  BY DEF Place

LEMMA PlacePrimed ==
    /\ Place'[1] = IF second' THEN 1 ELSE 0
    /\ Place'[2] = IF pc' = "null" THEN 1 ELSE 0
    /\ Place'[3] = IF pc' = "opened" THEN 1 ELSE 0
    /\ Place'[4] = Len(dest')
    /\ Place'[5] = IF pc' = "read" THEN 1 ELSE 0
    /\ Place'[6] = i'
  BY DEF Place

\* How a step can bring a call on.
LEMMA PlaceGrows ==
    ASSUME \/ ~second /\ second'
           \/ second' = second /\ pc # "null" /\ pc' = "null"
           \/ second' = second /\ pc = "lookup" /\ pc' = "opened"
           \/ /\ second' = second
              /\ pc \in {"lookup", "read"} /\ pc' \in {"lookup", "read"}
              /\ Len(dest) < Len(dest')
           \/ /\ second' = second
              /\ pc = "lookup" /\ pc' = "read" /\ Len(dest) = Len(dest')
           \/ /\ second' = second
              /\ pc = "read" /\ pc' = "read" /\ dest' = dest
              /\ i < i'
    PROVE  Before(Place, Place')
<1> DEFINE s == Place
           t == Place'
<1>1. DOMAIN s = 1..6
  BY PlaceIs
<1>2. CASE ~second /\ second'
  <2>1. s[1] < t[1] /\ \A l \in 1..1 - 1 : s[l] = t[l]
    <3>1. s[1] = 0 /\ t[1] = 1
      BY <1>2, PlaceIs, PlacePrimed
    <3> QED
      BY <3>1
  <2> QED
    BY <1>1, <2>1, BeforeAt
<1>3. ASSUME second' = second PROVE s[1] = t[1]
  BY <1>3, PlaceIs, PlacePrimed
<1>4. CASE second' = second /\ pc # "null" /\ pc' = "null"
  <2>1. s[2] = 0 /\ t[2] = 1 /\ s[1] = t[1]
    BY <1>3, <1>4, PlaceIs, PlacePrimed
  <2>2. 2 \in 1..6 /\ s[2] < t[2] /\ \A l \in 1..2 - 1 : s[l] = t[l]
    BY <2>1
  <2> QED
    BY <1>1, <2>2, BeforeAt
<1>5. CASE second' = second /\ pc = "lookup" /\ pc' = "opened"
  <2>1. s[3] = 0 /\ t[3] = 1 /\ s[1] = t[1] /\ s[2] = t[2]
    BY <1>3, <1>5, PlaceIs, PlacePrimed
  <2>2. 3 \in 1..6 /\ s[3] < t[3] /\ \A l \in 1..3 - 1 : s[l] = t[l]
    BY <2>1
  <2> QED
    BY <1>1, <2>2, BeforeAt
<1>6. CASE /\ second' = second
           /\ pc \in {"lookup", "read"} /\ pc' \in {"lookup", "read"}
           /\ Len(dest) < Len(dest')
  <2>1. s[4] < t[4] /\ s[1] = t[1] /\ s[2] = t[2] /\ s[3] = t[3]
    BY <1>3, <1>6, PlaceIs, PlacePrimed
  <2>2. 4 \in 1..6 /\ s[4] < t[4] /\ \A l \in 1..4 - 1 : s[l] = t[l]
    BY <2>1
  <2> QED
    BY <1>1, <2>2, BeforeAt
<1>7. CASE /\ second' = second
           /\ pc = "lookup" /\ pc' = "read" /\ Len(dest) = Len(dest')
  <2>1. /\ s[5] = 0 /\ t[5] = 1
        /\ s[1] = t[1] /\ s[2] = t[2] /\ s[3] = t[3] /\ s[4] = t[4]
    BY <1>3, <1>7, PlaceIs, PlacePrimed
  <2>2. 5 \in 1..6 /\ s[5] < t[5] /\ \A l \in 1..5 - 1 : s[l] = t[l]
    BY <2>1
  <2> QED
    BY <1>1, <2>2, BeforeAt
<1>8. CASE /\ second' = second
           /\ pc = "read" /\ pc' = "read" /\ dest' = dest
           /\ i < i'
  <2>1. /\ s[6] < t[6]
        /\ s[1] = t[1] /\ s[2] = t[2] /\ s[3] = t[3] /\ s[4] = t[4]
        /\ s[5] = t[5]
    BY <1>3, <1>8, PlaceIs, PlacePrimed
  <2>2. 6 \in 1..6 /\ s[6] < t[6] /\ \A l \in 1..6 - 1 : s[l] = t[l]
    BY <2>1
  <2> QED
    BY <1>1, <2>2, BeforeAt
<1> QED
  BY <1>2, <1>4, <1>5, <1>6, <1>7, <1>8

-----------------------------------------------------------------------------
(* LookupOpen.                                                             *)

\* The first component with a tilde divides the path.
LEMMA DividedIs ==
    ASSUME NamesOK, LookOK, NEW k \in DOMAIN rest
    PROVE  LET path == dest \o Encoded(SubSeq(rest, 1, k - 1))
               names == From(rest, k)
           IN  /\ path \in Paths /\ Len(path) = Len(dest) + (k - 1)
               /\ names \in Paths /\ names # <<>>
               /\ Len(path) + Len(names) = Len(dest) + Len(rest)
<1> DEFINE front == SubSeq(rest, 1, k - 1)
           names == From(rest, k)
           path == dest \o Encoded(front)
<1>1. /\ rest \in Paths /\ dest \in Paths
      /\ Len(rest) \in Nat /\ Len(dest) \in Nat /\ k \in 1..Len(rest)
      /\ \A l \in 1..Len(rest) : rest[l] \in Name
  BY LenProperties, ElementOfSeq DEF LookOK, Paths
<1>2. front \in Paths /\ Len(front) = k - 1
  <2>1. /\ front \in Paths
        /\ Len(front) = IF 1 <= k - 1 THEN k - 1 - 1 + 1 ELSE 0
    <3>1. /\ 1 \in Int /\ k - 1 \in Int
          /\ \A l \in 1..k - 1 : rest[l] \in Name
      BY <1>1
    <3> QED
      BY <3>1, SubSeqProperties DEF Paths
  <2> HIDE DEF front
  <2> QED
    BY <1>1, <2>1
<1>3. names \in Paths /\ Len(names) = Len(rest) - k + 1
  <2>1. names = SubSeq(rest, k, Len(rest))
    BY DEF From
  <2> HIDE DEF names
  <2>2. /\ names \in Paths
        /\ Len(names) = IF k <= Len(rest) THEN Len(rest) - k + 1 ELSE 0
    <3>1. /\ k \in Int /\ Len(rest) \in Int
          /\ \A l \in k..Len(rest) : rest[l] \in Name
      BY <1>1
    <3> QED
      BY <2>1, <3>1, SubSeqProperties DEF Paths
  <2> QED
    BY <1>1, <2>2
<1> HIDE DEF front, names
<1>4. path \in Paths /\ Len(path) = Len(dest) + (k - 1)
  <2>1. Encoded(front) \in Seq(Name) /\ Len(Encoded(front)) = k - 1
    BY <1>2, EncodedIs DEF Paths
  <2>2. /\ path \in Seq(Name)
        /\ Len(path) = Len(dest) + Len(Encoded(front))
    BY <1>1, <2>1, ConcatProperties DEF Paths
  <2> QED
    BY <2>1, <2>2 DEF Paths
<1> HIDE DEF path
<1>5. names # <<>>
  BY <1>1, <1>3, EmptySeq
<1>6. Len(path) + Len(names) = Len(dest) + Len(rest)
  BY <1>1, <1>3, <1>4
<1> QED
  BY <1>3, <1>4, <1>5, <1>6 DEF path, names, front

LEMMA ListedNames ==
    ASSUME HostOK, NEW dir, NEW names \in SetToSeqs(Kids(dir))
    PROVE  names \in Seq(Name) /\ Len(names) \in Nat
<1>1. Kids(dir) \subseteq Name /\ IsFiniteSet(Kids(dir))
  BY KidsAre, TreeIs
<1>2. Cardinality(Kids(dir)) \in Nat
  BY <1>1, FS_CardinalityType
<1> DEFINE n == Cardinality(Kids(dir))
<1>3. names \in [1..n -> Kids(dir)]
  BY Zenon DEF SetToSeqs
<1> HIDE DEF n
<1>4. names \in [1..n -> Name] /\ n \in Nat
  BY <1>1, <1>2, <1>3 DEF n
<1>5. names \in Seq(Name)
  BY <1>4
<1> QED
  BY <1>5, LenProperties

\* A lookup changes nothing on the host and ends no call.
LEMMA LookingSays ==
    ASSUME Looking, pc' \in {"lookup", "read", "null"}
    PROVE  SaysStep /\ OpenStep
<1>1. host' = host /\ pc' # "dos" /\ pc' # "opened"
  BY DEF Looking
<1>2. SaysStep
  BY <1>1 DEF SaysStep
<1> QED
  BY <1>1, <1>2 DEF OpenStep

\* What a request to open a directory comes back with.
LEMMA OpenDirIs ==
    ASSUME NEW path, NEW r \in VMShfOpenDir(path)
    PROVE  /\ r.ok \in BOOLEAN /\ r.open \in BOOLEAN /\ r.lost \in 0..1
           /\ r.ok => r.open /\ r.lost = 0
           /\ r.open /\ ~r.ok => r.lost = 1
<1> DEFINE there == IsDir(Resolve(path))
<1>1. there \in BOOLEAN
  BY Zenon DEF IsDir, Exists
<1>2. r \in [ok : {there}, open : {there}, lost : {0}]
              \cup [ok : {FALSE}, open : {FALSE}, lost : {0, 1}]
              \cup [ok : {FALSE}, open : {there}, lost : {1}]
  BY Zenon DEF VMShfOpenDir
<1> HIDE DEF there
<1>3. CASE r \in [ok : {there}, open : {there}, lost : {0}]
  BY <1>1, <1>3
<1>4. CASE r \in [ok : {FALSE}, open : {FALSE}, lost : {0, 1}]
  <2>1. r.ok = FALSE /\ r.open = FALSE /\ r.lost \in {0, 1}
    BY <1>4
  <2>2. r.lost \in 0..1
    BY <2>1
  <2> QED
    BY <2>1, <2>2, Zenon
<1>5. CASE r \in [ok : {FALSE}, open : {there}, lost : {1}]
  <2>1. r.ok = FALSE /\ r.open = there /\ r.lost = 1
    BY <1>5
  <2>2. r.lost \in 0..1
    BY <2>1
  <2> QED
    BY <1>1, <2>1, <2>2, Zenon
<1> QED
  BY <1>2, <1>3, <1>4, <1>5

\* What a lookup leaves open and has lost.
LEMMA DirsKept ==
    ASSUME NEW a \in Int, NEW b \in Int, NEW l \in 0..1, NEW o \in 0..1,
           a <= b, o <= l
    PROVE  a + o <= (b + l) + 0 /\ a + 1 <= b + 1
  OBVIOUS

\* A directory is not read any more, or was not.
LEMMA LeavingKeeps ==
    ASSUME CallInv, Looking, NEW path \in Paths, Len(dest) <= Len(path),
           CwdOK', LookOK', PlaceOK', ListOK', CwdStep,
           \/ pc' = "null"
           \/ /\ pc' = "lookup" /\ Len(dest') = Len(path) + 1
              /\ Len(dest') + Len(rest') = Len(call.want),
           clean' \in BOOLEAN,
           fails' \in 0..MaxFail, dirs' \in Nat, dirs' <= fails' + 0
    PROVE  CallInv' /\ CwdStep /\ AdvanceStep /\ SaysStep /\ OpenStep
<1>1. pc' \in {"lookup", "read", "null"} /\ pc' # "read"
  OBVIOUS
<1>2. pc \in {"lookup", "read"} /\ second' = second
  BY DEF Looking
<1>3. Len(dest) \in Nat /\ Len(path) \in Nat
  BY LenProperties DEF Paths, CallInv, LookOK
<1>4. DirsOK'
  <2>1. LeakBound'
    BY <1>1 DEF LeakBound
  <2> QED
    BY <1>1, <2>1, Zenon DEF DirsOK
<1>5. CallInv'
  BY <1>1, <1>4, LookingKeeps
<1>6. Before(Place, Place')
  <2>1. CASE pc' = "null"
    BY <1>2, <2>1, PlaceGrows
  <2>2. CASE pc' = "lookup" /\ Len(dest') = Len(path) + 1
    <3>1. Len(dest) < Len(dest')
      BY <1>3, <2>2
    <3> QED
      BY <1>2, <2>2, <3>1, PlaceGrows
  <2> QED
    BY <2>1, <2>2
<1>7. AdvanceStep
  <2>1. Len(dest) + Len(rest) = Len(call.want)
    BY <1>2 DEF CallInv, PlaceOK
  <2> QED
    BY <1>1, <1>6, <2>1 DEF AdvanceStep
<1> QED
  BY <1>1, <1>5, <1>7, LookingSays

LEMMA LookupOpenDoes ==
    ASSUME CallInv, LookupOpen
    PROVE  CallInv' /\ CwdStep /\ AdvanceStep /\ SaysStep /\ OpenStep
<1> DEFINE k == CHOOSE n \in Mangled : \A m \in Mangled : n <= m
           path == dest \o Encoded(SubSeq(rest, 1, k - 1))
           names == From(rest, k)
           dir == Resolve(path)
<1>1. Looking /\ pc = "lookup" /\ Mangled # {}
  BY DEF LookupOpen, Looking
<1>2. k \in DOMAIN rest
  <2>1. Mangled \subseteq DOMAIN rest
    BY DEF Mangled
  <2>2. Mangled \in SUBSET Nat
    <3>1. DOMAIN rest = 1..Len(rest) /\ Len(rest) \in Nat
      BY LenProperties DEF CallInv, LookOK
    <3> QED
      BY <2>1, <3>1
  <2>3. \E n \in Mangled : \A m \in Mangled : n <= m
    BY <1>1, <2>2, LeastExists
  <2> DEFINE Least(n) == \A m \in Mangled : n <= m
  <2>4. k = CHOOSE n \in Mangled : Least(n)
    OBVIOUS
  <2>5. \E n \in Mangled : Least(n)
    BY <2>3
  <2> HIDE DEF Least, k
  <2>6. k \in Mangled
    BY <2>4, <2>5
  <2> QED
    BY <2>1, <2>6
<1>3. \/ Size(path) >= MaxPath /\ Null(path)
           /\ UNCHANGED <<listing, i, clean, dirs, fails>>
      \/ \E r \in VMShfOpenDir(path) :
           /\ Size(path) < MaxPath
           /\ CountFails(r.lost)
           /\ dirs' = dirs + (IF r.open THEN 1 ELSE 0)
           /\ clean' = (clean /\ (r.ok \/ (r.lost = 0 /\ ~IsDir(dir))))
           /\ \/ /\ r.ok
                 /\ listing' \in SetToSeqs(Kids(dir)) /\ i' = 0
                 /\ dest' = path /\ rest' = names
                 /\ pc' = "read"
                 /\ UNCHANGED cwd
              \/ /\ ~r.ok
                 /\ NotFound(path, names)
                 /\ UNCHANGED <<listing, i>>
  BY Zenon DEF LookupOpen
<1>4. /\ path \in Paths /\ Len(path) = Len(dest) + (k - 1)
      /\ names \in Paths /\ names # <<>>
      /\ Len(path) + Len(names) = Len(dest) + Len(rest)
  BY <1>2, DividedIs DEF CallInv
<1>5. Len(dest) + Len(rest) = Len(call.want)
  BY <1>1 DEF CallInv, PlaceOK
<1>6. /\ Len(path) \in Nat /\ Len(dest) \in Nat /\ Len(names) \in Nat
      /\ Len(names) # 0 /\ Len(dest) <= Len(path)
  <2>1. Len(path) \in Nat /\ Len(dest) \in Nat /\ Len(names) \in Nat
    BY <1>4, LenProperties DEF Paths, CallInv, LookOK
  <2>2. k \in Nat \ {0}
    <3>1. DOMAIN rest = 1..Len(rest) /\ Len(rest) \in Nat
      BY LenProperties DEF CallInv, LookOK
    <3> HIDE DEF k
    <3> QED
      BY <1>2, <3>1
  <2> HIDE DEF k, path, names
  <2>3. Len(dest) <= Len(path)
    BY <1>4, <2>1, <2>2
  <2>4. Len(names) # 0
    BY <1>4, EmptySeq
  <2> QED
    BY <2>1, <2>3, <2>4
<1> HIDE DEF k, path, names, dir
<1>7. /\ tables' = tables /\ call' = call /\ second' = second
      /\ dirs \in Int /\ fails \in Int /\ dirs <= fails /\ MaxFail \in Nat
      /\ dirs \in Nat /\ fails \in Nat
  BY <1>1, PathCallsAssumption
     DEF Looking, fixed, CallInv, DirsOK, LeakBound, CountsOK
<1>8. ASSUME CwdOK', LookOK', PlaceOK', CwdStep,
             \/ pc' = "null"
             \/ /\ pc' = "lookup" /\ Len(dest') = Len(path) + 1
                /\ Len(dest') + Len(rest') = Len(call.want),
             UNCHANGED <<listing, i>>, clean' \in BOOLEAN,
             fails' \in 0..MaxFail, dirs' \in Nat, dirs' <= fails' + 0
      PROVE  CallInv' /\ CwdStep /\ AdvanceStep /\ SaysStep /\ OpenStep
  <2>1. ListOK'
    BY <1>8 DEF CallInv, ListOK
  <2> QED
    BY <1>1, <1>4, <1>6, <1>8, <2>1, LeavingKeeps
<1>9. CASE Size(path) >= MaxPath /\ Null(path)
             /\ UNCHANGED <<listing, i, clean, dirs, fails>>
  <2>1. Len(path) < Len(call.want)
    BY <1>4, <1>5, <1>6
  <2>2. /\ CwdOK' /\ CwdStep
        /\ pc' = "null" /\ rest' = rest /\ dest' = dest
    BY <1>1, <1>6, <1>7, <1>9, <2>1, NullIs
  <2>3. LookOK' /\ PlaceOK'
    BY <1>7, <2>2, SameLook DEF CallInv, PlaceOK
  <2>4. clean' \in BOOLEAN
    BY <1>9, Zenon DEF CallInv, FlagsOK
  <2>5. fails' \in 0..MaxFail /\ dirs' \in Nat /\ dirs' <= fails' + 0
    BY <1>7, <1>9 DEF CallInv, CountsOK
  <2>6. UNCHANGED <<listing, i>>
    BY <1>9
  <2> QED
    BY <1>8, <2>2, <2>3, <2>4, <2>5, <2>6
<1>10. CASE \E r \in VMShfOpenDir(path) :
           /\ Size(path) < MaxPath
           /\ CountFails(r.lost)
           /\ dirs' = dirs + (IF r.open THEN 1 ELSE 0)
           /\ clean' = (clean /\ (r.ok \/ (r.lost = 0 /\ ~IsDir(dir))))
           /\ \/ /\ r.ok
                 /\ listing' \in SetToSeqs(Kids(dir)) /\ i' = 0
                 /\ dest' = path /\ rest' = names
                 /\ pc' = "read"
                 /\ UNCHANGED cwd
              \/ /\ ~r.ok
                 /\ NotFound(path, names)
                 /\ UNCHANGED <<listing, i>>
  <2>1. PICK r \in VMShfOpenDir(path) :
           /\ Size(path) < MaxPath
           /\ CountFails(r.lost)
           /\ dirs' = dirs + (IF r.open THEN 1 ELSE 0)
           /\ clean' = (clean /\ (r.ok \/ (r.lost = 0 /\ ~IsDir(dir))))
           /\ \/ /\ r.ok
                 /\ listing' \in SetToSeqs(Kids(dir)) /\ i' = 0
                 /\ dest' = path /\ rest' = names
                 /\ pc' = "read"
                 /\ UNCHANGED cwd
              \/ /\ ~r.ok
                 /\ NotFound(path, names)
                 /\ UNCHANGED <<listing, i>>
    BY <1>10, Zenon
  <2>2. /\ r.ok \in BOOLEAN /\ r.open \in BOOLEAN /\ r.lost \in 0..1
        /\ r.ok => r.open /\ r.lost = 0
        /\ r.open /\ ~r.ok => r.lost = 1
    BY OpenDirIs
  <2>3. fails' = fails + r.lost /\ fails' \in 0..MaxFail
    BY <1>7, <2>1, <2>2 DEF CountFails
  <2>4. clean' \in BOOLEAN
    BY <2>1, Zenon
  <2>5. CASE /\ r.ok
             /\ listing' \in SetToSeqs(Kids(dir)) /\ i' = 0
             /\ dest' = path /\ rest' = names
             /\ pc' = "read"
             /\ UNCHANGED cwd
    <3>1. CwdOK' /\ CwdStep
      BY <1>7, <2>5, SameCwd DEF CallInv, CwdStep
    <3>2. LookOK'
      <4>1. Size(path) <= MaxPath
        BY <1>4, <2>1, SizeNat, PathCallsAssumption
      <4> QED
        BY <1>4, <2>5, <4>1 DEF LookOK
    <3>3. listing' \in Seq(Name) /\ Len(listing') \in Nat
      BY <2>5, ListedNames DEF CallInv
    <3>4. ListOK'
      BY <2>5, <3>3 DEF ListOK
    <3>5. PlaceOK'
      BY <1>1, <1>4, <1>5, <1>7, <2>5 DEF PlaceOK, CallInv
    <3>6. dirs' = dirs + 1 /\ fails' = fails
      BY <1>7, <2>1, <2>2, <2>3, <2>5
    <3>7. DirsOK'
      <4>1. dirs' \in Nat /\ 1 <= dirs' /\ dirs' <= fails' + 1
        BY <1>7, <3>6
      <4>2. LeakBound'
        BY <2>5, <4>1 DEF LeakBound
      <4> QED
        BY <4>1, <4>2, Zenon DEF DirsOK
    <3>8. CallInv'
      BY <1>1, <2>3, <2>4, <2>5, <3>1, <3>2, <3>4, <3>5, <3>7, LookingKeeps
    <3>9. Before(Place, Place')
      <4>1. Len(dest) < Len(dest') \/ Len(dest) = Len(dest')
        BY <1>6, <2>5
      <4> QED
        BY <1>1, <1>7, <2>5, <4>1, PlaceGrows
    <3>10. AdvanceStep
      <4>1. i' <= Len(listing')
        BY <2>5, <3>3
      <4>2. Len(dest') + Len(rest') = Len(dest) + Len(rest)
        BY <1>4, <2>5
      <4> QED
        BY <3>9, <4>1, <4>2 DEF AdvanceStep
    <3> QED
      BY <1>1, <2>5, <3>1, <3>8, <3>10, LookingSays
  <2>6. CASE /\ ~r.ok
             /\ NotFound(path, names)
             /\ UNCHANGED <<listing, i>>
    <3>1. /\ CwdOK' /\ LookOK' /\ PlaceOK' /\ CwdStep
          /\ \/ pc' = "null"
             \/ /\ pc' = "lookup" /\ Len(dest') = Len(path) + 1
                /\ Len(dest') + Len(rest') = Len(call.want)
      BY <1>1, <1>4, <1>5, <2>6, NotFoundIs
    <3>2. dirs' \in Nat /\ dirs' <= fails' + 0
      <4> DEFINE o == IF r.open THEN 1 ELSE 0
      <4>1. o \in 0..1 /\ o <= r.lost
        BY <2>2, <2>6
      <4>2. dirs' = dirs + o
        BY <2>1
      <4> HIDE DEF o
      <4>3. dirs + o <= (fails + r.lost) + 0
        BY <1>7, <2>2, <4>1, DirsKept
      <4> QED
        BY <1>7, <2>3, <4>1, <4>2, <4>3
    <3> QED
      BY <1>8, <2>3, <2>4, <2>6, <3>1, <3>2
  <2> QED
    BY <2>1, <2>5, <2>6
<1> QED
  BY <1>3, <1>9, <1>10

-----------------------------------------------------------------------------
(* LookupRead.                                                             *)

LEMMA CloseIs ==
    ASSUME CallInv, pc = "read", NEW n \in 0..1, VMShfCloseFileDir(n)
    PROVE  /\ ListOK'
           /\ fails' \in 0..MaxFail /\ dirs' \in Nat /\ dirs' <= fails' + 0
<1>1. PICK lost \in 0..1 :
        /\ CountFails(n + lost)
        /\ dirs' \in IF lost = 0 THEN {dirs - 1} ELSE {dirs - 1, dirs}
  BY DEF VMShfCloseFileDir
<1>2. /\ dirs \in Nat /\ 1 <= dirs /\ dirs <= fails + 1
      /\ fails \in Nat /\ MaxFail \in Nat
  BY PathCallsAssumption DEF CallInv, DirsOK, LeakBound, CountsOK
<1>3. fails' = fails + (n + lost) /\ fails' <= MaxFail
  BY <1>1 DEF CountFails
<1>4. dirs' = dirs - 1 \/ (lost = 1 /\ dirs' = dirs)
  BY <1>1
<1>5. fails' \in 0..MaxFail /\ dirs' \in Nat /\ dirs' <= fails' + 0
  BY <1>2, <1>3, <1>4
<1>6. ListOK'
  <2>1. listing' = <<>> /\ i' = 0
    BY DEF VMShfCloseFileDir
  <2> QED
    BY <2>1, EmptySeq DEF ListOK
<1> QED
  BY <1>5, <1>6

LEMMA ReadNotFoundDoes ==
    ASSUME CallInv, Looking, pc = "read", NEW n \in 0..1,
           NotFound(dest, rest), VMShfCloseFileDir(n), clean' \in BOOLEAN
    PROVE  CallInv' /\ CwdStep /\ AdvanceStep /\ SaysStep /\ OpenStep
<1>1. /\ dest \in Paths /\ rest \in Paths /\ rest # <<>>
      /\ Len(dest) + Len(rest) = Len(call.want)
  BY DEF CallInv, LookOK, PlaceOK
<1>2. Len(dest) <= Len(dest)
  BY <1>1, LenProperties DEF Paths
<1>3. /\ CwdOK' /\ LookOK' /\ PlaceOK' /\ CwdStep
      /\ \/ pc' = "null"
         \/ /\ pc' = "lookup" /\ Len(dest') = Len(dest) + 1
            /\ Len(dest') + Len(rest') = Len(call.want)
  BY <1>1, NotFoundIs
<1>4. /\ ListOK'
      /\ fails' \in 0..MaxFail /\ dirs' \in Nat /\ dirs' <= fails' + 0
  BY CloseIs
<1> QED
  BY <1>1, <1>2, <1>3, <1>4, LeavingKeeps

LEMMA FindRealNameDoes ==
    ASSUME CallInv, Looking, pc = "read", i < Len(listing),
           FindRealName(listing[i + 1]), clean' = clean
    PROVE  CallInv' /\ CwdStep /\ AdvanceStep /\ SaysStep /\ OpenStep
<1> DEFINE name == listing[i + 1]
<1>1. /\ dest \in Paths /\ rest \in Paths /\ rest # <<>>
      /\ Len(dest) + Len(rest) = Len(call.want)
      /\ tables' = tables /\ call' = call /\ second' = second
  BY DEF CallInv, LookOK, PlaceOK, Looking, fixed
<1>2. Len(dest) \in Nat /\ Len(rest) \in Nat /\ Len(rest) # 0
  BY <1>1, LenProperties, EmptySeq DEF Paths
<1>3. i \in Nat /\ Len(listing) \in Nat /\ name \in Name
  <2>1. listing \in Seq(Name) /\ Len(listing) \in Nat
        /\ i \in 0..Len(listing)
    BY LenProperties DEF CallInv, ListOK
  <2>2. i + 1 \in 1..Len(listing)
    BY <2>1
  <2> QED
    BY <2>1, <2>2, ElementOfSeq
<1> HIDE DEF name
<1>4. clean' \in BOOLEAN
  BY Zenon DEF CallInv, FlagsOK
<1>5. CASE Null(dest) /\ VMShfCloseFileDir(0)
  <2>1. Len(dest) < Len(call.want)
    BY <1>1, <1>2
  <2>2. /\ CwdOK' /\ CwdStep
        /\ pc' = "null" /\ rest' = rest /\ dest' = dest
    BY <1>1, <1>2, <1>5, <2>1, NullIs
  <2>3. LookOK' /\ PlaceOK'
    BY <1>1, <2>2, SameLook DEF CallInv, PlaceOK
  <2>4. /\ ListOK'
        /\ fails' \in 0..MaxFail /\ dirs' \in Nat /\ dirs' <= fails' + 0
    BY <1>5, CloseIs
  <2>5. Len(dest) <= Len(dest)
    BY <1>2
  <2> QED
    BY <1>1, <1>4, <2>2, <2>3, <2>4, <2>5, LeavingKeeps
<1>6. CASE /\ Len(name) <= Room(dest)
           /\ dest' = Append(dest, name) /\ rest' = Tail(rest)
           /\ pc' = "lookup"
           /\ VMShfCloseFileDir(0) /\ UNCHANGED cwd
  <2>1. /\ CwdOK' /\ LookOK' /\ PlaceOK' /\ CwdStep
        /\ Len(dest') = Len(dest) + 1
        /\ Len(dest') + Len(rest') = Len(call.want)
    BY <1>1, <1>3, <1>6, AppendKeeps
  <2>2. /\ ListOK'
        /\ fails' \in 0..MaxFail /\ dirs' \in Nat /\ dirs' <= fails' + 0
    BY <1>6, CloseIs
  <2>3. Len(dest) <= Len(dest)
    BY <1>2
  <2> QED
    BY <1>1, <1>4, <1>6, <2>1, <2>2, <2>3, LeavingKeeps
<1>7. CASE /\ i' = i + 1
           /\ UNCHANGED <<cwd, pc, rest, dest, listing, dirs, fails>>
  <2>1. CwdOK' /\ CwdStep
    BY <1>1, <1>7, SameCwd DEF CallInv, CwdStep
  <2>2. LookOK'
    BY <1>1, <1>7, SameLook DEF CallInv
  <2>3. ListOK'
    BY <1>3, <1>7 DEF CallInv, ListOK
  <2>4. PlaceOK'
    BY <1>1, <1>7 DEF CallInv, PlaceOK
  <2>5. DirsOK'
    BY <1>7 DEF CallInv, DirsOK, LeakBound
  <2>6. fails' \in 0..MaxFail /\ pc' = "read"
    BY <1>7 DEF CallInv, CountsOK
  <2>7. CallInv'
    BY <1>4, <2>1, <2>2, <2>3, <2>4, <2>5, <2>6, LookingKeeps
  <2>8. Before(Place, Place')
    <3>1. i < i' /\ dest' = dest
      BY <1>3, <1>7
    <3> QED
      BY <1>1, <2>6, <3>1, PlaceGrows
  <2>9. AdvanceStep
    <3>1. i' <= Len(listing') /\ dest' = dest /\ rest' = rest
      BY <1>3, <1>7
    <3> QED
      BY <2>8, <3>1 DEF AdvanceStep
  <2> QED
    BY <2>1, <2>6, <2>7, <2>9, LookingSays
<1> QED
  BY <1>5, <1>6, <1>7, Zenon DEF FindRealName, name

LEMMA LookupReadDoes ==
    ASSUME CallInv, LookupRead
    PROVE  CallInv' /\ CwdStep /\ AdvanceStep /\ SaysStep /\ OpenStep
<1>1. Looking /\ pc = "read" /\ VMShfReadDir
  BY DEF LookupRead, Looking
<1>2. CASE i < Len(listing) /\ FindRealName(listing[i + 1])
             /\ UNCHANGED clean
  BY <1>1, <1>2, FindRealNameDoes
<1>3. CASE \E n \in 0..1 :
             /\ NotFound(dest, rest) /\ VMShfCloseFileDir(n)
             /\ clean' = clean \/ clean' = FALSE
  <2>1. PICK n \in 0..1 :
          /\ NotFound(dest, rest) /\ VMShfCloseFileDir(n)
          /\ clean' = clean \/ clean' = FALSE
    BY <1>3
  <2>2. clean' \in BOOLEAN
    BY <2>1, Zenon DEF CallInv, FlagsOK
  <2> QED
    BY <1>1, <2>1, <2>2, ReadNotFoundDoes
<1>4. \/ i < Len(listing) /\ FindRealName(listing[i + 1]) /\ UNCHANGED clean
      \/ /\ NotFound(dest, rest) /\ VMShfCloseFileDir(0)
         /\ clean' = clean \/ clean' = FALSE
      \/ \E n \in 0..1 :
           /\ NotFound(dest, rest) /\ VMShfCloseFileDir(n)
           /\ clean' = clean \/ clean' = FALSE
  BY <1>1, Zenon DEF VMShfReadDir
<1>5. 0 \in 0..1
  OBVIOUS
<1> QED
  BY <1>2, <1>3, <1>4, <1>5

-----------------------------------------------------------------------------
(* Every step.                                                             *)

LEMMA HandlerDoes ==
    ASSUME CallInv, Handler
    PROVE  CwdStep /\ AdvanceStep /\ SaysStep /\ OpenStep
<1>1. ASSUME Returned, SaysStep, cwd' = cwd, call.fn # "open"
      PROVE  CwdStep /\ AdvanceStep /\ SaysStep /\ OpenStep
  BY <1>1 DEF Returned, CwdStep, AdvanceStep, OpenStep
<1>2. CASE RmDir
  BY <1>1, <1>2, RmDirDoes DEF RmDir, Handles
<1>3. CASE MkDir
  BY <1>1, <1>3, MkDirDoes DEF MkDir, Handles
<1>4. CASE ChDir
  <2>1. Returned /\ SaysStep /\ CwdStep
    BY <1>4, ChDirDoes
  <2>2. call.fn = "chdir"
    BY <1>4 DEF ChDir, Handles
  <2> QED
    BY <2>1, <2>2 DEF Returned, AdvanceStep, OpenStep
<1>5. CASE GetFileAttrib
  BY <1>1, <1>5, GetFileAttribDoes DEF GetFileAttrib, Handles
<1>6. CASE SetFileAttribRead
  <2>1. call.fn = "setattr" /\ cwd' = cwd
    BY <1>6 DEF SetFileAttribRead, Handles
  <2>2. SaysStep
    BY <1>6, SetFileAttribReadDoes
  <2>3. pc' = "dos" \/ (~second /\ second' /\ pc' = "lookup")
    BY <1>6, SetFileAttribReadDoes DEF Returned
  <2>4. AdvanceStep
    <3>1. CASE pc' = "dos"
      BY <3>1 DEF AdvanceStep
    <3>2. CASE ~second /\ second' /\ pc' = "lookup"
      <4>1. Before(Place, Place')
        BY <3>2, PlaceGrows
      <4>2. second' # second
        BY <3>2
      <4> QED
        BY <3>2, <4>1, <4>2 DEF AdvanceStep
    <3> QED
      BY <2>3, <3>1, <3>2
  <2> QED
    BY <2>1, <2>2, <2>4 DEF CwdStep, OpenStep
<1>7. CASE SetFileAttrib
  BY <1>1, <1>7, SetFileAttribDoes DEF SetFileAttrib, Handles
<1>8. CASE GetDiskSpace
  BY <1>1, <1>8, GetDiskSpaceDoes DEF GetDiskSpace, Handles
<1>9. CASE OpenOrCreateFile
  <2>1. cwd' = cwd /\ second' = second
    BY <1>9 DEF OpenOrCreateFile
  <2>2. SaysStep /\ OpenStep
    BY <1>9, OpenOrCreateFileDoes
  <2>3. pc' = "dos" \/ (pc = "lookup" /\ pc' = "opened")
    BY <1>9, OpenOrCreateFileDoes DEF Returned
  <2>4. AdvanceStep
    <3>1. CASE pc' = "dos"
      BY <3>1 DEF AdvanceStep
    <3>2. CASE pc = "lookup" /\ pc' = "opened"
      <4>1. Before(Place, Place')
        BY <2>1, <3>2, PlaceGrows
      <4> QED
        BY <3>2, <4>1 DEF AdvanceStep
    <3> QED
      BY <2>3, <3>1, <3>2
  <2> QED
    BY <2>1, <2>2, <2>4 DEF CwdStep
<1>10. CASE Opened
  <2>1. pc = "opened" /\ cwd' = cwd
    BY <1>10 DEF Opened
  <2>2. Returned /\ SaysStep
    BY <1>10, OpenedDoes
  <2> QED
    BY <2>1, <2>2 DEF Returned, CwdStep, AdvanceStep, OpenStep
<1> QED
  BY <1>2, <1>3, <1>4, <1>5, <1>6, <1>7, <1>8, <1>9, <1>10 DEF Handler

LEMMA InitCalls == Init => CallInv
<1> SUFFICES ASSUME Init PROVE CallInv
  OBVIOUS
<1>1. /\ cwd = [path |-> <<>>, want |-> <<>>]
      /\ pc = "dos" /\ call = NoCall
      /\ rest = <<>> /\ dest = <<>> /\ listing = <<>> /\ i = 0
      /\ second = FALSE /\ ax = "SUCCESS" /\ clean = TRUE
      /\ dirs = 0 /\ fails = 0 /\ calls = 0 /\ changes = 0
  BY DEF Init
<1>2. world \in DOMAIN Worlds /\ tables = Tables(W) /\ host \in W.hosts
  BY DEF Init
<1>3. NamesOK
  BY <1>2 DEF NamesOK
<1>4. HostOK
  BY <1>2, WorldIs DEF HostOK
<1>5. CwdOK
  <2>1. <<>> \in Paths
    BY EmptySeq DEF Paths
  <2> QED
    BY <1>1, <2>1 DEF CwdOK
<1>6. PcOK /\ PlaceOK
  BY <1>1 DEF PcOK, PlaceOK
<1>7. CallOK
  <2>1. NoCall \in Call
    BY EmptySeq DEF NoCall, Call, Functions
  <2> QED
    BY <1>1, <2>1 DEF CallOK, Asks, NoCall
<1>8. LookOK
  <2>1. <<>> \in Paths
    BY EmptySeq DEF Paths
  <2> QED
    BY <1>1, <2>1, SizeEmpty, PathCallsAssumption DEF LookOK
<1>9. ListOK
  BY <1>1, EmptySeq DEF ListOK
<1>10. FlagsOK /\ CodeOK /\ DirsOK
  <2>1. FlagsOK
    BY <1>1, Zenon DEF FlagsOK
  <2>2. CodeOK
    BY <1>1 DEF CodeOK, Codes, NoCall
  <2>3. DirsOK
    BY <1>1 DEF DirsOK, LeakBound
  <2> QED
    BY <2>1, <2>2, <2>3
<1>11. CountsOK
  BY <1>1, <1>2, WorldIs, PathCallsAssumption DEF CountsOK
<1> QED
  BY <1>3, <1>4, <1>5, <1>6, <1>7, <1>8, <1>9, <1>10, <1>11 DEF CallInv

LEMMA SameKeeps ==
    ASSUME CallInv, UNCHANGED vars
    PROVE  CallInv'
<1>1. UNCHANGED <<fixed, host, cwd, pc, call, search, second, ax, clean,
                  dirs, fails, calls, changes>>
  BY DEF vars, history
<1>2. Tree(host')
  BY <1>1 DEF CallInv, HostOK
<1>3. clean' \in BOOLEAN
  BY <1>1, Zenon DEF CallInv, FlagsOK
<1>4. calls' \in 0..W.most /\ changes' \in 0..MaxChange
  BY <1>1 DEF CallInv, CountsOK
<1> QED
  BY <1>1, <1>2, <1>3, <1>4, HostKeeps

\* No call begins or goes on.
LEMMA IdleSteps ==
    ASSUME pc = "dos" \/ (changes' # changes /\ pc' = pc), cwd' = cwd
    PROVE  CwdStep /\ AdvanceStep /\ SaysStep /\ OpenStep
  BY DEF CwdStep, AdvanceStep, SaysStep, OpenStep

LEMMA NextDoes ==
    ASSUME CallInv, Next
    PROVE  CallInv' /\ CwdStep /\ AdvanceStep /\ SaysStep /\ OpenStep
<1>1. CASE StartCall
  BY <1>1, StartCallKeeps, IdleSteps DEF StartCall, Start
<1>2. CASE StartSpace
  <2>1. pc = "dos" /\ cwd' = cwd
    BY <1>2 DEF StartSpace, Start
  <2> QED
    BY <1>2, <2>1, StartSpaceKeeps, IdleSteps
<1>3. CASE LookupOpen
  BY <1>3, LookupOpenDoes
<1>4. CASE LookupRead
  BY <1>4, LookupReadDoes
<1>5. CASE Handler
  BY <1>5, HandlerKeeps, HandlerDoes
<1>6. CASE \E pair \in W.copies : CloseWithDateOf(pair[1], pair[2])
  <2>1. PICK from, to : CloseWithDateOf(from, to)
    BY <1>6
  <2>2. pc = "dos" /\ cwd' = cwd
    BY <2>1 DEF CloseWithDateOf
  <2> QED
    BY <2>1, <2>2, CloseWithDateOfKeeps, IdleSteps
<1>7. CASE HostChange
  <2>1. changes \in Int
    BY PathCallsAssumption DEF CallInv, CountsOK
  <2>2. changes' # changes /\ pc' = pc /\ cwd' = cwd
    BY <1>7, <2>1 DEF HostChange
  <2> QED
    BY <1>7, <2>2, HostChangeKeeps, IdleSteps
<1> QED
  BY <1>1, <1>2, <1>3, <1>4, <1>5, <1>6, <1>7 DEF Next

\* Every state of a behaviour keeps the invariant.
\* (redir.c, lfn.c: every call on a path)
THEOREM CallsKept == Spec => []CallInv
<1>1. Init => CallInv
  BY InitCalls
<1>2. CallInv /\ [Next]_vars => CallInv'
  BY NextDoes, SameKeeps
<1> QED
  BY <1>1, <1>2, PTL DEF Spec

-----------------------------------------------------------------------------
(* The components of a path on the host.                                   *)

\* A path that is taken for the beginning of what is meant, of its length.
Follows(want, p) ==
    /\ p \in Paths /\ Len(p) <= Len(want)
    /\ Resolve(p) = Take(want, Len(p))
    /\ Size(p) = Size(Take(want, Len(p)))

LEMMA TakeNext ==
    ASSUME NEW want \in Paths, NEW n \in 1..Len(want)
    PROVE  /\ Take(want, n - 1) = SubSeq(want, 1, n - 1)
           /\ Take(want, n - 1) \in Paths /\ Len(Take(want, n - 1)) = n - 1
           /\ want[n] \in Name
           /\ Take(want, n) = Append(Take(want, n - 1), want[n])
<1>1. Len(want) \in Nat /\ want \in Seq(Name) /\ want[n] \in Name
  BY Names1 DEF Paths
<1>2. n - 1 \in 0..Len(want) /\ n \in 0..Len(want) /\ n \in Nat
  BY <1>1
<1> DEFINE a == Take(want, n - 1)
           b == Take(want, n)
           c == Append(a, want[n])
<1>3. /\ a = SubSeq(want, 1, n - 1) /\ b = SubSeq(want, 1, n)
  BY <1>1, <1>2 DEF Take
<1>4. /\ a \in Seq(Name) /\ Len(a) = n - 1
      /\ \A k \in 1..n - 1 : a[k] = want[k]
  BY <1>1, <1>2, TakeIs
<1>5. /\ b \in Seq(Name) /\ Len(b) = n
      /\ \A k \in 1..n : b[k] = want[k]
  BY <1>1, <1>2, TakeIs
<1> HIDE DEF a, b
<1>6. /\ c \in Seq(Name) /\ Len(c) = n /\ c[n] = want[n]
      /\ \A k \in 1..n - 1 : c[k] = want[k]
  <2>1. /\ c \in Seq(Name) /\ Len(c) = Len(a) + 1 /\ c[Len(a) + 1] = want[n]
        /\ \A k \in 1..Len(a) : c[k] = a[k]
    BY <1>1, <1>4, AppendProperties
  <2> HIDE DEF c
  <2>2. Len(a) + 1 = n
    BY <1>2, <1>4
  <2> QED
    BY <1>4, <2>1, <2>2
<1> HIDE DEF c
<1>7. b = c
  <2>1. ASSUME NEW k \in 1..n PROVE b[k] = c[k]
    <3>1. k = n \/ k \in 1..n - 1
      BY <1>2
    <3> QED
      BY <1>5, <1>6, <3>1
  <2> QED
    BY <1>5, <1>6, <2>1, SeqEqual
<1> QED
  BY <1>1, <1>3, <1>4, <1>7 DEF a, b, c, Paths

LEMMA FollowsNone ==
    ASSUME HostPaths, NEW want \in Paths
    PROVE  Follows(want, <<>>)
<1>1. <<>> \in Paths /\ Len(<<>>) = 0 /\ Len(want) \in Nat
  BY EmptySeq, Names1 DEF Paths
<1>2. Take(want, 0) = <<>>
  <2>1. Take(want, 0) \in Seq(Name) /\ Len(Take(want, 0)) = 0
    BY <1>1, TakeIs DEF Paths
  <2> QED
    BY <2>1, EmptySeq
<1>3. Len(<<>>) <= Len(want)
  BY <1>1
<1>4. Take(want, Len(<<>>)) = <<>>
  BY <1>1, <1>2
<1> QED
  BY <1>1, <1>3, <1>4, ResolveEmpty DEF Follows

LEMMA FollowsNext ==
    ASSUME HostPaths, NEW want \in Paths, NEW p, Follows(want, p),
           NEW n \in 1..Len(want), Len(p) = n - 1,
           NEW x \in Name, Len(x) = Len(want[n]),
           Child(Take(want, n - 1), x) = Append(Take(want, n - 1), want[n])
    PROVE  Follows(want, Append(p, x)) /\ Len(Append(p, x)) = n
<1>1. /\ p \in Paths /\ Resolve(p) = Take(want, n - 1)
      /\ Size(p) = Size(Take(want, n - 1))
  BY DEF Follows
<1>2. /\ Take(want, n - 1) \in Paths /\ want[n] \in Name
      /\ Take(want, n) = Append(Take(want, n - 1), want[n])
  BY TakeNext
<1>3. Append(p, x) \in Paths /\ Len(Append(p, x)) = n
  <2>1. p \in Seq(Name) /\ n \in Int
    BY <1>1, Names1 DEF Paths
  <2>2. Append(p, x) \in Seq(Name) /\ Len(Append(p, x)) = Len(p) + 1
    BY <2>1, AppendProperties
  <2> QED
    BY <2>1, <2>2 DEF Paths
<1>4. Resolve(Append(p, x)) = Take(want, n)
  BY <1>1, <1>2, ResolveAppend
<1>5. Size(Append(p, x)) = Size(Take(want, n))
  <2>1. Size(Append(p, x)) = Size(p) + 1 + Len(x)
    BY <1>1, SizeAppend
  <2>2. Size(Take(want, n)) = Size(Take(want, n - 1)) + 1 + Len(want[n])
    BY <1>2, SizeAppend
  <2> QED
    BY <1>1, <2>1, <2>2
<1>6. n <= Len(want)
  BY Names1
<1> QED
  BY <1>3, <1>4, <1>5, <1>6 DEF Follows

\* A name on the host and the short name that a program uses for it.
Component(dir, name, short) ==
    /\ FcbName(name, dir = <<>>) # NoName
    /\ short = DosName(FcbName(name, dir = <<>>))
    /\ Meant(dir, name, short) /\ Alone(dir, name, short)

\* What DOS got to see.
Known(want) ==
    \A k \in 1..Len(want) : FcbName(want[k], k = 1) # NoName

\* What there is room for in the directory of a component.
Fits(dir, name, short) ==
    /\ Size(dir) + Len(short) + 3 <= MaxPath
    /\ \A c \in Kids(dir) \cup {name} : Size(dir) + Len(c) + 1 <= MaxPath

LEMMA ComponentIs ==
    ASSUME NamesOK, NEW want \in Paths, Distinct(want), Known(want),
           NEW n \in 1..Len(want)
    PROVE  LET dir == Take(want, n - 1)
               short == DosPath(want)[n]
           IN  /\ Component(dir, want[n], short)
               /\ Fits(dir, want[n], short)
<1> DEFINE dir == Take(want, n - 1)
           short == DosPath(want)[n]
<1>1. dir = SubSeq(want, 1, n - 1) /\ Len(dir) = n - 1
  BY TakeNext
<1>2. n \in DOMAIN want /\ n \in Int
  BY Names1
<1>3. /\ Meant(dir, want[n], short) /\ Alone(dir, want[n], short)
      /\ Fits(dir, want[n], short)
  BY <1>1, <1>2, Zenon DEF Distinct, Fits
<1> HIDE DEF dir, short
<1>4. (n = 1) = (dir = <<>>)
  <2>1. dir \in Seq(Name)
    BY TakeNext DEF dir, Paths
  <2>2. dir = <<>> <=> Len(dir) = 0
    BY <2>1, EmptySeq
  <2> QED
    BY <1>1, <1>2, <2>2
<1>5. short = DosName(FcbName(want[n], n = 1))
  BY DosPathIs DEF short
<1>6. FcbName(want[n], n = 1) # NoName
  BY DEF Known
<1> QED
  BY <1>3, <1>4, <1>5, <1>6 DEF Component, dir, short

LEMMA AsItIs ==
    ASSUME NEW dir, NEW name, NEW short, Alone(dir, name, short)
    PROVE  Child(dir, name) = Append(dir, name)
<1> DEFINE same == {c \in Kids(dir) : dir # <<>> /\ Fold(c) = Fold(name)}
<1>1. ASSUME name \notin Kids(dir) PROVE same = {}
  <2>1. ASSUME NEW c \in Kids(dir), dir # <<>>, Fold(c) = Fold(name)
        PROVE  FALSE
    <3>1. c \in Kids(dir) \ {name}
      BY <1>1
    <3> QED
      BY <1>1, <2>1, <3>1, Zenon DEF Alone
  <2> QED
    BY <2>1
<1>2. Child(dir, name) = IF name \in Kids(dir) \/ same = {}
                         THEN Append(dir, name)
                         ELSE Append(dir, CHOOSE c \in same : TRUE)
  BY Zenon DEF Child
<1> HIDE DEF same
<1> QED
  BY <1>1, <1>2

\* Names that are alike but for the case of ASCII letters.
LEMMA AlikeFold ==
    ASSUME NEW u \in Name, NEW name \in Name, NEW exact \in BOOLEAN,
           Alike(exact, u, name)
    PROVE  /\ Len(u) = Len(name)
           /\ exact => u = name
           /\ Fold(u) = Fold(name)
<1>1. /\ u \in Seq(Byte) /\ name \in Seq(Byte)
      /\ Len(u) = Len(name) /\ Len(u) \in Nat
      /\ DOMAIN u = 1..Len(u) /\ DOMAIN name = 1..Len(u)
  BY LenProperties DEF Name, Alike
<1>2. ASSUME NEW k \in 1..Len(u)
      PROVE  /\ u[k] \in Byte /\ name[k] \in Byte
             /\ \/ u[k] = name[k]
                \/ /\ ~exact /\ u[k] < 128 /\ name[k] < 128
                   /\ u[k] = toupper_local(name[k])
  <2>1. u[k] \in Byte /\ name[k] \in Byte
    BY <1>1, ElementOfSeq
  <2>2. Same(exact, u[k], name[k])
    BY <1>1 DEF Alike
  <2> QED
    BY <2>1, <2>2 DEF Same
<1>3. ASSUME exact PROVE u = name
  BY <1>1, <1>2, <1>3, SeqEqual
<1>4. ASSUME NEW k \in 1..Len(u)
      PROVE  (IF u[k] < 128 THEN toupper_local(u[k]) ELSE u[k])
               = (IF name[k] < 128 THEN toupper_local(name[k]) ELSE name[k])
  <2>1. CASE u[k] = name[k]
    BY <2>1
  <2>2. CASE /\ u[k] < 128 /\ name[k] < 128
             /\ u[k] = toupper_local(name[k])
    <3>1. toupper_local(toupper_local(name[k])) = toupper_local(name[k])
      BY <1>2, <2>2, UpperIs
    <3> QED
      BY <2>2, <3>1
  <2> QED
    BY <1>2, <2>1, <2>2
<1>5. Fold(u) = Fold(name)
  <2>1. Fold(u) = [k \in 1..Len(u) |->
                     IF u[k] < 128 THEN toupper_local(u[k]) ELSE u[k]]
    BY <1>1, Zenon DEF Fold
  <2>2. Fold(name) = [k \in 1..Len(u) |->
                        IF name[k] < 128 THEN toupper_local(name[k])
                        ELSE name[k]]
    BY <1>1, Zenon DEF Fold
  <2> QED
    BY <1>4, <2>1, <2>2
<1> QED
  BY <1>1, <1>3, <1>5

\* A component that is not looked up.
LEMMA NotLookedUp ==
    ASSUME NamesOK, HostPaths, NEW dir \in Paths, NEW name \in Name,
           NEW short, Component(dir, name, short), ~Looked(short)
    PROVE  LET u == Utf8Name(short)
           IN  /\ u \in Name /\ Len(u) = Len(name)
               /\ Child(dir, u) = Append(dir, name)
<1> DEFINE u == Utf8Name(short)
           root == dir = <<>>
           fcb == FcbName(name, root)
           same == {c \in Kids(dir) : dir # <<>> /\ Fold(c) = Fold(u)}
<1>1. /\ fcb # NoName /\ short = DosName(fcb)
      /\ Meant(dir, name, short) /\ Alone(dir, name, short)
  BY DEF Component
<1>2. root \in BOOLEAN
  OBVIOUS
<1> HIDE DEF root
<1>3. fcb = FNameToFcbName(W.opt, name, root) /\ short \in Name
  BY <1>1, <1>2, ConversionsAre
<1>4. u = LocalToUtf8(W.opt.page, short) /\ u \in Name
  BY <1>3, ConversionsAre
<1> HIDE DEF u, fcb
<1>5. Append(dir, name) = Child(dir, name)
  BY <1>1, AsItIs
<1>6. CASE u = name
  BY <1>4, <1>5, <1>6 DEF u
<1>7. CASE name \in Kids(dir) /\ Regular(W.opt, name, root)
  <2>1. Settings(W.opt) /\ W.opt.lfn \in BOOLEAN
    BY OptionIs DEF NamesOK
  <2>2. ~(W.opt.lfn
            /\ Tilde \in Bytes(DosName(FNameToFcbName(W.opt, name, root))))
    <3>1. ~(W.opt.lfn /\ Tilde \in Bytes(short))
      BY DEF Looked
    <3> QED
      BY <1>1, <1>3, <3>1
  <2>3. Alike(root,
              LocalToUtf8(W.opt.page,
                          DosName(FNameToFcbName(W.opt, name, root))),
              name)
    <3>1. name \in Seq(Byte)
      BY DEF Name
    <3>2. FNameToFcbName(W.opt, name, root) # NoName
      BY <1>1, <1>3
    <3> QED
      BY <1>2, <1>7, <2>1, <2>2, <3>1, <3>2, RegularReturns
  <2>4. Alike(root, u, name)
    BY <1>1, <1>3, <1>4, <2>3
  <2>5. Len(u) = Len(name) /\ (root => u = name) /\ Fold(u) = Fold(name)
    BY <1>2, <1>4, <2>4, AlikeFold
  <2>6. ASSUME NEW c \in Kids(dir), Fold(c) = Fold(u), c # name, dir # <<>>
        PROVE  u = name
    BY <1>1, <2>5, <2>6, Zenon DEF Alone, u
  <2>7. Child(dir, u) = Append(dir, name)
    <3>1. CASE u = name
      BY <1>5, <3>1
    <3>2. CASE u # name
      <4>1. dir # <<>>
        BY <2>5, <3>2 DEF root
      <4>2. u \notin Kids(dir)
        BY <2>6, <3>2, <4>1
      <4>3. same = {name}
        BY <1>7, <2>5, <2>6, <3>2, <4>1
      <4>4. (CHOOSE c \in same : TRUE) = name
        <5> HIDE DEF same
        <5> QED
          BY <4>3
      <4>5. Child(dir, u) = IF u \in Kids(dir) \/ same = {}
                            THEN Append(dir, u)
                            ELSE Append(dir, CHOOSE c \in same : TRUE)
        BY Zenon DEF Child
      <4> HIDE DEF same
      <4> QED
        BY <4>2, <4>3, <4>4, <4>5
    <3> QED
      BY <3>1, <3>2
  <2> QED
    BY <1>4, <2>5, <2>7 DEF u
<1>8. u = name \/ (name \in Kids(dir) /\ Regular(W.opt, name, root))
  BY <1>1, Zenon DEF Meant, u, root
<1> QED
  BY <1>6, <1>7, <1>8

\* An entry that a short name finds.
Found(dir, entry, short) ==
    LET fcbName == FcbName(entry, dir = <<>>)
    IN  fcbName # NoName /\ MatchFcbNameToFileName(fcbName, short)

LEMMA BeginsIs ==
    ASSUME NEW S, NEW s \in Seq(S), NEW t \in Seq(S), Begins(s, t)
    PROVE  IsPrefix(s, t)
<1>1. /\ Len(s) \in Nat /\ Len(t) \in Nat /\ Len(s) \in 0..Len(t)
      /\ \A k \in 1..Len(s) : s[k] = t[k]
  BY LenProperties DEF Begins
<1>2. /\ SubSeq(t, 1, Len(s)) \in Seq(S) /\ Len(SubSeq(t, 1, Len(s))) = Len(s)
      /\ \A k \in 1..Len(s) : SubSeq(t, 1, Len(s))[k] = t[k]
  <2>1. Take(t, Len(s)) = SubSeq(t, 1, Len(s))
    BY <1>1 DEF Take
  <2> QED
    BY <1>1, <2>1, TakeIs
<1>3. SubSeq(t, 1, Len(s)) = s
  BY <1>1, <1>2, SeqEqual
<1>4. SubSeq(s, 1, Len(s)) = s
  BY SubSeqFull
<1> QED
  BY <1>1, <1>3, <1>4 DEF IsPrefix

\* A component that is looked up: its entry is found and no other one, and
\* where there is none the name is written the same.
LEMMA LookedUp ==
    ASSUME NamesOK, HostPaths, NEW dir \in Paths, NEW name \in Name,
           NEW short, Component(dir, name, short), Looked(short)
    PROVE  /\ \A e \in Kids(dir) : Found(dir, e, short) => e = name
           /\ name \in Kids(dir) => Found(dir, name, short)
           /\ name \notin Kids(dir) => short = name
           /\ short \in Name
<1> DEFINE root == dir = <<>>
           fcb(n) == FcbName(n, root)
<1>1. /\ fcb(name) # NoName /\ short = DosName(fcb(name))
      /\ Meant(dir, name, short) /\ Alone(dir, name, short)
  BY DEF Component
<1>2. root \in BOOLEAN
  OBVIOUS
<1>3. \A e \in Kids(dir) : ~IsPrefix(short, DosName(fcb(e))) \/ e = name
  BY <1>1, Zenon DEF Alone
<1>4. \A n : Found(dir, n, short)
               <=> fcb(n) # NoName /\ MatchFcbNameToFileName(fcb(n), short)
  BY Zenon DEF Found
<1> HIDE DEF root
<1>5. \A n \in Name : fcb(n) = FNameToFcbName(W.opt, n, root)
                        /\ DosName(fcb(n)) \in Name
  BY <1>2, ConversionsAre
<1> HIDE DEF fcb
<1>6. Settings(W.opt) /\ Tilde \in Bytes(short)
  BY OptionIs DEF NamesOK, Looked
<1>7. ASSUME NEW e \in Name, fcb(e) # NoName
      PROVE  /\ MatchFcbNameToFileName(fcb(name), short)
             /\ MatchFcbNameToFileName(fcb(e), short) =>
                  Begins(short, DosName(fcb(e)))
  <2>1. name \in Seq(Byte) /\ e \in Seq(Byte)
    BY DEF Name
  <2>2. /\ FNameToFcbName(W.opt, name, root) = fcb(name)
        /\ FNameToFcbName(W.opt, e, root) = fcb(e)
    BY <1>5
  <2>3. /\ FNameToFcbName(W.opt, name, root) # NoName
        /\ FNameToFcbName(W.opt, e, root) # NoName
        /\ Tilde \in Bytes(DosName(FNameToFcbName(W.opt, name, root)))
    BY <1>1, <1>6, <1>7, <2>2
  <2>4. LET sh(n) == DosName(FNameToFcbName(W.opt, n, root))
            found(n) == MatchFcbNameToFileName(
                            FNameToFcbName(W.opt, n, root), sh(name))
        IN  found(name) /\ (found(e) => Begins(sh(name), sh(e)))
    BY <1>6, <2>1, <2>3, LookedUpFound
  <2> QED
    BY <1>1, <2>2, <2>4
<1>8. ASSUME NEW e \in Kids(dir), Found(dir, e, short) PROVE e = name
  <2>1. e \in Name
    BY KidsAre
  <2>2. Begins(short, DosName(fcb(e)))
    BY <1>4, <1>7, <1>8, <2>1
  <2>3. IsPrefix(short, DosName(fcb(e)))
    <3>1. short \in Seq(Byte) /\ DosName(fcb(e)) \in Seq(Byte)
      BY <1>1, <1>5, <2>1 DEF Name
    <3> QED
      BY <2>2, <3>1, BeginsIs
  <2> QED
    BY <1>3, <2>3
<1>9. Found(dir, name, short)
  BY <1>1, <1>4, <1>7
<1>10. name \notin Kids(dir) => short = name
  BY <1>1, Zenon DEF Meant
<1>11. short \in Name
  BY <1>1, <1>5
<1> QED
  BY <1>8, <1>9, <1>10, <1>11

\* On the way to what is meant.
Way(want, p, names) ==
    /\ Distinct(want) /\ Follows(want, p)
    /\ names = From(DosPath(want), Len(p) + 1)

LEMMA WayIs ==
    ASSUME NamesOK, NEW want \in Paths, NEW p, NEW names, Way(want, p, names)
    PROVE  /\ p \in Paths /\ Len(p) \in 0..Len(want)
           /\ names \in Paths /\ Len(names) = Len(want) - Len(p)
           /\ \A j \in 1..Len(names) : names[j] = DosPath(want)[Len(p) + j]
<1>1. /\ p \in Paths /\ Len(p) \in Nat /\ Len(want) \in Nat
      /\ Len(p) <= Len(want)
  BY Names1 DEF Way, Follows
<1>2. DosPath(want) \in Seq(Name) /\ Len(DosPath(want)) = Len(want)
  BY DosPathIs DEF Paths
<1> DEFINE m == Len(p) + 1
<1>3. m \in 1..Len(DosPath(want)) + 1 /\ names = From(DosPath(want), m)
  BY <1>1, <1>2 DEF Way
<1>4. /\ names \in Seq(Name) /\ Len(names) = Len(want) - m + 1
      /\ \A k \in 1..Len(want) - m + 1 : names[k] = DosPath(want)[m + k - 1]
  BY <1>2, <1>3, FromIs
<1>5. Len(want) - m + 1 = Len(want) - Len(p)
  BY <1>1
<1>6. ASSUME NEW j \in 1..Len(names)
      PROVE  names[j] = DosPath(want)[Len(p) + j]
  <2>1. j \in 1..Len(want) - m + 1 /\ m + j - 1 = Len(p) + j
    BY <1>1, <1>4
  <2> QED
    BY <1>4, <2>1
<1> QED
  BY <1>1, <1>4, <1>5, <1>6 DEF Paths

LEMMA EncodedNext ==
    ASSUME NamesOK, NEW p \in Paths, NEW names \in Paths,
           NEW n \in 1..Len(names)
    PROVE  p \o Encoded(SubSeq(names, 1, n))
             = Append(p \o Encoded(SubSeq(names, 1, n - 1)),
                      Utf8Name(names[n]))
<1>1. Len(names) \in Nat /\ names[n] \in Name /\ n \in Nat
  BY Names1
<1>2. ASSUME NEW m \in 0..Len(names)
      PROVE  /\ p \o Encoded(SubSeq(names, 1, m)) \in Paths
             /\ Len(p \o Encoded(SubSeq(names, 1, m))) = Len(p) + m
             /\ \A k \in 1..Len(p) + m :
                  (p \o Encoded(SubSeq(names, 1, m)))[k]
                    = IF k <= Len(p) THEN p[k] ELSE Utf8Name(names[k - Len(p)])
  <2> DEFINE t == SubSeq(names, 1, m)
             e == Encoded(t)
  <2>1. t \in Paths /\ Len(t) = m /\ \A k \in 1..m : t[k] = names[k]
    <3>1. Take(names, m) = t
      BY <1>1 DEF Take
    <3> HIDE DEF t
    <3> QED
      BY <3>1, TakeIs DEF Paths
  <2> HIDE DEF t
  <2>2. e \in Paths /\ Len(e) = m /\ \A k \in 1..m : e[k] = Utf8Name(names[k])
    BY <2>1, EncodedIs
  <2> HIDE DEF e
  <2>3. e \in Seq(Name) /\ p \in Seq(Name)
    BY <2>2 DEF Paths
  <2>4. /\ p \o e \in Seq(Name) /\ Len(p \o e) = Len(p) + Len(e)
        /\ \A k \in 1..Len(p) + Len(e) :
             (p \o e)[k] = IF k <= Len(p) THEN p[k] ELSE e[k - Len(p)]
    BY <2>3, ConcatProperties
  <2>5. Len(p) \in Nat
    BY Names1
  <2>6. ASSUME NEW k \in 1..Len(p) + m, ~(k <= Len(p))
        PROVE  e[k - Len(p)] = Utf8Name(names[k - Len(p)])
    <3>1. k - Len(p) \in 1..m
      BY <2>5, <2>6
    <3> QED
      BY <2>2, <3>1
  <2> QED
    BY <2>2, <2>4, <2>6 DEF e, t, Paths
<1> DEFINE a == p \o Encoded(SubSeq(names, 1, n))
           b == p \o Encoded(SubSeq(names, 1, n - 1))
           x == Utf8Name(names[n])
           c == Append(b, x)
<1>3. n \in 0..Len(names) /\ n - 1 \in 0..Len(names) /\ Len(p) \in Nat
  BY <1>1, Names1
<1>4. /\ a \in Paths /\ Len(a) = Len(p) + n
      /\ \A k \in 1..Len(p) + n :
           a[k] = IF k <= Len(p) THEN p[k] ELSE Utf8Name(names[k - Len(p)])
  BY <1>2, <1>3
<1>5. /\ b \in Paths /\ Len(b) = Len(p) + (n - 1)
      /\ \A k \in 1..Len(p) + (n - 1) :
           b[k] = IF k <= Len(p) THEN p[k] ELSE Utf8Name(names[k - Len(p)])
  BY <1>2, <1>3
<1>6. x \in Name
  BY <1>1, ConversionsAre
<1> HIDE DEF a, b
<1>7. a \in Seq(Name) /\ b \in Seq(Name)
  BY <1>4, <1>5 DEF Paths
<1>8. /\ c \in Seq(Name) /\ Len(c) = Len(b) + 1 /\ c[Len(b) + 1] = x
      /\ \A k \in 1..Len(b) : c[k] = b[k]
  BY <1>6, <1>7, AppendProperties
<1> HIDE DEF c
<1>9. ASSUME NEW k \in 1..Len(a) PROVE a[k] = c[k]
  <2>1. CASE k = Len(p) + n
    <3>1. a[k] = x
      <4>1. ~(k <= Len(p)) /\ k - Len(p) = n
        BY <1>3, <2>1
      <4> QED
        BY <1>4, <4>1
    <3>2. Len(b) + 1 = k
      BY <1>3, <1>5, <2>1
    <3> QED
      BY <1>8, <3>1, <3>2
  <2>2. CASE k # Len(p) + n
    <3>1. k \in 1..Len(p) + (n - 1)
      <4>1. k \in 1..Len(p) + n
        BY <1>4, Zenon
      <4> QED
        BY <1>1, <1>3, <2>2, <4>1
    <3> QED
      BY <1>4, <1>5, <1>8, <3>1
  <2> QED
    BY <2>1, <2>2
<1>10. Len(a) = Len(c)
  BY <1>3, <1>4, <1>5, <1>8
<1> QED
  BY <1>7, <1>8, <1>9, <1>10, SeqEqual DEF a, b, c

\* The next component on a way.
LEMMA WayComponent ==
    ASSUME NamesOK, HostPaths, NEW want \in Paths, Known(want),
           NEW p, NEW names, Way(want, p, names), names # <<>>
    PROVE  LET n == Len(p) + 1
           IN  /\ n \in 1..Len(want) /\ want[n] \in Name
               /\ names[1] = DosPath(want)[n] /\ names[1] \in Name
               /\ Resolve(p) = Take(want, n - 1) /\ Resolve(p) \in Paths
               /\ Size(p) = Size(Resolve(p))
               /\ Component(Resolve(p), want[n], names[1])
               /\ Fits(Resolve(p), want[n], names[1])
<1> DEFINE n == Len(p) + 1
<1>1. /\ p \in Paths /\ Len(p) \in 0..Len(want) /\ Len(want) \in Nat
      /\ names \in Paths /\ Len(names) = Len(want) - Len(p)
      /\ \A j \in 1..Len(names) : names[j] = DosPath(want)[Len(p) + j]
  BY WayIs, Names1
<1>2. Len(names) \in Nat /\ Len(names) # 0
  BY <1>1, EmptySeq DEF Paths
<1>3. n \in 1..Len(want) /\ n - 1 = Len(p)
  BY <1>1, <1>2
<1>4. names[1] = DosPath(want)[n]
  <2>1. 1 \in 1..Len(names)
    BY <1>2
  <2> QED
    BY <1>1, <2>1
<1>5. names[1] \in Name
  BY <1>1, <1>2, ElementOfSeq DEF Paths
<1>6. want[n] \in Name
  BY <1>3, Names1
<1>7. Follows(want, p) /\ Distinct(want)
  BY DEF Way
<1>8. /\ Resolve(p) = Take(want, n - 1) /\ Size(p) = Size(Resolve(p))
  BY <1>3, <1>7 DEF Follows
<1>9. Resolve(p) \in Paths
  BY <1>1, ResolveIs
<1>10. /\ Component(Take(want, n - 1), want[n], DosPath(want)[n])
       /\ Fits(Take(want, n - 1), want[n], DosPath(want)[n])
  BY <1>3, <1>7, ComponentIs
<1> QED
  BY <1>3, <1>4, <1>5, <1>6, <1>8, <1>9, <1>10

\* A way goes on over a component that the host takes for what is meant.
LEMMA WayNext ==
    ASSUME NamesOK, HostPaths, NEW want \in Paths, Known(want),
           NEW p, NEW names, Way(want, p, names), names # <<>>,
           NEW x \in Name, Len(x) = Len(want[Len(p) + 1]),
           Child(Resolve(p), x) = Append(Resolve(p), want[Len(p) + 1])
    PROVE  Way(want, Append(p, x), Tail(names))
<1> DEFINE n == Len(p) + 1
           d == DosPath(want)
<1>1. /\ p \in Paths /\ Len(p) \in 0..Len(want) /\ Len(want) \in Nat
      /\ names = From(d, n)
  BY WayIs, Names1 DEF Way
<1>2. n \in 1..Len(want) /\ n - 1 = Len(p)
  BY <1>1, WayComponent
<1>3. Resolve(p) = Take(want, n - 1)
  BY WayComponent
<1>4. Follows(want, p) /\ Distinct(want)
  BY DEF Way
<1>5. Len(x) = Len(want[n])
      /\ Child(Take(want, n - 1), x) = Append(Take(want, n - 1), want[n])
  BY <1>3
<1>6. d \in Seq(Name) /\ Len(d) = Len(want)
  BY DosPathIs DEF Paths
<1> HIDE DEF n, d
<1>7. Follows(want, Append(p, x)) /\ Len(Append(p, x)) = n
  BY <1>2, <1>4, <1>5, FollowsNext
<1>8. Tail(names) = From(d, n + 1)
  <2>1. n \in 1..Len(d) /\ Len(d) \in n..Len(d)
    BY <1>1, <1>2, <1>6
  <2>2. Tail(SubSeq(d, n, Len(d))) = SubSeq(d, n + 1, Len(d))
    BY <1>6, <2>1, HeadTailOfSubSeq
  <2> QED
    BY <1>1, <2>2 DEF From
<1>9. Tail(names) = From(DosPath(want), Len(Append(p, x)) + 1)
  BY <1>7, <1>8 DEF d
<1> QED
  BY <1>4, <1>7, <1>9 DEF Way

\* Components without a tilde are taken for what is meant.
LEMMA WayPast ==
    ASSUME NamesOK, HostPaths, NEW want \in Paths, Known(want),
           NEW p, NEW names, Way(want, p, names),
           NEW n \in 0..Len(names), \A j \in 1..n : ~Looked(names[j])
    PROVE  Way(want, p \o Encoded(SubSeq(names, 1, n)), From(names, n + 1))
<1> DEFINE past(m) == p \o Encoded(SubSeq(names, 1, m))
           S == {m \in 0..n : Way(want, past(m), From(names, m + 1))}
<1>1. /\ p \in Paths /\ names \in Paths /\ p \in Seq(Name)
      /\ names \in Seq(Name) /\ Len(names) \in Nat /\ n \in Nat
  <2>1. p \in Paths /\ names \in Paths
    BY WayIs
  <2> QED
    BY <2>1, Names1 DEF Paths
<1>2. 0 \in S
  <2>1. SubSeq(names, 1, 0) = <<>>
    BY SubSeqEmpty
  <2>2. Encoded(<<>>) = <<>>
    <3>1. <<>> \in Paths /\ Len(<<>>) = 0
      BY EmptySeq DEF Paths
    <3>2. Encoded(<<>>) \in Seq(Name) /\ Len(Encoded(<<>>)) = 0
      BY <3>1, EncodedIs DEF Paths
    <3> QED
      BY <3>2, EmptySeq
  <2>3. past(0) = p
    BY <1>1, <2>1, <2>2, ConcatEmptySeq
  <2>4. From(names, 0 + 1) = names
    BY <1>1, SubSeqFull DEF From
  <2> HIDE DEF past
  <2> QED
    BY <1>1, <2>3, <2>4
<1>3. ASSUME NEW m \in 1..n, m - 1 \in S PROVE m \in S
  <2> DEFINE q == past(m - 1)
             left == From(names, m)
             x == Utf8Name(names[m])
  <2>1. /\ m \in 1..Len(names) /\ (m - 1) + 1 = m /\ m \in Nat
        /\ Len(names) \in m..Len(names) /\ m \in 1..Len(names) + 1
    BY <1>1
  <2>2. Way(want, q, left)
    <3> HIDE DEF past
    <3> QED
      BY <1>3, <2>1
  <2>3. past(m) = Append(q, x)
    BY <1>1, <2>1, EncodedNext
  <2>4. left \in Seq(Name) /\ Len(left) = Len(names) - m + 1
        /\ \A l \in 1..Len(names) - m + 1 : left[l] = names[m + l - 1]
    BY <1>1, <2>1, FromIs
  <2>5. left # <<>> /\ left[1] = names[m]
    <3> HIDE DEF left
    <3>1. Len(left) # 0 /\ 1 \in 1..Len(names) - m + 1 /\ m + 1 - 1 = m
      BY <1>1, <2>1, <2>4
    <3> QED
      BY <2>4, <3>1, EmptySeq
  <2>6. Tail(left) = From(names, m + 1)
    BY <1>1, <2>1, HeadTailOfSubSeq DEF From
  <2> HIDE DEF past, q, left
  <2>7. /\ want[Len(q) + 1] \in Name /\ Resolve(q) \in Paths
        /\ Component(Resolve(q), want[Len(q) + 1], left[1])
    BY <2>2, <2>5, WayComponent
  <2>8. ~Looked(left[1])
    BY <2>5
  <2>9. /\ x \in Name /\ Len(x) = Len(want[Len(q) + 1])
        /\ Child(Resolve(q), x) = Append(Resolve(q), want[Len(q) + 1])
    <3>1. LET u == Utf8Name(left[1])
          IN  /\ u \in Name /\ Len(u) = Len(want[Len(q) + 1])
              /\ Child(Resolve(q), u)
                   = Append(Resolve(q), want[Len(q) + 1])
      BY <2>7, <2>8, NotLookedUp
    <3> QED
      BY <2>5, <3>1
  <2> HIDE DEF x
  <2>10. Way(want, Append(q, x), Tail(left))
    BY <2>2, <2>5, <2>9, WayNext
  <2>11. Way(want, past(m), From(names, m + 1))
    BY <2>3, <2>6, <2>10
  <2>12. m \in 0..n
    BY <1>1
  <2> QED
    BY <2>11, <2>12
<1> HIDE DEF S
<1>4. n \in S
  <2>1. \A m \in 0..n : m \in S
    BY <1>1, <1>2, <1>3, Induct
  <2> QED
    BY <1>1, <2>1
<1> QED
  BY <1>4 DEF S

-----------------------------------------------------------------------------
(* What goes where it was meant to: the invariant.                         *)

\* They are about values that stay when the state does not: of the current
\* directory, the call, and the lookup.
CwdMeant ==
    \A path, want : path = cwd.path /\ want = cwd.want => path = DosPath(want)
Seen == \A want : want = cwd.want \/ want = call.want => Known(want)
OnWay ==
    \A want, p, names :
        want = call.want /\ p = dest /\ names = rest => Way(want, p, names)
WayOK == clean /\ pc \in {"lookup", "read"} => OnWay

\* The first n entries of a directory are not the one.
ReadUpTo(p, names, list, n) ==
    /\ names # <<>> /\ Looked(names[1])
    /\ IsDir(Resolve(p))
    /\ list \in SetToSeqs(Kids(Resolve(p)))
    /\ \A j \in 1..n : ~Found(p, list[j], names[1])
Reading ==
    \A p, names, list, n :
        p = dest /\ names = rest /\ list = listing /\ n = i
          => ReadUpTo(p, names, list, n)
ReadOK == clean /\ pc = "read" => Reading
NullOK == clean /\ pc = "null" => call.want = <<>>

ReachInv ==
    CwdMeant /\ Seen /\ WayOK /\ ReadOK /\ NullOK /\ ReachesListed

\* What does not change with what does not.
LEMMA WayKept ==
    ASSUME UNCHANGED <<world, tables, host>>, NEW want, NEW p, NEW names
    PROVE  Way(want, p, names)' = Way(want, p, names)
<1>1. Distinct(want)' = Distinct(want)
  BY SMT DEF Distinct, Meant, Alone, DosPath, Listed, FcbName, Utf8Name,
     Looked, Kids, W
<1>2. Follows(want, p)' = Follows(want, p)
  BY SMT DEF Follows, Resolve, Child, Kids
<1>3. DosPath(want)' = DosPath(want)
  BY SMT DEF DosPath, Listed, FcbName, W
<1> QED
  BY <1>1, <1>2, <1>3 DEF Way

LEMMA SameWay ==
    ASSUME UNCHANGED <<world, tables, host>>,
           Way(call'.want, dest', rest')
    PROVE  OnWay'
<1> SUFFICES ASSUME NEW want, NEW p, NEW names,
                    want = call'.want, p = dest', names = rest'
             PROVE  Way(want, p, names)'
  BY DEF OnWay
<1>1. Way(want, p, names)
  OBVIOUS
<1> QED
  BY <1>1, WayKept

LEMMA SameDos ==
    ASSUME UNCHANGED <<world, tables>>, NEW path
    PROVE  /\ DosPath(path)' = DosPath(path)
           /\ Known(path)' = Known(path)
           /\ Looked(path)' = Looked(path)
  BY SMT DEF DosPath, Listed, FcbName, Known, Looked, W

LEMMA ReadKept ==
    ASSUME UNCHANGED <<world, tables, host>>,
           NEW p, NEW names, NEW list, NEW n
    PROVE  ReadUpTo(p, names, list, n)' = ReadUpTo(p, names, list, n)
<1>1. /\ Resolve(p)' = Resolve(p)
      /\ IsDir(Resolve(p))' = IsDir(Resolve(p))
      /\ Kids(Resolve(p))' = Kids(Resolve(p))
  BY SMT DEF Resolve, Child, Kids, IsDir, Exists
<1>2. Looked(names[1])' = Looked(names[1])
  BY SameDos
<1>3. \A j \in 1..n :
          Found(p, list[j], names[1])' = Found(p, list[j], names[1])
  BY SMT DEF Found, FcbName, W
<1> QED
  BY <1>1, <1>2, <1>3, Zenon DEF ReadUpTo

LEMMA SameReading ==
    ASSUME UNCHANGED <<world, tables, host>>,
           ReadUpTo(dest', rest', listing', i')
    PROVE  Reading'
<1> SUFFICES ASSUME NEW p, NEW names, NEW list, NEW n,
                    p = dest', names = rest', list = listing', n = i'
             PROVE  ReadUpTo(p, names, list, n)'
  BY DEF Reading
<1>1. ReadUpTo(p, names, list, n)
  OBVIOUS
<1> QED
  BY <1>1, ReadKept

\* A current directory and a call that DOS got to see.
LEMMA SeenKept ==
    ASSUME UNCHANGED <<world, tables>>,
           cwd'.path = DosPath(cwd'.want), Known(cwd'.want), Known(call'.want)
    PROVE  CwdMeant' /\ Seen'
<1>1. ASSUME NEW path, NEW want, path = cwd'.path, want = cwd'.want
      PROVE  path = DosPath(want)'
  <2>1. path = DosPath(want)
    BY <1>1
  <2> QED
    BY <2>1, SameDos
<1>2. ASSUME NEW want, want = cwd'.want \/ want = call'.want
      PROVE  Known(want)'
  <2>1. Known(want)
    BY <1>2
  <2> QED
    BY <2>1, SameDos
<1>3. CwdMeant'
  BY <1>1 DEF CwdMeant
<1>4. Seen'
  BY <1>2 DEF Seen
<1> QED
  BY <1>3, <1>4

\* The beginning of a path from a listing is one.
LEMMA TakeDos ==
    ASSUME NamesOK, NEW want \in Paths, Known(want), NEW n \in 0..Len(want)
    PROVE  /\ DosPath(Take(want, n)) = Take(DosPath(want), n)
           /\ Known(Take(want, n))
<1> DEFINE t == Take(want, n)
           d == DosPath(want)
           u == Take(d, n)
           v == DosPath(t)
<1>1. d \in Seq(Name) /\ Len(d) = Len(want) /\ Len(want) \in Nat
      /\ want \in Seq(Name)
      /\ \A k \in 1..Len(want) : d[k] = DosName(FcbName(want[k], k = 1))
  BY DosPathIs, Names1 DEF Paths
<1>2. t \in Paths /\ Len(t) = n /\ \A k \in 1..n : t[k] = want[k]
  BY <1>1, TakeIs DEF Paths
<1> HIDE DEF d, t
<1>3. u \in Seq(Name) /\ Len(u) = n /\ \A k \in 1..n : u[k] = d[k]
  <2>1. n \in 0..Len(d)
    BY <1>1
  <2> QED
    BY <1>1, <2>1, TakeIs
<1>4. v \in Seq(Name) /\ Len(v) = n
      /\ \A k \in 1..n : v[k] = DosName(FcbName(t[k], k = 1))
  BY <1>2, DosPathIs DEF Paths
<1> HIDE DEF u, v
<1>5. ASSUME NEW k \in 1..n PROVE v[k] = u[k]
  <2>1. k \in 1..Len(want)
    BY <1>1
  <2> QED
    BY <1>1, <1>2, <1>3, <1>4, <2>1
<1>6. v = u
  BY <1>3, <1>4, <1>5, SeqEqual
<1>7. ASSUME NEW k \in 1..n PROVE FcbName(t[k], k = 1) # NoName
  <2>1. k \in 1..Len(want)
    BY <1>1
  <2> QED
    BY <1>2, <2>1 DEF Known
<1>8. Known(t)
  BY <1>2, <1>7 DEF Known
<1> QED
  BY <1>6, <1>8 DEF u, v, t, d

\* A listing has every entry.
LEMMA ListingIs ==
    ASSUME HostOK, NEW dir, NEW list \in SetToSeqs(Kids(dir))
    PROVE  /\ \A j \in 1..Len(list) : list[j] \in Kids(dir)
           /\ \A c \in Kids(dir) : \E j \in 1..Len(list) : list[j] = c
<1> DEFINE K == Kids(dir)
           n == Cardinality(K)
           D == 1..n
<1>1. IsFiniteSet(K)
  BY KidsAre, TreeIs
<1>2. n \in Nat
  BY <1>1, FS_CardinalityType
<1>3. list \in [D -> K] /\ \A a, b \in D : a # b => list[a] # list[b]
  BY Zenon DEF SetToSeqs
<1> HIDE DEF K, n
<1>4. list \in Injection(D, K)
  BY <1>3 DEF Injection, IsInjective
<1>5. Cardinality(D) = n
  <2>1. Cardinality(D) = IF 1 > n THEN 0 ELSE n - 1 + 1
    BY <1>2, FS_Interval
  <2> QED
    BY <1>2, <2>1
<1>6. list \in Surjection(D, K)
  <2>1. Cardinality(D) = Cardinality(K)
    BY <1>5 DEF n
  <2> QED
    BY <1>1, <1>4, <2>1, FS_Injection
<1>7. Len(list) = n
  BY <1>2, <1>3
<1> QED
  BY <1>3, <1>6, <1>7 DEF Surjection, K

LEMMA FoundIn ==
    ASSUME HostPaths, NEW p \in Paths, NEW e, NEW short
    PROVE  Found(Resolve(p), e, short) = Found(p, e, short)
<1>1. Resolve(p) \in Seq(Name) /\ Len(Resolve(p)) = Len(p) /\ p \in Seq(Name)
  BY ResolveIs DEF Paths
<1>2. (Resolve(p) = <<>>) = (p = <<>>)
  BY <1>1, EmptySeq
<1> QED
  BY <1>2, Zenon DEF Found

\* A component that is looked up and is not on the host.
LEMMA NotThere ==
    ASSUME CallInv, NEW want \in Paths, Known(want),
           NEW p, NEW names, Way(want, p, names), names # <<>>,
           Looked(names[1]), want[Len(p) + 1] \notin Kids(Resolve(p)),
           NotFound(p, names)
    PROVE  /\ pc' = "lookup" /\ UNCHANGED cwd
           /\ Way(want, dest', rest')
<1> DEFINE name == want[Len(p) + 1]
           short == names[1]
           dir == Resolve(p)
<1>1. NamesOK /\ HostPaths
  BY TreeIs DEF CallInv
<1>2. /\ name \in Name /\ short \in Name /\ dir \in Paths
      /\ Size(p) = Size(dir)
      /\ Component(dir, name, short) /\ Fits(dir, name, short)
  BY <1>1, WayComponent
<1>3. short = name
  BY <1>1, <1>2, LookedUp
<1>4. Child(dir, short) = Append(dir, name)
  <2>1. Alone(dir, name, short)
    BY <1>2 DEF Component
  <2> QED
    BY <1>3, <2>1, AsItIs
<1>5. Len(short) + 2 <= Room(p)
  <2>1. Size(p) + Len(short) + 3 <= MaxPath
    BY <1>2 DEF Fits
  <2>2. Size(p) \in Nat /\ Len(short) \in Nat /\ MaxPath \in Nat
    <3>1. Size(dir) \in Nat /\ Len(short) \in Nat
      BY <1>2, SizeNat DEF Name
    <3> QED
      BY <1>2, <3>1, PathCallsAssumption
  <2> HIDE DEF short
  <2> QED
    BY <2>1, <2>2 DEF Room
<1>6. ~(Len(short) + 2 > Room(p))
  <2>1. Len(short) \in Int /\ Room(p) \in Int
    <3>1. Size(dir) \in Nat /\ Len(short) \in Nat
      BY <1>2, SizeNat DEF Name
    <3> QED
      BY <1>2, <3>1, PathCallsAssumption DEF Room
  <2> HIDE DEF short
  <2> QED
    BY <1>5, <2>1
<1>7. /\ dest' = Append(p, short) /\ rest' = Tail(names)
      /\ pc' = "lookup" /\ UNCHANGED cwd
  BY <1>6 DEF NotFound
<1>8. Way(want, Append(p, short), Tail(names))
  BY <1>1, <1>2, <1>3, <1>4, WayNext
<1> QED
  BY <1>7, <1>8

\* A directory that is open is one.
LEMMA OpenedThere ==
    ASSUME NEW path, NEW r \in VMShfOpenDir(path), r.ok
    PROVE  IsDir(Resolve(path))
<1> DEFINE there == IsDir(Resolve(path))
<1>1. r \in [ok : {there}, open : {there}, lost : {0}]
              \cup [ok : {FALSE}, open : {FALSE}, lost : {0, 1}]
              \cup [ok : {FALSE}, open : {there}, lost : {1}]
  BY Zenon DEF VMShfOpenDir
<1> HIDE DEF there
<1>2. r.ok = there \/ r.ok = FALSE
  BY <1>1
<1> QED
  BY <1>2, Zenon DEF there

\* What the invariant says of the state.
LEMMA ReachIs ==
    ASSUME CallInv, ReachInv
    PROVE  /\ cwd.path = DosPath(cwd.want)
           /\ Known(cwd.want) /\ Known(call.want)
           /\ clean /\ pc \in {"lookup", "read"} =>
                Way(call.want, dest, rest)
           /\ clean /\ pc = "read" => ReadUpTo(dest, rest, listing, i)
           /\ clean /\ pc = "null" => call.want = <<>>
<1>1. cwd.path = DosPath(cwd.want)
  BY Zenon DEF ReachInv, CwdMeant
<1>2. Known(cwd.want) /\ Known(call.want)
  BY Zenon DEF ReachInv, Seen
<1>3. clean /\ pc \in {"lookup", "read"} => Way(call.want, dest, rest)
  BY Zenon DEF ReachInv, WayOK, OnWay
<1>4. clean /\ pc = "read" => ReadUpTo(dest, rest, listing, i)
  BY Zenon DEF ReachInv, ReadOK, Reading
<1>5. clean /\ pc = "null" => call.want = <<>>
  BY Zenon DEF ReachInv, NullOK
<1> QED
  BY <1>1, <1>2, <1>3, <1>4, <1>5

LEMMA SameSeen ==
    ASSUME CallInv, ReachInv, UNCHANGED <<world, tables, call, cwd>>
    PROVE  CwdMeant' /\ Seen'
<1>1. cwd.path = DosPath(cwd.want) /\ Known(cwd.want) /\ Known(call.want)
  BY ReachIs
<1>2. /\ cwd'.path = DosPath(cwd'.want)
      /\ Known(cwd'.want) /\ Known(call'.want)
  BY <1>1
<1> QED
  BY <1>2, SeenKept

LEMMA NullSeen ==
    ASSUME CallInv, ReachInv, Looking,
           NEW path, Len(path) \in Nat, Len(path) < Len(call.want), Null(path)
    PROVE  CwdMeant' /\ Seen'
<1>1. UNCHANGED <<world, tables, call>> /\ pc \in {"lookup", "read"}
  BY DEF Looking, fixed
<1>2. CASE call.fn # "space"
  <2>1. cwd' = cwd
    BY <1>2 DEF Null
  <2> QED
    BY <1>1, <2>1, SameSeen
<1>3. CASE call.fn = "space"
  <2> DEFINE n == Len(path)
  <2>1. cwd' = [path |-> Take(cwd.path, n), want |-> Take(cwd.want, n)]
    BY <1>3 DEF Null
  <2>2. /\ call.want = cwd.want
        /\ cwd.want \in Paths /\ cwd.path = DosPath(cwd.want)
        /\ Known(cwd.want) /\ Known(call.want)
    BY <1>1, <1>3, CallIs, ReachIs DEF CallInv, PlaceOK
  <2>3. n \in 0..Len(cwd.want)
    BY <2>2, Names1
  <2> HIDE DEF n
  <2>4. /\ DosPath(Take(cwd.want, n)) = Take(DosPath(cwd.want), n)
        /\ Known(Take(cwd.want, n))
    BY <2>2, <2>3, TakeDos DEF CallInv
  <2>5. cwd'.path = Take(cwd.path, n) /\ cwd'.want = Take(cwd.want, n)
    BY <2>1
  <2>6. /\ cwd'.path = DosPath(cwd'.want)
        /\ Known(cwd'.want) /\ Known(call'.want)
    BY <1>1, <2>2, <2>4, <2>5
  <2> QED
    BY <1>1, <2>6, SeenKept
<1> QED
  BY <1>2, <1>3

LEMMA NotFoundSeen ==
    ASSUME CallInv, ReachInv, Looking,
           NEW path \in Paths, NEW names \in Paths, names # <<>>,
           Len(path) + Len(names) = Len(call.want), NotFound(path, names)
    PROVE  CwdMeant' /\ Seen'
<1>1. UNCHANGED <<world, tables, call>>
  BY DEF Looking, fixed
<1>2. CASE Null(path)
  <2>1. Len(path) \in Nat /\ Len(names) \in Nat /\ Len(names) # 0
    BY LenProperties, EmptySeq DEF Paths
  <2>2. Len(path) < Len(call.want)
    BY <2>1
  <2> QED
    BY <1>2, <2>1, <2>2, NullSeen
<1>3. CASE UNCHANGED cwd
  BY <1>1, <1>3, SameSeen
<1> QED
  BY <1>2, <1>3 DEF NotFound

\* A lookup goes on, on the way if the host answers like a quiet host.
LEMMA LookingReaches ==
    ASSUME CallInv, Looking, CwdMeant', Seen',
           pc' \in {"lookup", "read", "null"},
           clean' => /\ pc' \in {"lookup", "read"}
                     /\ Way(call.want, dest', rest')
                     /\ pc' = "read" => ReadUpTo(dest', rest', listing', i')
    PROVE  ReachInv'
<1>1. UNCHANGED <<world, tables, host, call>>
  BY DEF Looking, fixed
<1>2. WayOK'
  BY <1>1, SameWay DEF WayOK
<1>3. ReadOK'
  BY <1>1, SameReading DEF ReadOK
<1>4. NullOK' /\ ReachesListed'
  BY DEF NullOK, ReachesListed
<1> QED
  BY <1>2, <1>3, <1>4 DEF ReachInv

\* There is room for a component on the way.
LEMMA WayFits ==
    ASSUME CallInv, NEW want \in Paths, Known(want),
           NEW p, NEW names, Way(want, p, names), names # <<>>
    PROVE  /\ Size(p) < MaxPath
           /\ \A c \in Kids(Resolve(p)) : Len(c) <= Room(p)
<1> DEFINE name == want[Len(p) + 1]
           short == names[1]
           dir == Resolve(p)
<1>1. /\ name \in Name /\ short \in Name /\ dir \in Paths
      /\ Size(p) = Size(dir) /\ Fits(dir, name, short)
  BY WayComponent, TreeIs DEF CallInv
<1>2. Size(p) \in Nat /\ MaxPath \in Nat /\ Len(short) \in Nat
  <2>1. Size(dir) \in Nat /\ Len(short) \in Nat
    BY <1>1, SizeNat DEF Name
  <2> QED
    BY <1>1, <2>1, PathCallsAssumption
<1>3. Size(p) + Len(short) + 3 <= MaxPath
      /\ \A c \in Kids(dir) : Size(p) + Len(c) + 1 <= MaxPath
  BY <1>1 DEF Fits
<1>4. Size(p) < MaxPath
  BY <1>2, <1>3
<1>5. ASSUME NEW c \in Kids(dir) PROVE Len(c) <= Room(p)
  <2>1. c \in Name
    BY KidsAre, TreeIs DEF CallInv
  <2>2. Len(c) \in Nat
    BY <2>1 DEF Name
  <2>3. Size(p) + Len(c) + 1 <= MaxPath
    BY <1>3
  <2> QED
    BY <1>2, <2>2, <2>3 DEF Room
<1> QED
  BY <1>4, <1>5

LEMMA LookupOpenReaches ==
    ASSUME CallInv, ReachInv, LookupOpen
    PROVE  ReachInv'
<1> DEFINE k == CHOOSE n \in Mangled : \A m \in Mangled : n <= m
           path == dest \o Encoded(SubSeq(rest, 1, k - 1))
           names == From(rest, k)
           dir == Resolve(path)
           want == call.want
<1>1. /\ Looking /\ pc = "lookup" /\ Mangled # {}
      /\ NamesOK /\ LookOK /\ HostPaths
  BY TreeIs DEF LookupOpen, Looking, CallInv
<1>2. /\ k \in Mangled /\ k \in 1..Len(rest) /\ Len(rest) \in Nat
      /\ \A m \in Mangled : k <= m
  <2>1. DOMAIN rest = 1..Len(rest) /\ Len(rest) \in Nat
    BY LenProperties DEF CallInv, LookOK
  <2>2. Mangled \subseteq 1..Len(rest)
    BY <2>1 DEF Mangled
  <2>3. Mangled \in SUBSET Nat
    BY <2>1, <2>2
  <2>4. \E n \in Mangled : \A m \in Mangled : n <= m
    BY <1>1, <2>3, LeastExists
  <2> DEFINE Least(n) == \A m \in Mangled : n <= m
  <2>5. k = CHOOSE n \in Mangled : Least(n)
    OBVIOUS
  <2>6. \E n \in Mangled : Least(n)
    BY <2>4
  <2> HIDE DEF Least, k
  <2>7. k \in Mangled /\ Least(k)
    BY <2>5, <2>6
  <2> QED
    BY <2>1, <2>2, <2>7 DEF Least
<1>3. \/ Size(path) >= MaxPath /\ Null(path)
           /\ UNCHANGED <<listing, i, clean, dirs, fails>>
      \/ \E r \in VMShfOpenDir(path) :
           /\ clean' = (clean /\ (r.ok \/ (r.lost = 0 /\ ~IsDir(dir))))
           /\ \/ /\ r.ok
                 /\ listing' \in SetToSeqs(Kids(dir)) /\ i' = 0
                 /\ dest' = path /\ rest' = names
                 /\ pc' = "read"
                 /\ UNCHANGED cwd
              \/ ~r.ok /\ NotFound(path, names)
  BY Zenon DEF LookupOpen
<1>4. /\ path \in Paths /\ names \in Paths /\ names # <<>>
      /\ Len(path) + Len(names) = Len(dest) + Len(rest)
  <2>1. k \in DOMAIN rest
    BY <1>2 DEF Mangled
  <2> QED
    BY <1>1, <2>1, DividedIs
<1>5. Len(path) + Len(names) = Len(want)
  BY <1>1, <1>4 DEF CallInv, PlaceOK
<1>6. want \in Paths /\ Known(want)
  BY CallIs, ReachIs
<1>7. names[1] = rest[k] /\ Looked(names[1])
  <2>1. k \in 1..Len(rest) + 1 /\ rest \in Seq(Name)
        /\ 1 \in 1..Len(rest) - k + 1 /\ k + 1 - 1 = k
    <3> HIDE DEF k
    <3> QED
      BY <1>1, <1>2 DEF LookOK, Paths
  <2>2. \A l \in 1..Len(rest) - k + 1 : names[l] = rest[k + l - 1]
    <3> HIDE DEF k
    <3> QED
      BY <2>1, FromIs
  <2>3. names[1] = rest[k]
    <3> HIDE DEF k, names
    <3> QED
      BY <2>1, <2>2
  <2> QED
    BY <1>2, <2>3 DEF Mangled
<1>8. ASSUME clean PROVE Way(want, path, names)
  <2>1. Way(want, dest, rest)
    BY <1>1, <1>8, ReachIs
  <2>2. k - 1 \in 0..Len(rest) /\ (k - 1) + 1 = k
    <3> HIDE DEF k
    <3> QED
      BY <1>2
  <2>3. ASSUME NEW j \in 1..k - 1 PROVE ~Looked(rest[j])
    <3> HIDE DEF k
    <3>1. j \in 1..Len(rest) /\ ~(k <= j)
      BY <1>2
    <3>2. DOMAIN rest = 1..Len(rest)
      BY LenProperties DEF CallInv, LookOK
    <3>3. j \notin Mangled
      BY <1>2, <3>1
    <3> QED
      BY <3>1, <3>2, <3>3 DEF Mangled
  <2> HIDE DEF k, want
  <2>4. Way(want, dest \o Encoded(SubSeq(rest, 1, k - 1)),
            From(rest, (k - 1) + 1))
    BY <1>1, <1>6, <2>1, <2>2, <2>3, WayPast
  <2> QED
    BY <2>2, <2>4
<1> HIDE DEF k, path, names, dir, want
<1>9. /\ Len(path) \in Nat /\ Len(path) < Len(call.want)
  <2>1. Len(path) \in Nat /\ Len(names) \in Nat /\ Len(names) # 0
    BY <1>4, LenProperties, EmptySeq DEF Paths
  <2> QED
    BY <1>5, <2>1 DEF want
<1>10. CASE Size(path) >= MaxPath /\ Null(path)
              /\ UNCHANGED <<listing, i, clean, dirs, fails>>
  <2>1. CwdMeant' /\ Seen'
    BY <1>1, <1>9, <1>10, NullSeen
  <2>2. ~clean'
    <3> SUFFICES ASSUME clean PROVE FALSE
      BY <1>10
    <3>1. Size(path) < MaxPath
      BY <1>4, <1>6, <1>8, WayFits
    <3> QED
      BY <1>4, <1>10, <3>1, SizeNat, PathCallsAssumption
  <2>3. pc' = "null"
    BY <1>10 DEF Null
  <2> QED
    BY <1>1, <2>1, <2>2, <2>3, LookingReaches
<1>11. ASSUME NEW r \in VMShfOpenDir(path),
              clean' = (clean /\ (r.ok \/ (r.lost = 0 /\ ~IsDir(dir)))),
              r.ok, listing' \in SetToSeqs(Kids(dir)), i' = 0,
              dest' = path, rest' = names, pc' = "read", UNCHANGED cwd
       PROVE  ReachInv'
  <2>1. CwdMeant' /\ Seen'
    BY <1>1, <1>11, SameSeen DEF Looking, fixed
  <2>2. IsDir(dir)
    BY <1>11, OpenedThere DEF dir
  <2>3. ReadUpTo(path, names, listing', 0)
    BY <1>4, <1>7, <1>11, <2>2 DEF ReadUpTo, dir
  <2>4. clean' => /\ Way(call.want, dest', rest')
                  /\ ReadUpTo(dest', rest', listing', i')
    BY <1>8, <1>11, <2>3 DEF want
  <2> QED
    BY <1>1, <1>11, <2>1, <2>4, LookingReaches
<1>12. ASSUME NEW r \in VMShfOpenDir(path),
              clean' = (clean /\ (r.ok \/ (r.lost = 0 /\ ~IsDir(dir)))),
              ~r.ok, NotFound(path, names)
       PROVE  ReachInv'
  <2>1. CwdMeant' /\ Seen'
    BY <1>1, <1>4, <1>5, <1>12, NotFoundSeen DEF want
  <2>2. pc' \in {"lookup", "null"}
    BY <1>12 DEF NotFound, Null
  <2>3. ASSUME clean' PROVE pc' = "lookup" /\ Way(want, dest', rest')
    <3>1. clean /\ ~IsDir(dir)
      BY <1>12, <2>3
    <3>2. Kids(dir) = {}
      BY <3>1, NoKids DEF CallInv
    <3>3. want[Len(path) + 1] \notin Kids(Resolve(path))
      BY <3>2 DEF dir
    <3> QED
      BY <1>4, <1>6, <1>7, <1>8, <1>12, <3>1, <3>3, NotThere
  <2> QED
    BY <1>1, <2>1, <2>2, <2>3, LookingReaches DEF want
<1> QED
  BY <1>3, <1>10, <1>11, <1>12

\* Matches is Found for the directory that is read.
LEMMA MatchesIs ==
    ASSUME NEW name
    PROVE  Matches(name) = Found(dest, name, rest[1])
  BY Zenon DEF Matches, Found

LEMMA LookupReadReaches ==
    ASSUME CallInv, ReachInv, LookupRead
    PROVE  ReachInv'
<1> DEFINE want == call.want
           dir == Resolve(dest)
           real == want[Len(dest) + 1]
<1>1. /\ Looking /\ pc = "read" /\ VMShfReadDir
      /\ NamesOK /\ LookOK /\ HostOK /\ HostPaths
  BY TreeIs DEF LookupRead, Looking, CallInv
<1>2. /\ dest \in Paths /\ rest \in Paths /\ rest # <<>>
      /\ Len(dest) + Len(rest) = Len(want)
      /\ i \in 0..Len(listing) /\ listing \in Seq(Name)
  BY <1>1 DEF CallInv, LookOK, PlaceOK, ListOK
<1>3. want \in Paths /\ Known(want)
  BY CallIs, ReachIs
<1>4. Len(dest) \in Nat /\ Len(dest) < Len(want)
      /\ Len(listing) \in Nat /\ i \in Nat
  <2>1. Len(dest) \in Nat /\ Len(rest) \in Nat /\ Len(rest) # 0
    BY <1>2, LenProperties, EmptySeq DEF Paths
  <2> QED
    BY <1>2, <2>1, LenProperties
<1>5. ASSUME clean
      PROVE  /\ Way(want, dest, rest) /\ ReadUpTo(dest, rest, listing, i)
             /\ Looked(rest[1]) /\ listing \in SetToSeqs(Kids(dir))
             /\ \A j \in 1..i : ~Found(dest, listing[j], rest[1])
  <2>1. Way(want, dest, rest) /\ ReadUpTo(dest, rest, listing, i)
    BY <1>1, <1>5, ReachIs
  <2> QED
    BY <2>1 DEF ReadUpTo
<1>6. ASSUME clean
      PROVE  /\ real \in Name
             /\ \A e \in Kids(dir) : Found(dest, e, rest[1]) => e = real
             /\ real \in Kids(dir) => Found(dest, real, rest[1])
             /\ Child(dir, real) = Append(dir, real)
  <2>1. /\ real \in Name /\ rest[1] \in Name /\ dir \in Paths
        /\ Component(dir, real, rest[1])
    BY <1>1, <1>2, <1>3, <1>5, <1>6, WayComponent
  <2>2. /\ \A e \in Kids(dir) : Found(dir, e, rest[1]) => e = real
        /\ real \in Kids(dir) => Found(dir, real, rest[1])
    BY <1>1, <1>5, <1>6, <2>1, LookedUp
  <2>3. \A e : Found(dir, e, rest[1]) = Found(dest, e, rest[1])
    BY <1>1, <1>2, FoundIn
  <2>4. Child(dir, real) = Append(dir, real)
    BY <2>1, AsItIs DEF Component
  <2> QED
    BY <2>1, <2>2, <2>3, <2>4
<1> HIDE DEF want, dir, real
<1>7. ASSUME NotFound(dest, rest), clean' => i = Len(listing) /\ clean
      PROVE  ReachInv'
  <2>1. CwdMeant' /\ Seen'
    BY <1>1, <1>2, <1>7, NotFoundSeen DEF want
  <2>2. pc' \in {"lookup", "null"}
    BY <1>7 DEF NotFound, Null
  <2>3. ASSUME clean' PROVE pc' = "lookup" /\ Way(want, dest', rest')
    <3>1. clean /\ i = Len(listing)
      BY <1>7, <2>3
    <3>2. real \notin Kids(dir)
      <4> SUFFICES ASSUME real \in Kids(dir) PROVE FALSE
        OBVIOUS
      <4>1. PICK j \in 1..Len(listing) : listing[j] = real
        BY <1>1, <1>5, <3>1, ListingIs
      <4>2. Found(dest, real, rest[1])
        BY <1>6, <3>1
      <4> QED
        BY <1>5, <3>1, <4>1, <4>2
    <3>3. want[Len(dest) + 1] \notin Kids(Resolve(dest))
      BY <3>2 DEF dir, real
    <3> QED
      BY <1>2, <1>3, <1>5, <1>7, <3>1, <3>3, NotThere
  <2> QED
    BY <1>1, <2>1, <2>2, <2>3, LookingReaches DEF want
<1>8. CASE i < Len(listing) /\ FindRealName(listing[i + 1])
             /\ UNCHANGED clean
  <2> DEFINE e == listing[i + 1]
  <2>1. i + 1 \in 1..Len(listing)
    BY <1>4, <1>8
  <2>2. e \in Name
    BY <1>2, <2>1, ElementOfSeq
  <2>3. ASSUME clean PROVE e \in Kids(dir) /\ Len(e) <= Room(dest)
    <3>1. e \in Kids(dir)
      BY <1>1, <1>5, <2>1, <2>3, ListingIs
    <3> QED
      BY <1>2, <1>3, <1>5, <2>3, <3>1, WayFits DEF dir
  <2>4. \/ Len(e) > Room(dest) /\ Null(dest)
        \/ /\ Matches(e)
           /\ dest' = Append(dest, e) /\ rest' = Tail(rest)
           /\ pc' = "lookup" /\ UNCHANGED cwd
        \/ /\ ~Matches(e) /\ i' = i + 1
           /\ UNCHANGED <<cwd, pc, rest, dest, listing>>
    BY <1>8, Zenon DEF FindRealName
  <2>5. Matches(e) = Found(dest, e, rest[1])
    BY MatchesIs
  <2> HIDE DEF e
  <2>6. CASE Len(e) > Room(dest) /\ Null(dest)
    <3>1. CwdMeant' /\ Seen'
      BY <1>1, <1>4, <2>6, NullSeen DEF want
    <3>2. ~clean'
      <4>1. Len(e) \in Nat /\ Room(dest) \in Int
        BY <1>2, <2>2, SizeNat, PathCallsAssumption DEF Name, Room
      <4> QED
        BY <1>8, <2>3, <2>6, <4>1
    <3>3. pc' = "null"
      BY <2>6 DEF Null
    <3> QED
      BY <1>1, <3>1, <3>2, <3>3, LookingReaches
  <2>7. CASE /\ Matches(e)
             /\ dest' = Append(dest, e) /\ rest' = Tail(rest)
             /\ pc' = "lookup" /\ UNCHANGED cwd
    <3>1. CwdMeant' /\ Seen'
      BY <1>1, <2>7, SameSeen DEF Looking, fixed
    <3>2. ASSUME clean' PROVE Way(want, dest', rest')
      <4>1. clean
        BY <1>8, <3>2
      <4>2. e = real
        BY <1>6, <2>3, <2>5, <2>7, <4>1
      <4>3. /\ e \in Name /\ Len(e) = Len(want[Len(dest) + 1])
            /\ Child(Resolve(dest), e)
                 = Append(Resolve(dest), want[Len(dest) + 1])
        BY <1>6, <2>2, <4>1, <4>2 DEF real, dir
      <4>4. Way(want, Append(dest, e), Tail(rest))
        BY <1>1, <1>2, <1>3, <1>5, <4>1, <4>3, WayNext
      <4> QED
        BY <2>7, <4>4
    <3> QED
      BY <1>1, <2>7, <3>1, <3>2, LookingReaches DEF want
  <2>8. CASE /\ ~Matches(e) /\ i' = i + 1
             /\ UNCHANGED <<cwd, pc, rest, dest, listing>>
    <3>1. CwdMeant' /\ Seen'
      BY <1>1, <2>8, SameSeen DEF Looking, fixed
    <3>2. ASSUME clean'
          PROVE  /\ Way(want, dest', rest')
                 /\ ReadUpTo(dest', rest', listing', i')
      <4>1. clean
        BY <1>8, <3>2
      <4>2. Way(want, dest, rest) /\ ReadUpTo(dest, rest, listing, i)
        BY <1>5, <4>1
      <4>3. ASSUME NEW j \in 1..i + 1
            PROVE  ~Found(dest, listing[j], rest[1])
        <5>1. j \in 1..i \/ j = i + 1
          BY <1>4
        <5> QED
          BY <1>5, <2>5, <2>8, <4>1, <5>1 DEF e
      <4>4. ReadUpTo(dest, rest, listing, i + 1)
        BY <4>2, <4>3 DEF ReadUpTo
      <4> QED
        BY <2>8, <4>2, <4>4
    <3> QED
      BY <1>1, <2>8, <3>1, <3>2, LookingReaches DEF want
  <2> QED
    BY <2>4, <2>6, <2>7, <2>8
<1>9. \/ i < Len(listing) /\ FindRealName(listing[i + 1]) /\ UNCHANGED clean
      \/ i = Len(listing) /\ NotFound(dest, rest) /\ clean' = clean
      \/ NotFound(dest, rest) /\ clean' = FALSE
  BY <1>1, Zenon DEF VMShfReadDir
<1>10. CASE i = Len(listing) /\ NotFound(dest, rest) /\ clean' = clean
  BY <1>7, <1>10
<1>11. CASE NotFound(dest, rest) /\ clean' = FALSE
  BY <1>7, <1>11
<1> QED
  BY <1>8, <1>9, <1>10, <1>11

\* A lookup begins.
LEMMA WayBegins ==
    ASSUME NamesOK, HostOK, NEW want \in Paths, Distinct(want)
    PROVE  Way(want, <<>>, DosPath(want))
<1>1. Follows(want, <<>>)
  BY TreeIs, FollowsNone
<1>2. DosPath(want) \in Seq(Name)
  BY DosPathIs DEF Paths
<1>3. From(DosPath(want), Len(<<>>) + 1) = DosPath(want)
  <2>1. Len(<<>>) + 1 = 1
    BY EmptySeq
  <2> QED
    BY <1>2, <2>1, SubSeqFull DEF From
<1> QED
  BY <1>1, <1>3 DEF Way

\* What is meant is not too long for a request.
LEMMA WantFits ==
    ASSUME NamesOK, NEW want \in Paths, Known(want), Distinct(want)
    PROVE  Size(want) <= MaxPath
<1> DEFINE n == Len(want)
<1>1. n \in Nat /\ want \in Seq(Name) /\ MaxPath \in Nat
  BY Names1, PathCallsAssumption DEF Paths
<1>2. CASE n = 0
  <2>1. want = <<>>
    BY <1>1, <1>2, EmptySeq
  <2> QED
    BY <1>1, <2>1, SizeEmpty
<1>3. CASE n # 0
  <2> DEFINE dir == Take(want, n - 1)
             name == want[n]
  <2>1. n \in 1..n
    BY <1>1, <1>3
  <2>2. /\ dir \in Paths /\ name \in Name /\ Take(want, n) = Append(dir, name)
    BY <2>1, TakeNext
  <2>3. Take(want, n) = want
    BY <1>1, SubSeqFull DEF Take
  <2>4. Fits(dir, name, DosPath(want)[n])
    BY <2>1, ComponentIs
  <2> HIDE DEF dir, name
  <2>5. Size(want) = Size(dir) + 1 + Len(name)
    BY <2>2, <2>3, SizeAppend
  <2>6. Size(dir) + Len(name) + 1 <= MaxPath
    BY <2>4 DEF Fits
  <2>7. Size(dir) \in Nat /\ Len(name) \in Nat
    BY <2>2, SizeNat DEF Name
  <2> QED
    BY <1>1, <2>5, <2>6, <2>7
<1> QED
  BY <1>2, <1>3

\* Where nothing is left to look up the request goes to what is meant.
LEMMA PathReached ==
    ASSUME CallInv, ReachInv, clean, pc = "lookup", Mangled = {}
    PROVE  Portable /\ Resolve(Path) = call.want
<1> DEFINE want == call.want
           n == Len(rest)
<1>1. NamesOK /\ LookOK /\ HostPaths
  BY TreeIs DEF CallInv
<1>2. want \in Paths /\ Known(want) /\ Way(want, dest, rest)
  BY CallIs, ReachIs
<1>3. rest \in Seq(Name) /\ n \in Nat /\ DOMAIN rest = 1..n
  BY <1>1, LenProperties DEF LookOK, Paths
<1>4. ASSUME NEW j \in 1..n PROVE ~Looked(rest[j])
  BY <1>3 DEF Mangled
<1>5. n \in 0..Len(rest) /\ SubSeq(rest, 1, n) = rest
  BY <1>3, SubSeqFull
<1>6. Len(Path) = Len(want)
  <2>1. Len(Path) = Len(dest) + Len(rest)
    BY <1>1, PathIs
  <2> QED
    BY <2>1 DEF CallInv, PlaceOK
<1> HIDE DEF want, n
<1>7. Way(want, Path, From(rest, n + 1))
  <2>1. Way(want, dest \o Encoded(SubSeq(rest, 1, n)), From(rest, n + 1))
    BY <1>1, <1>2, <1>4, <1>5, WayPast
  <2> QED
    BY <1>5, <2>1 DEF Path
<1>8. Take(want, Len(want)) = want
  BY <1>2, SubSeqFull, Names1 DEF Take, Paths
<1>9. Resolve(Path) = want /\ Size(Path) = Size(want)
  BY <1>6, <1>7, <1>8 DEF Way, Follows
<1>10. Portable
  <2>1. Size(want) <= MaxPath
    BY <1>1, <1>2, WantFits DEF Way
  <2>2. Size(want) \in Nat /\ MaxPath \in Nat
    BY <1>2, SizeNat, PathCallsAssumption
  <2> QED
    BY <1>9, <2>1, <2>2 DEF Portable
<1> QED
  BY <1>9, <1>10 DEF want

LEMMA ReceivedThere ==
    ASSUME CallInv, ReachInv, clean, NEW fn, Handles(fn), NEW r, Receive(r)
    PROVE  target' = call.want
<1>1. target' = IF Portable THEN Resolve(Path) ELSE <<>>
  BY DEF Receive
<1>2. CASE pc = "lookup"
  <2>1. Mangled = {}
    BY <1>2 DEF Handles
  <2> QED
    BY <1>1, <1>2, <2>1, PathReached
<1>3. CASE pc = "null"
  <2>1. ~Portable
    BY <1>3 DEF Portable
  <2> QED
    BY <1>1, <1>3, <2>1, ReachIs
<1> QED
  BY <1>2, <1>3 DEF Handles

\* A call comes back.
LEMMA BackReaches ==
    ASSUME CallInv, ReachInv, UNCHANGED <<world, tables, call, clean>>,
           CwdMeant', Seen', pc' \in {"dos", "opened"},
           clean => target' = call.want
    PROVE  ReachInv'
  BY DEF ReachInv, WayOK, ReadOK, NullOK, ReachesListed

LEMMA ReceivedReaches ==
    ASSUME CallInv, ReachInv, UNCHANGED <<world, tables, call, clean, cwd>>,
           NEW fn, Handles(fn), NEW r, Receive(r), pc' \in {"dos", "opened"}
    PROVE  ReachInv'
<1>1. CwdMeant' /\ Seen'
  BY SameSeen
<1> QED
  BY <1>1, ReceivedThere, BackReaches

LEMMA ChDirReaches ==
    ASSUME CallInv, ReachInv, UNCHANGED <<world, tables, call, clean>>, ChDir
    PROVE  ReachInv'
<1>1. Handles("chdir")
  BY DEF ChDir
<1>2. pc' = "dos" /\ (cwd' = cwd \/ Copied)
  BY ChDirDoes DEF Returned
<1>3. CwdMeant' /\ Seen'
  <2>1. CASE cwd' = cwd
    BY <2>1, SameSeen
  <2>2. CASE Copied
    <3>1. cwd'.path = DosPath(call.want) /\ cwd'.want = call.want
      BY <2>2 DEF Copied
    <3>2. Known(call.want)
      BY ReachIs
    <3>3. /\ cwd'.path = DosPath(cwd'.want)
          /\ Known(cwd'.want) /\ Known(call'.want)
      BY <3>1, <3>2
    <3> QED
      BY <3>3, SeenKept
  <2> QED
    BY <1>2, <2>1, <2>2
<1>4. clean => target' = call.want
  <2>1. \/ call.want = <<>> /\ target' = <<>>
        \/ \E r \in VMShfGetAttr : Receive(r)
    BY Zenon DEF ChDir
  <2> QED
    BY <1>1, <2>1, ReceivedThere
<1> QED
  BY <1>2, <1>3, <1>4, BackReaches

\* The lookup of SetFileAttrib begins again.
LEMMA SetFileAttribReadReaches ==
    ASSUME CallInv, ReachInv, UNCHANGED <<world, tables, call, clean>>,
           SetFileAttribRead
    PROVE  ReachInv'
<1>1. PICK r \in VMShfGetAttr :
        /\ Receive(r)
        /\ \/ \E code : Return(code)
           \/ /\ pc' = "lookup"
              /\ rest' = DosPath(call.want) /\ dest' = <<>>
  BY Zenon DEF SetFileAttribRead
<1>2. cwd' = cwd /\ Handles("setattr")
  BY DEF SetFileAttribRead
<1>3. CASE \E code : Return(code)
  <2>1. pc' = "dos"
    BY <1>3 DEF Return
  <2> QED
    BY <1>1, <1>2, <2>1, ReceivedReaches
<1>4. CASE /\ pc' = "lookup"
           /\ rest' = DosPath(call.want) /\ dest' = <<>>
  <2>1. CwdMeant' /\ Seen'
    BY <1>2, SameSeen
  <2>2. host' = host
    BY <1>1, AttrServed
  <2>3. ASSUME clean PROVE Distinct(call.want)
    <3>1. CASE pc = "lookup"
      BY <2>3, <3>1, ReachIs DEF Way
    <3>2. CASE pc = "null"
      <4>1. call.want = <<>>
        BY <2>3, <3>2, ReachIs
      <4>2. \A k \in DOMAIN call.want : FALSE
        BY <4>1
      <4> QED
        BY <4>2, Zenon DEF Distinct
    <3> QED
      BY <1>2, <3>1, <3>2 DEF Handles
  <2>4. clean' => Way(call.want, dest', rest')
    BY <1>4, <2>3, WayBegins, CallIs DEF CallInv
  <2>5. WayOK'
    BY <2>2, <2>4, SameWay DEF WayOK
  <2>6. ReadOK' /\ NullOK' /\ ReachesListed'
    BY <1>4 DEF ReadOK, NullOK, ReachesListed
  <2> QED
    BY <2>1, <2>5, <2>6 DEF ReachInv
<1> QED
  BY <1>1, <1>3, <1>4

LEMMA HandlerReaches ==
    ASSUME CallInv, ReachInv, Handler
    PROVE  ReachInv'
<1>1. UNCHANGED <<world, tables, call, clean>>
  BY DEF Handler, fixed
<1>2. ASSUME NEW fn, Handles(fn), NEW r, Receive(r), UNCHANGED cwd,
             (\E code : Return(code)) \/ pc' = "opened"
      PROVE  ReachInv'
  <2>1. pc' \in {"dos", "opened"}
    BY <1>2 DEF Return
  <2> QED
    BY <1>1, <1>2, <2>1, ReceivedReaches
<1>3. CASE RmDir
  BY <1>2, <1>3, Zenon DEF RmDir
<1>4. CASE MkDir
  BY <1>2, <1>4, Zenon DEF MkDir
<1>5. CASE ChDir
  BY <1>1, <1>5, ChDirReaches
<1>6. CASE GetFileAttrib
  BY <1>2, <1>6, Zenon DEF GetFileAttrib
<1>7. CASE SetFileAttribRead
  BY <1>1, <1>7, SetFileAttribReadReaches
<1>8. CASE SetFileAttrib
  BY <1>2, <1>8, Zenon DEF SetFileAttrib
<1>9. CASE GetDiskSpace
  BY <1>2, <1>9, Zenon DEF GetDiskSpace
<1>10. CASE OpenOrCreateFile
  BY <1>2, <1>10, Zenon DEF OpenOrCreateFile
<1>11. CASE Opened
  <2>1. UNCHANGED <<cwd, target>> /\ pc = "opened"
    BY <1>11 DEF Opened
  <2>2. pc' = "dos"
    BY <1>11, OpenedDoes DEF Returned
  <2>3. CwdMeant' /\ Seen'
    BY <1>1, <2>1, SameSeen
  <2>4. clean => target' = call.want
    BY <2>1 DEF ReachInv, ReachesListed
  <2> QED
    BY <1>1, <2>2, <2>3, <2>4, BackReaches
<1> QED
  BY <1>3, <1>4, <1>5, <1>6, <1>7, <1>8, <1>9, <1>10, <1>11 DEF Handler

LEMMA StartReaches ==
    ASSUME CallInv, ReachInv, NEW c, NEW path, Start(c, path),
           c.want \in Paths, Known(c.want),
           \/ pc' = "lookup" /\ path = DosPath(c.want)
           \/ pc' = "null" /\ c.want = <<>>
    PROVE  ReachInv'
<1>1. /\ UNCHANGED <<world, tables, host, cwd>>
      /\ call' = c /\ rest' = path /\ dest' = <<>> /\ clean' = Distinct(c.want)
  BY DEF Start, fixed
<1>2. CwdMeant' /\ Seen'
  <2>1. /\ cwd'.path = DosPath(cwd'.want)
        /\ Known(cwd'.want) /\ Known(call'.want)
    BY <1>1, ReachIs
  <2> QED
    BY <1>1, <2>1, SeenKept
<1>3. ASSUME clean', pc' = "lookup" PROVE OnWay'
  <2>1. Way(c.want, <<>>, DosPath(c.want))
    BY <1>1, <1>3, WayBegins DEF CallInv
  <2> QED
    BY <1>1, <1>3, <2>1, SameWay
<1>4. WayOK' /\ ReadOK' /\ NullOK' /\ ReachesListed'
  BY <1>1, <1>3 DEF WayOK, ReadOK, NullOK, ReachesListed
<1> QED
  BY <1>2, <1>4 DEF ReachInv

LEMMA StartCallReaches ==
    ASSUME CallInv, ReachInv, StartCall
    PROVE  ReachInv'
<1>1. PICK c \in W.calls :
        /\ \A k \in DOMAIN c.want : Listed(c.want)[k] # NoName
        /\ Start(c, DosPath(c.want))
        /\ pc' = "lookup"
  BY DEF StartCall
<1>2. c.want \in Paths
  BY WorldIs DEF CallInv, NamesOK, Asks, Call, Paths
<1>3. Known(c.want)
  <2>1. DOMAIN c.want = 1..Len(c.want)
    BY <1>2, Names1
  <2>2. ASSUME NEW k \in 1..Len(c.want)
        PROVE  FcbName(c.want[k], k = 1) # NoName
    <3>1. Listed(c.want)[k] = FcbName(c.want[k], k = 1)
      BY <1>2, DosPathIs DEF CallInv
    <3> QED
      BY <1>1, <2>1, <3>1
  <2> QED
    BY <2>2 DEF Known
<1> QED
  BY <1>1, <1>2, <1>3, StartReaches

LEMMA StartSpaceReaches ==
    ASSUME CallInv, ReachInv, StartSpace
    PROVE  ReachInv'
<1>1. PICK c \in W.calls :
        /\ IF c.flag THEN Start([c EXCEPT !.want = cwd.want], cwd.path)
                     ELSE Start([c EXCEPT !.want = <<>>], <<>>)
        /\ pc' = (IF c.flag THEN "lookup" ELSE "null")
  BY DEF StartSpace
<1>2. c \in Call
  BY WorldIs DEF CallInv, NamesOK, Asks
<1>3. CASE c.flag
  <2> DEFINE d == [c EXCEPT !.want = cwd.want]
  <2>1. d.want = cwd.want
    BY <1>2 DEF Call
  <2>2. /\ cwd.want \in Paths /\ Known(cwd.want)
        /\ cwd.path = DosPath(cwd.want)
    BY CallIs, ReachIs
  <2>3. Start(d, cwd.path) /\ pc' = "lookup"
    BY <1>1, <1>3
  <2> HIDE DEF d
  <2> QED
    BY <2>1, <2>2, <2>3, StartReaches
<1>4. CASE ~c.flag
  <2> DEFINE d == [c EXCEPT !.want = <<>>]
  <2>1. d.want = <<>>
    BY <1>2 DEF Call
  <2>2. <<>> \in Paths /\ Known(<<>>)
    BY EmptySeq DEF Paths, Known
  <2>3. Start(d, <<>>) /\ pc' = "null"
    BY <1>1, <1>4
  <2> HIDE DEF d
  <2> QED
    BY <2>1, <2>2, <2>3, StartReaches
<1> QED
  BY <1>3, <1>4

\* Nothing but the host changes.
LEMMA HostReaches ==
    ASSUME CallInv, ReachInv,
           UNCHANGED <<world, tables, cwd, pc, call, target>>,
           clean' => clean /\ pc = "dos"
    PROVE  ReachInv'
<1>1. CwdMeant' /\ Seen'
  BY SameSeen
<1>2. WayOK' /\ ReadOK' /\ NullOK' /\ ReachesListed'
  BY DEF WayOK, ReadOK, NullOK, ReachInv, ReachesListed
<1> QED
  BY <1>1, <1>2 DEF ReachInv

LEMMA SameReaches ==
    ASSUME CallInv, ReachInv, UNCHANGED vars
    PROVE  ReachInv'
<1>1. UNCHANGED <<world, tables, host, cwd, pc, call, rest, dest, listing, i,
                  target, clean>>
  BY DEF vars, fixed, search
<1>2. CwdMeant' /\ Seen'
  BY <1>1, SameSeen
<1>3. WayOK'
  BY <1>1, ReachIs, SameWay DEF WayOK
<1>4. ReadOK'
  BY <1>1, ReachIs, SameReading DEF ReadOK
<1>5. NullOK' /\ ReachesListed'
  BY <1>1 DEF ReachInv, NullOK, ReachesListed
<1> QED
  BY <1>2, <1>3, <1>4, <1>5 DEF ReachInv

LEMMA NextReaches ==
    ASSUME CallInv, ReachInv, Next
    PROVE  ReachInv'
<1>1. CASE \E pair \in W.copies : CloseWithDateOf(pair[1], pair[2])
  <2>1. PICK from, to : CloseWithDateOf(from, to)
    BY <1>1
  <2>2. /\ UNCHANGED <<world, tables, cwd, pc, call, target>>
        /\ clean' = clean /\ pc = "dos"
    BY <2>1 DEF CloseWithDateOf, fixed
  <2> QED
    BY <2>2, HostReaches
<1>2. CASE HostChange
  <2>1. /\ UNCHANGED <<world, tables, cwd, pc, call, target>>
        /\ clean' = (clean /\ pc = "dos")
    BY <1>2 DEF HostChange, fixed
  <2> QED
    BY <2>1, HostReaches
<1> QED
  BY <1>1, <1>2, StartCallReaches, StartSpaceReaches, LookupOpenReaches,
     LookupReadReaches, HandlerReaches DEF Next

LEMMA InitReaches == Init => ReachInv
<1> SUFFICES ASSUME Init PROVE ReachInv
  OBVIOUS
<1>1. /\ cwd = [path |-> <<>>, want |-> <<>>]
      /\ pc = "dos" /\ call = NoCall /\ target = <<>>
  BY DEF Init
<1>2. NamesOK
  BY InitCalls DEF CallInv
<1>3. <<>> \in Paths
  BY EmptySeq DEF Paths
<1>4. DosPath(<<>>) = <<>> /\ Known(<<>>)
  <2>1. DosPath(<<>>) \in Seq(Name) /\ Len(DosPath(<<>>)) = Len(<<>>)
    BY <1>2, <1>3, DosPathIs DEF Paths
  <2>2. Known(<<>>)
    BY <1>3, EmptySeq DEF Known
  <2> QED
    BY <2>1, <2>2, EmptySeq
<1>5. cwd.path = <<>> /\ cwd.want = <<>> /\ call.want = <<>>
  BY <1>1 DEF NoCall
<1>6. CwdMeant /\ Seen
  BY <1>4, <1>5 DEF CwdMeant, Seen
<1>7. WayOK /\ ReadOK /\ NullOK /\ ReachesListed
  BY <1>1, <1>5 DEF WayOK, ReadOK, NullOK, ReachesListed
<1> QED
  BY <1>6, <1>7 DEF ReachInv

-----------------------------------------------------------------------------
(* What a call changes.                                                    *)

LEMMA PutChanges ==
    ASSUME NEW path, NEW node
    PROVE  Differs(host, Put(path, node).host) \subseteq {path}
<1> DEFINE h == Put(path, node).host
<1>1. h = [p \in DOMAIN host \cup {path} |->
              IF p = path THEN node ELSE host[p]]
  BY DEF Put
<1> HIDE DEF h
<1>2. ASSUME NEW p \in Differs(host, h), p # path PROVE FALSE
  <2>1. p \in DOMAIN host
    BY <1>1, <1>2 DEF Differs
  <2>2. p \in DOMAIN h /\ h[p] = host[p]
    BY <1>1, <1>2, <2>1
  <2> QED
    BY <1>2, <2>1, <2>2 DEF Differs
<1>3. Differs(host, h) \subseteq {path}
  BY <1>2
<1> QED
  BY <1>3 DEF h

LEMMA NoChange == Differs(host, host) = {}
  BY DEF Differs

LEMMA StatusChanges ==
    ASSUME NEW path, NEW status
    PROVE  Differs(host, Status(path, status).host) = {}
  BY NoChange DEF Status

\* A request changes what is at its path only.
LEMMA HostChanges ==
    ASSUME NEW path
    PROVE  /\ Differs(host, HostDeleteDir(path).host) \subseteq {path}
           /\ Differs(host, HostCreateDir(path).host) \subseteq {path}
           /\ Differs(host, HostGetAttr(path).host) \subseteq {path}
           /\ \A mode :
                Differs(host, HostSetAttr(path, mode).host) \subseteq {path}
           /\ \A action, mode :
                Differs(host, HostOpenFile(path, action, mode).host)
                  \subseteq {path}
<1>1. Differs(host, HostDeleteDir(path).host) \subseteq {path}
  <2> DEFINE h == [p \in DOMAIN host \ {path} |-> host[p]]
  <2>1. \/ HostDeleteDir(path).host = h
        \/ \E status : HostDeleteDir(path) = Status(path, status)
    BY DEF HostDeleteDir
  <2>2. Differs(host, h) \subseteq {path}
    BY DEF Differs
  <2> HIDE DEF h
  <2> QED
    BY <2>1, <2>2, StatusChanges
<1>2. Differs(host, HostCreateDir(path).host) \subseteq {path}
  <2>1. \/ \E node : HostCreateDir(path) = Put(path, node)
        \/ \E status : HostCreateDir(path) = Status(path, status)
    BY DEF HostCreateDir
  <2> QED
    BY <2>1, PutChanges, StatusChanges
<1>3. Differs(host, HostGetAttr(path).host) \subseteq {path}
  BY StatusChanges DEF HostGetAttr
<1>4. ASSUME NEW mode
      PROVE  Differs(host, HostSetAttr(path, mode).host) \subseteq {path}
  <2>1. \/ \E node : HostSetAttr(path, mode) = Put(path, node)
        \/ \E status : HostSetAttr(path, mode) = Status(path, status)
    BY DEF HostSetAttr
  <2> QED
    BY <2>1, PutChanges, StatusChanges
<1>5. ASSUME NEW action, NEW mode
      PROVE  Differs(host, HostOpenFile(path, action, mode).host)
               \subseteq {path}
  <2> DEFINE does == HostOpenFile(path, action, mode)
  <2>1. \/ \E node : does = Put(path, node)
        \/ \E status : does = Status(path, status)
    BY DEF HostOpenFile
  <2> HIDE DEF does
  <2>2. Differs(host, does.host) \subseteq {path}
    BY <2>1, PutChanges, StatusChanges
  <2> QED
    BY <2>2 DEF does
<1> QED
  BY <1>1, <1>2, <1>3, <1>4, <1>5

\* The step of a request, as "touched" records it.
Touching ==
    /\ touched' = touched \cup Differs(host, host')
    /\ Differs(host, host') \subseteq {target'}

LEMMA RequestTouches ==
    ASSUME NEW does, NEW r \in Request(does), Receive(r),
           Differs(host, does.host) \subseteq {Resolve(Path)}
    PROVE  Touching
<1>1. /\ host' = r.host /\ touched' = touched \cup Differs(host, host')
      /\ target' = IF Portable THEN Resolve(Path) ELSE <<>>
  BY DEF Receive
<1>2. CASE host' = host
  BY <1>1, <1>2, NoChange DEF Touching
<1>3. CASE Portable /\ host' = does.host
  BY <1>1, <1>3 DEF Touching
<1>4. CASE Portable
  <2>1. r.host = host \/ r.host = does.host
    BY <1>4 DEF Request, ExecuteRpc, Answer
  <2> QED
    BY <1>1, <1>2, <1>3, <1>4, <2>1
<1>5. CASE ~Portable
  <2>1. r.host = host
    BY <1>5 DEF Request, Answer
  <2> QED
    BY <1>1, <1>2, <2>1
<1> QED
  BY <1>4, <1>5

LEMMA HandlerTouches ==
    ASSUME Handler
    PROVE  Touching \/ Opened
<1>1. ASSUME NEW r \in VMShfGetAttr, Receive(r) PROVE Touching
  BY <1>1, RequestTouches, HostChanges DEF VMShfGetAttr
<1>2. CASE RmDir
  BY <1>2, RequestTouches, HostChanges DEF RmDir, VMShfDeleteFileDir
<1>3. CASE MkDir
  BY <1>3, RequestTouches, HostChanges DEF MkDir, VMShfCreateDir
<1>4. CASE ChDir
  <2>1. CASE UNCHANGED <<host, fails, touched>>
    BY <2>1, NoChange DEF Touching
  <2>2. CASE \E r \in VMShfGetAttr : Receive(r)
    BY <1>1, <2>2
  <2> QED
    BY <1>4, <2>1, <2>2, Zenon DEF ChDir
<1>5. CASE GetFileAttrib
  BY <1>1, <1>5 DEF GetFileAttrib
<1>6. CASE SetFileAttribRead
  <2>1. \E r \in VMShfGetAttr : Receive(r)
    BY <1>6, Zenon DEF SetFileAttribRead
  <2> QED
    BY <1>1, <2>1
<1>7. CASE SetFileAttrib
  BY <1>7, RequestTouches, HostChanges DEF SetFileAttrib, VMShfSetAttr
<1>8. CASE GetDiskSpace
  <2>1. PICK r \in VMShfGetDirSize : Receive(r)
    BY <1>8 DEF GetDiskSpace
  <2>2. CASE pc = "null"
    <3>1. r \in ExecuteRpc(HostGetAttr(<<>>))
      BY <2>2 DEF VMShfGetDirSize
    <3>2. r.host = host
      BY <3>1 DEF ExecuteRpc, Answer, HostGetAttr, Status
    <3> QED
      BY <2>1, <3>2, NoChange DEF Receive, Touching
  <2>3. CASE pc # "null"
    BY <1>1, <2>1, <2>3 DEF VMShfGetDirSize, VMShfGetAttr
  <2> QED
    BY <2>2, <2>3
<1>9. CASE OpenOrCreateFile
  BY <1>9, RequestTouches, HostChanges
     DEF OpenOrCreateFile, VMShfOpenFile
<1> QED
  BY <1>2, <1>3, <1>4, <1>5, <1>6, <1>7, <1>8, <1>9 DEF Handler

\* What a call has changed before its last step: nothing, but for an open
\* that is to be described.
TouchInv ==
    /\ pc \in {"lookup", "read", "null"} => touched = {}
    /\ pc = "opened" =>
         /\ touched \subseteq {target}
         /\ touched # {} => call.ext \cap {"create", "replace"} # {}

\* SaysWhatItDid, step by step.
CallStep ==
    pc # "dos" /\ pc' = "dos" =>
        LET p == target'
            undescribed == /\ pc = "opened" /\ ax' = "ACCESS"
                           /\ call.ext \cap {"create", "replace"} # {}
        IN  /\ touched' \subseteq {p}
            /\ call.fn \in {"chdir", "getattr", "space"} => touched' = {}
            /\ ax' \notin {"SUCCESS", "NOTREADY"} =>
                 touched' = {} \/ undescribed
            /\ ax' = "SUCCESS" =>
                /\ call.fn = "rmdir" =>
                     /\ IsDir(p) /\ Kids(p) = {}
                     /\ DOMAIN host' = DOMAIN host \ {p}
                /\ call.fn = "mkdir" =>
                     /\ ~Exists(p) /\ IsDir(Front1(p))
                     /\ p \in DOMAIN host' /\ host'[p].mode.dir
                /\ call.fn = "setattr" =>
                     FModeToFatAttr(host'[p].mode) \ {"subdir"}
                        = call.fat \ {"subdir"}

\* An open of what is there, and no more, changes nothing.
LEMMA OpenTouches ==
    ASSUME CallInv, OpenOrCreateFile, touched = {}, Touching
    PROVE  touched' # {} => call.ext \cap {"create", "replace"} # {}
<1> SUFFICES ASSUME call.ext \cap {"create", "replace"} = {}
             PROVE  touched' = {}
  OBVIOUS
<1> DEFINE action == DosExtActionToOpenAction(call.ext)
           does == HostOpenFile(Resolve(Path), action,
                                FatAttrToFMode(call.fat))
<1>1. PICK r \in Request(does) : Receive(r)
  BY DEF OpenOrCreateFile, VMShfOpenFile
<1>2. call.ext \in SUBSET {"create", "open", "replace"}
  BY DEF CallInv, CallOK, Asks, Call
<1>3. "create" \notin call.ext /\ "replace" \notin call.ext
  OBVIOUS
<1>4. action = "O_EXIST"
  BY <1>2, <1>3, ActionIs
<1> HIDE DEF action
<1>5. does.host = host
  BY <1>4 DEF HostOpenFile, Status
<1> HIDE DEF does
<1>6. r.host = host
  BY <1>1, <1>5 DEF Request, ExecuteRpc, Answer
<1> QED
  BY <1>1, <1>6, NoChange DEF Receive, Touching

LEMMA HandlerCalls ==
    ASSUME CallInv, TouchInv, Handler
    PROVE  TouchInv' /\ CallStep
<1>1. call' = call /\ SaysStep
  BY HandlerDoes DEF Handler
<1>2. CASE Opened
  <2>1. pc = "opened" /\ pc' = "dos" /\ call.fn = "open"
    BY <1>2 DEF Opened, Return, CallInv, PlaceOK
  <2>2. touched' = touched /\ target' = target
    BY <1>2 DEF Opened
  <2>3. ax' \in {"SUCCESS", "NOTREADY", "ACCESS"}
    <3>1. PICK r \in ExecuteRpc(Status(target, "SUCCESS")) :
            Return(IF Code(r) = "SUCCESS" /\ IsDir(target) THEN "ACCESS"
                                                           ELSE Code(r))
      BY <1>2 DEF Opened
    <3>2. r.lost = 1 \/ r.status \in {"SUCCESS", "EACCESS"}
      BY <3>1 DEF ExecuteRpc, Answer, Status
    <3>3. Code(r) \in {"SUCCESS", "NOTREADY", "ACCESS"}
      BY <3>2, ErrorIs DEF Code
    <3> QED
      BY <3>1, <3>3 DEF Return
  <2>4. /\ touched' \subseteq {target'}
        /\ touched' # {} => call.ext \cap {"create", "replace"} # {}
    BY <2>1, <2>2 DEF TouchInv
  <2>5. CallStep
    BY <2>1, <2>3, <2>4 DEF CallStep
  <2> QED
    BY <2>1, <2>5 DEF TouchInv
<1>3. CASE ~Opened
  <2>1. Touching
    BY <1>3, HandlerTouches
  <2>2. pc \in {"lookup", "null"}
    BY <1>3 DEF Handler, RmDir, MkDir, ChDir, GetFileAttrib,
       SetFileAttribRead, SetFileAttrib, GetDiskSpace, OpenOrCreateFile,
       Handles
  <2>3. touched = {} /\ touched' = Differs(host, host')
    BY <2>1, <2>2 DEF TouchInv, Touching
  <2>4. host' = host => touched' = {}
    BY <2>3, NoChange
  <2>5. CallStep
    BY <1>1, <2>1, <2>3, <2>4 DEF CallStep, SaysStep, Touching
  <2>6. CASE pc' = "dos"
    BY <2>5, <2>6 DEF TouchInv
  <2>7. CASE SetFileAttribRead /\ pc' = "lookup"
    <3>1. PICK r \in VMShfGetAttr : Receive(r)
      BY <2>7, Zenon DEF SetFileAttribRead
    <3>2. host' = host
      BY <3>1, AttrServed
    <3> QED
      BY <2>4, <2>5, <2>7, <3>2 DEF TouchInv
  <2>8. CASE OpenOrCreateFile /\ pc' = "opened"
    <3>1. touched' \subseteq {target'}
      BY <2>1, <2>3 DEF Touching
    <3>2. touched' # {} => call'.ext \cap {"create", "replace"} # {}
      BY <1>1, <2>1, <2>3, <2>8, OpenTouches
    <3> QED
      BY <2>5, <2>8, <3>1, <3>2 DEF TouchInv
  <2> QED
    BY <1>3, <2>6, <2>7, <2>8 DEF Handler, RmDir, MkDir, ChDir,
       GetFileAttrib, SetFileAttribRead, SetFileAttrib, GetDiskSpace,
       OpenOrCreateFile, Return
<1> QED
  BY <1>2, <1>3

LEMMA LookupCalls ==
    ASSUME TouchInv, LookupOpen \/ LookupRead
    PROVE  TouchInv' /\ CallStep
<1>1. pc \in {"lookup", "read"} /\ touched' = touched
  BY DEF LookupOpen, LookupRead, history
<1>2. pc' \in {"lookup", "read", "null"}
  <2>1. ASSUME NEW path, NEW names, NotFound(path, names)
        PROVE  pc' \in {"lookup", "null"}
    BY <2>1 DEF NotFound, Null
  <2>2. ASSUME NEW name, FindRealName(name), pc = "read"
        PROVE  pc' \in {"lookup", "read", "null"}
    BY <2>2 DEF FindRealName, Null
  <2>3. CASE LookupOpen
    BY <2>1, <2>3 DEF LookupOpen, Null
  <2>4. CASE LookupRead
    BY <2>1, <2>2, <2>4 DEF LookupRead, VMShfReadDir
  <2> QED
    BY <2>3, <2>4
<1> QED
  BY <1>1, <1>2 DEF TouchInv, CallStep

LEMMA NextCalls ==
    ASSUME CallInv, TouchInv, Next
    PROVE  TouchInv' /\ CallStep
<1>1. CASE StartCall \/ StartSpace
  <2>1. pc = "dos" /\ touched' = {} /\ pc' \in {"lookup", "null"}
    BY <1>1 DEF StartCall, StartSpace, Start
  <2> QED
    BY <2>1 DEF TouchInv, CallStep
<1>2. CASE LookupOpen \/ LookupRead
  BY <1>2, LookupCalls
<1>3. CASE Handler
  BY <1>3, HandlerCalls
<1>4. CASE UNCHANGED <<pc, call, target, touched>>
  BY <1>4 DEF TouchInv, CallStep
<1>5. CASE \E pair \in W.copies : CloseWithDateOf(pair[1], pair[2])
  BY <1>4, <1>5 DEF CloseWithDateOf
<1>6. CASE HostChange
  BY <1>4, <1>6 DEF HostChange
<1> QED
  BY <1>1, <1>2, <1>3, <1>5, <1>6 DEF Next

-----------------------------------------------------------------------------
(* The theorems.                                                           *)

\* Variables keep their types; RmDir, MkDir and ChDir never return
\* DOS_FILENOTFND; of the long path and its terminator at most one byte is
\* behind the buffer.  (redir.c; lfn.c: LfnGetTrueLongName, FindRealName)
THEOREM CallsTyped == Spec => []TypeOK
<1>1. CallInv => TypeOK
  <2> SUFFICES ASSUME CallInv PROVE TypeOK
    OBVIOUS
  <2>1. world \in DOMAIN Worlds /\ \A p \in DOMAIN host : host[p] \in Node
    BY TreeIs DEF CallInv, NamesOK
  <2>2. pc \in {"dos", "lookup", "read", "null", "opened"}
    BY DEF CallInv, PcOK
  <2>3. call \in Call /\ i \in 0..Len(listing)
    BY DEF CallInv, CallOK, Asks, ListOK
  <2>4. second \in BOOLEAN /\ clean \in BOOLEAN
    BY Zenon DEF CallInv, FlagsOK
  <2>5. /\ ax \in Codes
        /\ call.fn \in {"rmdir", "mkdir", "chdir"} => ax # "FILENOTFND"
    BY DEF CallInv, CodeOK
  <2>6. /\ dirs \in Nat /\ fails \in 0..MaxFail
        /\ calls \in 0..W.most /\ changes \in 0..MaxChange
    BY DEF CallInv, DirsOK, CountsOK
  <2>7. PathFits
    <3>1. Size(dest) \in Nat /\ MaxPath \in Nat /\ Size(dest) <= MaxPath
      BY SizeNat, PathCallsAssumption DEF CallInv, LookOK
    <3> QED
      BY <3>1 DEF PathFits
  <2> QED
    BY <2>1, <2>2, <2>3, <2>4, <2>5, <2>6, <2>7, Zenon DEF TypeOK
<1> QED
  BY <1>1, CallsKept, PTL

\* A lookup leaves no directory open on the host, but for the RPCs that
\* failed.  (lfn.c: FindRealName)
THEOREM DirsBounded == Spec => []LeakBound
<1>1. CallInv => LeakBound
  BY DEF CallInv, DirsOK
<1> QED
  BY <1>1, CallsKept, PTL

\* A listing shows the date of the calendar and the time to two seconds, and
\* a file that is given them is listed with them.  (vmdos.c: FTimeToFatTime,
\* FatTimeToFTime)
THEOREM TimesListed == Spec => []ListedTime
<1>1. CallInv => ListedTime
  <2> SUFFICES ASSUME CallInv,
                      NEW p \in {q \in DOMAIN host : InRange(host[q].time)}
               PROVE  LET f == FatTimeOf(p)
                          local == Moved(host[p].time, W.opt.gmtOffset)
                      IN  /\ DaysSince1601(1980 + f.year, f.month, f.day)
                               = local.day
                          /\ f.day <= DaysIn(1980 + f.year, f.month)
                          /\ 3600 * f.hour + 60 * f.min + 2 * f.sec
                               = local.sec - (local.sec % 2)
                          /\ FTimeToFatTime(
                               FatTimeToFTime(f, W.opt.gmtOffset),
                               W.opt.gmtOffset) = f
    BY Zenon DEF ListedTime
  <2> DEFINE t == host[p].time
             offset == W.opt.gmtOffset
  <2>1. t \in Clocks
    <3>1. t \in FTime
      BY TreeIs DEF CallInv, Node
    <3> HIDE DEF t
    <3> QED
      BY <3>1, DayLength DEF FTime, Clocks
  <2>2. offset \in Int
    <3>1. offset \in -SECSPERDAY..SECSPERDAY
      BY OptionIs DEF CallInv, NamesOK
    <3> HIDE DEF offset
    <3> QED
      BY <3>1, DayLength
  <2>3. Moved(t, offset).day \in
            DaysSince1601(1980, 1, 1)..DaysSince1601(2100, 2, 28)
    <3>1. InRange(host[p].time)
      BY Zenon
    <3> QED
      BY <3>1, SMT DEF InRange
  <2>4. FatTimeOf(p) = FTimeToFatTime(t, offset)
    BY Zenon DEF FatTimeOf
  <2> HIDE DEF t, offset
  <2>5. LET f == FTimeToFatTime(t, offset)
            local == Moved(t, offset)
        IN  /\ DaysSince1601(1980 + f.year, f.month, f.day) = local.day
            /\ f.day <= DaysIn(1980 + f.year, f.month)
            /\ 3600 * f.hour + 60 * f.min + 2 * f.sec
                 = local.sec - (local.sec % 2)
            /\ FTimeToFatTime(FatTimeToFTime(f, offset), offset) = f
    BY <2>1, <2>2, <2>3, CalendarTime
  <2> QED
    BY <2>4, <2>5, SMT DEF t, offset
<1> QED
  BY <1>1, CallsKept, PTL

\* The current directory becomes one that the host has, unless an RPC fails;
\* asking for the free space leaves it, or one above it.
\* (redir.c: ChDir, GetDiskSpace; lfn.c: LfnGetTrueLongName)
THEOREM CwdKept == Spec => CwdIsDir
<1>1. CallInv /\ [Next]_vars => [CwdStep]_vars
  BY NextDoes
<1> QED
  BY <1>1, CallsKept, PTL DEF Spec, CwdIsDir, CwdStep

\* What a call returns is what became of the share in the whole of the call,
\* and of nothing else in it, but after DOS_NOTREADY and for an open that is
\* refused when it was done.
\* (redir.c: RmDir, MkDir, SetFileAttrib, OpenOrCreateFile)
THEOREM CallsSayWhatTheyDid == Spec => SaysWhatItDid
<1>1. Init => CallInv /\ TouchInv
  BY InitCalls DEF Init, TouchInv
<1>2. (CallInv /\ TouchInv) /\ [Next]_vars =>
        (CallInv /\ TouchInv)' /\ [CallStep]_vars
  <2>1. ASSUME CallInv, TouchInv, Next
        PROVE  (CallInv /\ TouchInv)' /\ [CallStep]_vars
    BY <2>1, NextDoes, NextCalls
  <2>2. ASSUME CallInv, TouchInv, UNCHANGED vars
        PROVE  (CallInv /\ TouchInv)' /\ [CallStep]_vars
    BY <2>2, SameKeeps DEF TouchInv, vars, history
  <2> QED
    BY <2>1, <2>2
<1> QED
  BY <1>1, <1>2, PTL DEF Spec, SaysWhatItDid, CallStep

\* An open creates, replaces and opens what the program allows it to, and
\* nothing else.  (redir.c: SpecialOpen; vmdos.c: DosExtActionToOpenAction)
THEOREM OpensMean == Spec => OpenMeans
<1>1. CallInv /\ [Next]_vars => [OpenStep]_vars
  BY NextDoes
<1> QED
  BY <1>1, CallsKept, PTL DEF Spec, OpenMeans, OpenStep

\* Each step of a call brings it on, whatever fails and whatever the host
\* lists.  (lfn.c: LfnGetTrueLongName)
THEOREM CallsGoOn == Spec => CallsAdvance
<1>1. CallInv /\ [Next]_vars => [AdvanceStep]_vars
  BY NextDoes
<1> QED
  BY <1>1, CallsKept, PTL DEF Spec, CallsAdvance, AdvanceStep

\* A call on the short names that a listing shows goes to the file that was
\* listed, and one on a new name to that name, unless another entry on the
\* way has the same short name or one that goes on after it, the name is not
\* one that comes back, a lookup failed, or the host changed meanwhile.
\* (lfn.c: LfnGetTrueLongName; vmdos.c: FNameToFcbName; unicode.c)
THEOREM ListedReached == Spec => []ReachesListed
<1>1. Init => CallInv /\ ReachInv
  BY InitCalls, InitReaches
<1>2. (CallInv /\ ReachInv) /\ [Next]_vars => (CallInv /\ ReachInv)'
  BY NextDoes, SameKeeps, NextReaches, SameReaches
<1>3. CallInv /\ ReachInv => ReachesListed
  BY DEF ReachInv
<1> QED
  BY <1>1, <1>2, <1>3, PTL DEF Spec
=============================================================================
