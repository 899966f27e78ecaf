---------------------------- MODULE FrontEnd_proof ----------------------------
(***************************************************************************)
(* Proofs about FrontEnd, for any number of clocks, requests and answers,  *)
(* and for every calendar: the panel shows what was asked for, the table   *)
(* catches up with the server, and adding a second to a row's text adds a  *)
(* second to its time.                                                     *)
(***************************************************************************)
EXTENDS FrontEnd, TLAPS, WellFoundedInduction

\* A set of numbers has a least one.
LEMMA LeastNumber ==
  ASSUME NEW S, S \subseteq Nat, S # {}
  PROVE  \E x \in S : \A y \in S : x <= y
<1> DEFINE R == OpToRel(<, Nat)
<1>1. PICK x \in S : \A y \in S : ~ (<<y, x>> \in R)
  <2>1. IsWellFoundedOn(R, Nat)
    BY NatLessThanWellFounded
  <2> HIDE DEF R
  <2> QED BY <2>1, WFMin
<1>2. \A y \in S : x <= y
  <2> SUFFICES ASSUME NEW y \in S PROVE x <= y
    OBVIOUS
  <2>1. ~(y < x)
    BY <1>1 DEF OpToRel
  <2> QED BY <2>1
<1> QED BY <1>2

-----------------------------------------------------------------------------
(* The calendar. *)

\* Quotient and remainder.
LEMMA DivMod ==
  ASSUME NEW a \in Nat, NEW b \in Nat \ {0}
  PROVE  /\ a = (a \div b) * b + (a % b)
         /\ a % b \in 0..(b - 1)
         /\ a \div b \in Nat
OBVIOUS

\* There is only one quotient, with one remainder.
LEMMA DivModUnique ==
  ASSUME NEW b \in Nat \ {0}, NEW q \in Nat, NEW r \in 0..(b - 1),
         NEW a, a = q * b + r
  PROVE  a \in Nat /\ a \div b = q /\ a % b = r
<1> DEFINE p == a \div b
           s == a % b
<1>1. a \in Nat
  OBVIOUS
<1>2. a = p * b + s /\ s \in 0..(b - 1) /\ p \in Nat
  BY <1>1, DivMod
<1> HIDE DEF p, s
<1>3. (p - q) * b = r - s
  BY <1>2
<1>4. CASE p = q
  BY <1>1, <1>2, <1>4 DEF p, s
<1>5. CASE p - q >= 1
  <2>1. (p - q) * b >= b
    BY <1>2, <1>5
  <2> QED BY <1>2, <1>3, <2>1
<1>6. CASE q - p >= 1
  <2>1. (q - p) * b >= b
    BY <1>2, <1>6
  <2>2. (q - p) * b = s - r
    BY <1>2, <1>3
  <2> QED BY <1>2, <2>1, <2>2
<1> QED BY <1>2, <1>4, <1>5, <1>6

\* The constants of the calendar.
LEMMA Calendar ==
  /\ Len(MonthStart) \in Nat /\ Len(MonthStart) > 1
  /\ MonthStart[1] = 0
  /\ \A k \in 1..Len(MonthStart) : MonthStart[k] \in Nat
  /\ \A m \in Months : MonthStart[m] < MonthStart[m + 1]
  /\ DaySeconds \in Nat \ {0}
BY FrontEndAssumption DEF Months

\* A month has a number of days.
LEMMA MonthDaysType ==
  ASSUME NEW m \in Months
  PROVE  MonthDays(m) \in Nat
<1>1. m \in 1..Len(MonthStart) /\ m + 1 \in 1..Len(MonthStart)
  BY Calendar DEF Months
<1>2. MonthStart[m] \in Nat /\ MonthStart[m + 1] \in Nat
  BY <1>1, Calendar
<1>3. MonthStart[m] < MonthStart[m + 1]
  BY Calendar
<1> QED BY <1>2, <1>3 DEF MonthDays

\* A time is in a day.
LEMMA PartsOfDay ==
  ASSUME NEW t \in Nat
  PROVE  /\ t = Day(t) * DaySeconds + Seconds(t)
         /\ Seconds(t) \in 0..(DaySeconds - 1) /\ Seconds(t) \in Nat
         /\ Day(t) \in Nat
<1>1. DaySeconds \in Nat \ {0}
  BY Calendar
<1>2. /\ t = (t \div DaySeconds) * DaySeconds + (t % DaySeconds)
      /\ t % DaySeconds \in 0..(DaySeconds - 1)
      /\ t \div DaySeconds \in Nat
  BY <1>1, DivMod, Zenon
<1>3. t % DaySeconds \in Nat
  BY <1>1, <1>2
<1> QED BY <1>2, <1>3 DEF Day, Seconds

\* Months begin one after the other.
LEMMA MonthsInOrder ==
  ASSUME NEW j \in 1..Len(MonthStart), NEW k \in 1..Len(MonthStart), j <= k
  PROVE  MonthStart[j] <= MonthStart[k]
<1> DEFINE Wrong == {n \in 0..Len(MonthStart) :
                       j + n <= Len(MonthStart) /\ MonthStart[j + n] < MonthStart[j]}
<1>1. ASSUME Wrong # {} PROVE FALSE
  <2>1. PICK n \in Wrong : \A y \in Wrong : n <= y
    <3>1. Wrong \subseteq Nat
      BY Calendar
    <3> HIDE DEF Wrong
    <3> QED BY <1>1, <3>1, LeastNumber
  <2>2. /\ n \in 1..Len(MonthStart) /\ j + n <= Len(MonthStart)
        /\ MonthStart[j + n] < MonthStart[j]
    BY <2>1, Calendar
  <2>3. n - 1 \notin Wrong
    <3>1. ~(n <= n - 1)
      BY <2>2, Calendar
    <3> HIDE DEF Wrong
    <3> QED BY <2>1, <3>1
  <2>4. MonthStart[j] <= MonthStart[j + (n - 1)]
    BY <2>2, <2>3, Calendar
  <2>5. j + n - 1 \in Months /\ (j + n - 1) + 1 = j + n
    BY <2>2, Calendar DEF Months
  <2>6. MonthStart[j + n - 1] < MonthStart[j + n]
    BY <2>5, Calendar
  <2>7. j + (n - 1) = j + n - 1 /\ j + n \in 1..Len(MonthStart)
        /\ j + n - 1 \in 1..Len(MonthStart)
    BY <2>2, Calendar
  <2> QED BY <2>2, <2>4, <2>6, <2>7, Calendar
<1>2. k - j \in 0..Len(MonthStart) /\ j + (k - j) = k
  BY Calendar
<1>3. k - j \notin Wrong
  BY <1>1
<1> QED BY <1>2, <1>3, Calendar

\* A year has days.
LEMMA YearDaysType == YearDays \in Nat \ {0}
<1>1. 1 \in Months /\ 2 \in 1..Len(MonthStart) /\ MonthStart[1] < MonthStart[2]
  BY Calendar DEF Months
<1>2. MonthStart[2] <= MonthStart[Len(MonthStart)]
  BY <1>1, Calendar, MonthsInOrder
<1> QED BY <1>1, <1>2, Calendar DEF YearDays

\* A day of the year is in one month ...
LEMMA MonthOfDay ==
  ASSUME NEW d \in 0..(YearDays - 1)
  PROVE  \E m \in Months : d \in MonthStart[m]..(MonthStart[m + 1] - 1)
<1> DEFINE Later == {m \in Months : d < MonthStart[m + 1]}
<1>1. Len(MonthStart) - 1 \in Later
  BY Calendar DEF Months, YearDays
<1>2. PICK m \in Later : \A y \in Later : m <= y
  <2>1. Later \subseteq Nat
    BY Calendar DEF Months
  <2> HIDE DEF Later
  <2> QED BY <1>1, <2>1, LeastNumber
<1>3. MonthStart[m] <= d
  <2>1. CASE m = 1
    BY <2>1, Calendar, YearDaysType
  <2>2. CASE m # 1
    <3>1. m - 1 \in Months /\ (m - 1) + 1 = m /\ ~(m <= m - 1)
      BY <1>2, <2>2, Calendar DEF Months
    <3>2. m - 1 \notin Later
      <4> HIDE DEF Later
      <4> QED BY <1>2, <3>1
    <3> QED BY <3>1, <3>2, Calendar, YearDaysType DEF Months
  <2> QED BY <2>1, <2>2
<1> QED BY <1>2, <1>3, Calendar, YearDaysType DEF Months

\* ... and in no other.
LEMMA MonthUnique ==
  ASSUME NEW d \in Nat, NEW m \in Months, NEW n \in Months,
         d \in MonthStart[m]..(MonthStart[m + 1] - 1),
         d \in MonthStart[n]..(MonthStart[n + 1] - 1)
  PROVE  m = n
<1>1. /\ \A k \in {m, n} : k \in 1..Len(MonthStart) /\ k + 1 \in 1..Len(MonthStart)
      /\ m \in Nat /\ n \in Nat
  BY Calendar DEF Months
<1>2. CASE m + 1 <= n
  <2>1. MonthStart[m + 1] <= MonthStart[n]
    BY <1>1, <1>2, MonthsInOrder
  <2> QED BY <1>1, <2>1, Calendar
<1>3. CASE n + 1 <= m
  <2>1. MonthStart[n + 1] <= MonthStart[m]
    BY <1>1, <1>3, MonthsInOrder
  <2> QED BY <1>1, <2>1, Calendar
<1> QED BY <1>1, <1>2, <1>3

\* What a time consists of.
IsMoment(y, m, d, s) ==
  /\ y \in Nat /\ m \in Months
  /\ d \in 1..MonthDays(m)
  /\ s \in 0..(DaySeconds - 1)

\* A moment has the parts it was made from.
LEMMA MomentParts ==
  ASSUME NEW y, NEW m, NEW d, NEW s, IsMoment(y, m, d, s),
         NEW t, t = Moment(y, m, d, s)
  PROVE  /\ t \in Nat
         /\ FullYear(t) = y /\ Month(t) = m /\ Date(t) = d /\ Seconds(t) = s
<1> DEFINE day == MonthStart[m] + d - 1
<1>1. /\ m + 1 \in 1..Len(MonthStart) /\ m \in 1..Len(MonthStart)
      /\ MonthStart[m] \in Nat /\ MonthStart[m + 1] \in Nat
      /\ y \in Nat /\ d \in 1..(MonthStart[m + 1] - MonthStart[m])
      /\ s \in 0..(DaySeconds - 1)
  BY Calendar DEF IsMoment, Months, MonthDays
<1>2. day \in MonthStart[m]..(MonthStart[m + 1] - 1) /\ day \in Nat
  BY <1>1
<1>3. day \in 0..(YearDays - 1)
  <2>1. MonthStart[m + 1] <= YearDays
    BY <1>1, Calendar, MonthsInOrder DEF YearDays
  <2> QED BY <1>1, <1>2, <2>1, YearDaysType
<1>4. d = day - MonthStart[m] + 1
  BY <1>1
<1> HIDE DEF day
<1>5. \A days : days = y * YearDays + day =>
        days \in Nat /\ days \div YearDays = y /\ days % YearDays = day
  BY <1>1, <1>3, YearDaysType, DivModUnique, Zenon
<1>6. t = (y * YearDays + day) * DaySeconds + s
  <2>1. y * YearDays + MonthStart[m] + d - 1 = y * YearDays + day
    BY <1>1, YearDaysType DEF day
  <2> QED BY <2>1 DEF Moment
<1>7. t \in Nat /\ Day(t) = y * YearDays + day /\ Seconds(t) = s
  <2> DEFINE days == y * YearDays + day
  <2>1. days \in Nat /\ t = days * DaySeconds + s
    BY <1>5, <1>6
  <2> HIDE DEF days
  <2>2. DaySeconds \in Nat \ {0}
    BY Calendar
  <2>3. s \in 0..(DaySeconds - 1)
    BY <1>1
  <2>4. t \in Nat /\ t \div DaySeconds = days /\ t % DaySeconds = s
    BY <2>1, <2>2, <2>3, DivModUnique, Zenon
  <2> QED BY <2>4 DEF Day, Seconds, days
<1>8. FullYear(t) = y /\ YearDay(t) = day
  BY <1>5, <1>7 DEF FullYear, YearDay
<1>9. Month(t) = m
  <2>1. m \in Months
    BY DEF IsMoment
  <2>2. \A n \in Months :
          day \in MonthStart[n]..(MonthStart[n + 1] - 1) => n = m
    BY <1>2, <2>1, MonthUnique
  <2> QED BY <1>2, <1>8, <2>1, <2>2 DEF Month
<1> QED BY <1>4, <1>7, <1>8, <1>9 DEF Date

\* A time is the moment of its parts.
LEMMA PartsOfMoment ==
  ASSUME NEW t \in Nat
  PROVE  /\ IsMoment(FullYear(t), Month(t), Date(t), Seconds(t))
         /\ Moment(FullYear(t), Month(t), Date(t), Seconds(t)) = t
<1> DEFINE y == FullYear(t)
           m == Month(t)
           s == Seconds(t)
           day == YearDay(t)
<1>1. /\ t = Day(t) * DaySeconds + s /\ s \in 0..(DaySeconds - 1)
      /\ Day(t) \in Nat
  BY PartsOfDay
<1>2. Day(t) = y * YearDays + day /\ day \in 0..(YearDays - 1) /\ y \in Nat
  BY <1>1, YearDaysType, DivMod DEF FullYear, YearDay
<1>3. m \in Months /\ day \in MonthStart[m]..(MonthStart[m + 1] - 1)
  BY <1>2, MonthOfDay DEF Month
<1> HIDE DEF y, m, s, day
<1>4. Date(t) = day - MonthStart[m] + 1
  BY DEF Date, day, m
<1>5. /\ MonthStart[m] \in Nat /\ MonthStart[m + 1] \in Nat
      /\ day \in Nat /\ YearDays \in Nat
  BY <1>2, <1>3, Calendar, YearDaysType DEF Months
<1>6. Date(t) \in 1..MonthDays(m)
  BY <1>3, <1>4, <1>5 DEF MonthDays
<1>7. y * YearDays + MonthStart[m] + Date(t) - 1 = Day(t)
  BY <1>2, <1>4, <1>5
<1>8. Moment(y, m, Date(t), s) = t
  BY <1>1, <1>7 DEF Moment
<1> QED BY <1>1, <1>2, <1>3, <1>6, <1>8 DEF IsMoment, y, m, s

\* Also a date beyond its month is a time.
LEMMA MomentIsTime ==
  ASSUME NEW y \in Nat, NEW m \in Months, NEW d \in Nat \ {0}, NEW s \in Nat
  PROVE  Moment(y, m, d, s) \in Nat
<1> DEFINE day == y * YearDays + MonthStart[m] + d - 1
<1>1. day \in Nat
  <2>1. MonthStart[m] \in Nat /\ y * YearDays \in Nat
    BY Calendar, YearDaysType DEF Months
  <2> QED BY <2>1
<1>2. Moment(y, m, d, s) = day * DaySeconds + s
  BY DEF Moment
<1> HIDE DEF day
<1> QED BY <1>1, <1>2, Calendar

\* Putting the date of a row into today, field by field, gives the row's time,
\* when no field in between is out of its month.
LEMMA UpdatedAddsASecond ==
  ASSUME NEW today \in Nat, NEW shown \in Nat
  PROVE  /\ Updated(today, shown) \in Nat
         /\ ~Skips(today, shown) => Updated(today, shown) = shown + 1
<1> DEFINE Y == FullYear(shown)
           M == Month(shown)
           D == Date(shown)
           S == Seconds(shown)
           m == Month(today)
           d == Date(today)
           s == Seconds(today)
           year == SetFullYear(today, Y)
           month == SetMonth(year, M)
           date == SetDate(month, D)
<1>1. IsMoment(Y, M, D, S) /\ Moment(Y, M, D, S) = shown
  BY PartsOfMoment
<1>2. IsMoment(FullYear(today), m, d, s)
  BY PartsOfMoment
<1>3. IsMoment(Y, m, d, s) /\ year = Moment(Y, m, d, s)
  BY <1>1, <1>2 DEF IsMoment, SetFullYear
<1> HIDE DEF Y, M, D, S, m, d, s
<1>4. FullYear(year) = Y /\ Month(year) = m /\ Date(year) = d /\ Seconds(year) = s
  BY <1>3, MomentParts
<1>5. month = Moment(Y, M, d, s)
  BY <1>4 DEF SetMonth
<1> HIDE DEF year
<1>6. Updated(today, shown) \in Nat
  <2>1. Y \in Nat /\ M \in Months /\ D \in Nat \ {0} /\ S \in Nat
    BY <1>1, Calendar DEF IsMoment
  <2>2. d \in Nat \ {0} /\ s \in Nat
    BY <1>2, Calendar DEF IsMoment
  <2>3. month \in Nat
    BY <1>5, <2>1, <2>2, MomentIsTime
  <2> HIDE DEF month
  <2>4. /\ FullYear(month) \in Nat /\ Month(month) \in Months
        /\ Seconds(month) \in Nat
    <3>1. IsMoment(FullYear(month), Month(month), Date(month), Seconds(month))
      BY <2>3, PartsOfMoment
    <3> QED BY <3>1, Calendar DEF IsMoment
  <2>5. date \in Nat
    BY <2>1, <2>4, MomentIsTime DEF SetDate
  <2> HIDE DEF date
  <2>6. date - Seconds(date) \in Nat
    <3>1. /\ date = Day(date) * DaySeconds + Seconds(date)
          /\ Seconds(date) \in Nat /\ Day(date) \in Nat
      BY <2>5, Calendar, PartsOfDay
    <3>2. Day(date) * DaySeconds \in Nat
      BY <3>1, Calendar
    <3> QED BY <3>1, <3>2
  <2>7. SetSeconds(date, S) + 1 \in Nat
    BY <2>1, <2>6 DEF SetSeconds
  <2> QED BY <2>7 DEF Updated, year, month, date, Y, M, D, S
<1>7. ASSUME ~Skips(today, shown) PROVE Updated(today, shown) = shown + 1
  <2>1. IsMoment(Y, M, d, s)
    <3>1. /\ m \in Months /\ d \in 1..MonthDays(m)
          /\ s \in 0..(DaySeconds - 1)
      BY <1>2 DEF IsMoment
    <3>2. Y \in Nat /\ M \in Months
      BY <1>1 DEF IsMoment
    <3>3. MonthDays(m) \in Nat /\ MonthDays(M) \in Nat
      BY <3>1, <3>2, MonthDaysType
    <3>4. ~(d > MonthDays(M))
      BY <1>7 DEF Skips, d, M
    <3>5. d \in 1..MonthDays(M)
      BY <3>1, <3>3, <3>4
    <3> QED BY <3>1, <3>2, <3>5 DEF IsMoment
  <2>2. /\ FullYear(month) = Y /\ Month(month) = M /\ Seconds(month) = s
    BY <1>5, <2>1, MomentParts
  <2> HIDE DEF month
  <2>3. date = Moment(Y, M, D, s)
    BY <2>2 DEF SetDate
  <2>4. IsMoment(Y, M, D, s)
    BY <1>1, <2>1 DEF IsMoment
  <2>5. date \in Nat /\ Seconds(date) = s
    BY <2>3, <2>4, MomentParts
  <2> DEFINE days == (Y * YearDays + MonthStart[M] + D - 1) * DaySeconds
  <2>6. date = days + s /\ shown = days + S
    BY <1>1, <2>3 DEF Moment
  <2>7. days \in Int /\ s \in Int /\ S \in Int
    <3>1. s \in Int /\ S \in Int
      BY <1>1, <2>4, Calendar DEF IsMoment
    <3>2. /\ Y \in Nat /\ MonthStart[M] \in Nat /\ D \in Nat
          /\ YearDays \in Nat /\ DaySeconds \in Nat
      BY <1>1, Calendar, YearDaysType DEF IsMoment, Months
    <3>3. Y * YearDays + MonthStart[M] + D - 1 \in Int
      BY <3>2
    <3> QED BY <3>1, <3>2, <3>3
  <2> HIDE DEF days, date
  <2>8. SetSeconds(date, S) = shown
    BY <2>5, <2>6, <2>7 DEF SetSeconds
  <2> QED BY <2>8 DEF Updated, year, month, date, Y, M, D, S
<1> QED BY <1>6, <1>7

-----------------------------------------------------------------------------
(* What the page shows. *)

\* A clock has one place.
LEMMA AheadOf ==
  ASSUME TypeOK, ClocksDiffer, NEW i \in DOMAIN clocks
  PROVE  Ahead(clocks[i].clock) = clocks[i].ahead
<1>1. \A k \in DOMAIN clocks : clocks[k].clock = clocks[i].clock => k = i
  BY DEF ClocksDiffer
<1> QED BY <1>1 DEF Ahead

\* The elements of a sequence.
LEMMA ElementOf ==
  ASSUME NEW S, NEW s \in Seq(S), NEW i \in DOMAIN s
  PROVE  s[i] \in S /\ Len(s) \in Nat /\ DOMAIN s = 1..Len(s)
OBVIOUS

\* The rows of a list that is answered, of the table, and the clocks.
LEMMA RowTypes ==
  ASSUME TypeOK
  PROVE  /\ \A f \in fetches : \A i \in DOMAIN f.answer.rows :
              f.answer.rows[i] \in [clock : Clock, time : Nat, at : Nat]
         /\ \A i \in DOMAIN table :
              table[i] \in [clock : Clock, shown : Nat, late : Nat,
                           skipped : BOOLEAN]
         /\ \A i \in DOMAIN clocks : clocks[i] \in [clock : Clock, ahead : Int]
<1>1. ASSUME NEW f \in fetches, NEW i \in DOMAIN f.answer.rows
      PROVE  f.answer.rows[i] \in [clock : Clock, time : Nat, at : Nat]
  <2>1. f.answer.rows \in Seq([clock : Clock, time : Nat, at : Nat])
    BY DEF TypeOK, IsFetch
  <2> QED BY <2>1, ElementOf
<1> QED BY <1>1, ElementOf DEF TypeOK

\* Every row is of a clock the server has.
LEMMA ListedClocks ==
  ASSUME TypeOK, ClocksDiffer, NEW rows, NEW v \in Nat, Lists(rows, v),
         NEW S, rows \in Seq(S), NEW i \in DOMAIN rows
  PROVE  /\ v + 1 - i \in DOMAIN clocks
         /\ rows[i].clock = clocks[v + 1 - i].clock
         /\ Ahead(rows[i].clock) = clocks[v + 1 - i].ahead
         /\ Ahead(rows[i].clock) \in Int
<1>1. /\ DOMAIN rows = 1..Len(rows) /\ DOMAIN clocks = 1..Len(clocks)
      /\ Len(rows) \in Nat /\ Len(clocks) \in Nat /\ Length \in Nat
  BY FrontEndAssumption DEF TypeOK
<1>2. v + 1 - i \in DOMAIN clocks /\ rows[i].clock = clocks[v + 1 - i].clock
  BY <1>1 DEF Lists
<1>3. clocks[v + 1 - i].ahead \in Int
  BY <1>2, RowTypes
<1> QED BY <1>2, <1>3, AheadOf

\* A request that is answered stays the request it was.
LEMMA AnsweredFetch ==
  ASSUME NEW f, IsFetch(f), NEW answer, NEW g, g = [f EXCEPT !.answer = answer]
  PROVE  /\ g.task = f.task /\ g.clock = f.clock /\ g.n = f.n
         /\ g.answer = answer
         /\ g \in [task : {"get_clocks", "inspect_clock", "create_clock"},
                   clock : Clock \cup {None}, start : Nat, n : Nat,
                   answer : {answer}]
BY DEF IsFetch

\* A request that is sent.
LEMMA SentFetch ==
  ASSUME sent \in Nat, NEW task \in {"get_clocks", "inspect_clock", "create_clock"},
         NEW clock \in Clock \cup {None}, NEW start \in Nat,
         task = "create_clock" => clock \in Clock,
         NEW f, f = Fetch(task, clock, start)
  PROVE  /\ IsFetch(f) /\ f.answer.kind = "none"
         /\ f.task = task /\ f.clock = clock /\ f.n = sent + 1
<1>1. <<>> \in Seq([clock : Clock, time : Nat, at : Nat])
  OBVIOUS
<1>2. Answer \in [kind : {"none", "error", "created", "info", "list"},
                  rows : Seq([clock : Clock, time : Nat, at : Nat]),
                  version : Nat]
  BY <1>1 DEF Answer
<1>3. Answer.kind = "none"
  BY DEF Answer
<1> HIDE DEF Answer
<1> QED BY <1>2, <1>3 DEF Fetch, IsFetch

\* Requests that are answered keep their numbers, and new ones have new ones.
LEMMA StillNumbered ==
  ASSUME IInv, sent' \in Nat, sent <= sent', excuse' \in Nat,
         \A h \in fetches' : h.n = sent' \/ \E g \in fetches : h.n = g.n,
         sent' = sent => \A h \in fetches' : \E g \in fetches : h.n = g.n
  PROVE  Numbered'
<1>1. sent \in Nat /\ \A g \in fetches : g.n \in 1..sent
  BY DEF IInv, TypeOK, Numbered
<1>2. ASSUME NEW h \in fetches' PROVE h.n \in 1..sent'
  BY <1>1
<1> QED BY <1>2 DEF Numbered

\* As long as clocks and table rest and no list is added to what is under way,
\* a request with a promise has to remain, or another to come.
LEMMA PromiseRemains ==
  ASSUME IInv, UNCHANGED <<clocks, version, excuse>>,
         \A h \in fetches' : h.answer.kind = "list" => h \in fetches,
         (\E g \in fetches : Promises(g)) => \E g \in fetches' : Promises(g)'
  PROVE  NothingForgotten'
BY DEF IInv, NothingForgotten, Clears

\* Time, clocks and table rest, and no list is added to what is under way.
LEMMA QuietStep ==
  ASSUME IInv, UNCHANGED <<now, clocks, table, version>>, sent' \in Nat,
         \A f \in fetches' :
           f \in fetches \/ (IsFetch(f) /\ f.answer.kind # "list")
  PROVE  TypeOK' /\ ClocksDiffer' /\ ListsTrue' /\ RowsAccurate'
<1>1. TypeOK'
  BY DEF IInv, TypeOK
<1>2. ClocksDiffer' /\ RowsAccurate'
  BY DEF IInv, ClocksDiffer, RowsAccurate, Ahead
<1>3. ListsTrue'
  <2>1. ASSUME NEW f \in fetches', f.answer.kind = "list"
        PROVE  /\ f \in fetches
    BY <2>1
  <2>2. /\ \A c : Ahead(c)' = Ahead(c)
        /\ \A rows, v : Lists(rows, v)' = Lists(rows, v)
    BY DEF Ahead, Lists
  <2>3. Lists(table, version)' = Lists(table, version)
    BY DEF Lists
  <2> QED BY <2>1, <2>2, <2>3 DEF IInv, ListsTrue
<1> QED BY <1>1, <1>2, <1>3

LEMMA InitInvariant == Init => IInv
<1> SUFFICES ASSUME Init PROVE IInv
  OBVIOUS
<1>1. now \in Nat /\ sent = 1 /\ version = 0 /\ table = <<>> /\ excuse = 0
  BY FrontEndAssumption DEF Init
<1>2. PICK f : /\ f = [task |-> "get_clocks", clock |-> None, start |-> 0,
                       n |-> 1, answer |-> Answer]
               /\ fetches = {f}
  BY DEF Init
<1>3. IsFetch(f) /\ f.answer.kind = "none" /\ f.task = "get_clocks"
  <2>1. <<>> \in Seq([clock : Clock, time : Nat, at : Nat])
    OBVIOUS
  <2> QED BY <1>2, <2>1 DEF IsFetch, Answer
<1>4. clocks \in Seq([clock : Clock, ahead : Int]) /\ ClocksDiffer
  <2>1. CASE clocks = <<>>
    BY <2>1 DEF ClocksDiffer
  <2>2. ASSUME NEW c \in Clock, NEW start \in Start,
               clocks = <<[clock |-> c, ahead |-> start - now]>>
        PROVE  clocks \in Seq([clock : Clock, ahead : Int]) /\ ClocksDiffer
    <3> DEFINE row == [clock |-> c, ahead |-> start - now]
    <3>1. /\ row \in [clock : Clock, ahead : Int]
          /\ row.ahead = start - now /\ start \in Nat
      BY <1>1, FrontEndAssumption
    <3> HIDE DEF row
    <3>2. clocks = <<row>>
      BY <2>2 DEF row
    <3>3. clocks \in Seq([clock : Clock, ahead : Int]) /\ DOMAIN clocks = {1}
          /\ clocks[1] = row
      BY <3>1, <3>2
    <3>4. now + clocks[1].ahead >= 0
      BY <1>1, <3>1, <3>3
    <3>5. \A i \in DOMAIN clocks : i = 1
      BY <3>3
    <3>6. ClocksDiffer
      BY <3>4, <3>5 DEF ClocksDiffer
    <3> QED BY <3>3, <3>6
  <2>3. \/ clocks = <<>>
        \/ \E c \in Clock, start \in Start :
             clocks = <<[clock |-> c, ahead |-> start - now]>>
    <3> DEFINE first(c, start) == <<[clock |-> c, ahead |-> start - now]>>
    <3>1. clocks \in {<<>>} \cup {first(c, start) : c \in Clock, start \in Start}
      BY DEF Init
    <3> HIDE DEF first
    <3>2. \/ clocks = <<>>
          \/ \E c \in Clock, start \in Start : clocks = first(c, start)
      BY <3>1
    <3> QED BY <3>2, Zenon DEF first
  <2> QED BY <2>1, <2>2, <2>3, Zenon
<1>5. TypeOK
  <2>1. table \in Seq([clock : Clock, shown : Nat, late : Nat, skipped : BOOLEAN])
    BY <1>1
  <2> QED BY <1>1, <1>2, <1>3, <1>4, <2>1 DEF TypeOK
<1>6. InspectsKnown /\ InspectFresh
  BY <1>2, <1>3 DEF InspectsKnown, InspectFresh, Inspecting, Init, Placeholder
<1>7. ListsTrue
  <2>1. Lists(<<>>, 0)
    <3>1. Len(clocks) \in Nat /\ Length \in Nat
      BY <1>4, FrontEndAssumption
    <3> QED BY <3>1 DEF Lists
  <2> QED BY <1>1, <1>2, <1>3, <2>1 DEF ListsTrue
<1>8. Numbered /\ NothingForgotten /\ RowsAccurate
  BY <1>1, <1>2, <1>3 DEF Numbered, NothingForgotten, RowsAccurate, Promises, Clears
<1> QED BY <1>4, <1>5, <1>6, <1>7, <1>8 DEF IInv

LEMMA UpdateClocksStep == IInv /\ UpdateClocks => IInv'
<1> SUFFICES ASSUME IInv, UpdateClocks PROVE IInv'
  OBVIOUS
<1> DEFINE Row == [clock : Clock, shown : Nat, late : Nat, skipped : BOOLEAN]
<1>1. /\ now' = now + 1
      /\ UNCHANGED <<clocks, fetches, sent, panel, inspected, version, excuse>>
  BY DEF UpdateClocks
<1>2. now \in Nat /\ now' \in Nat /\ table \in Seq(Row)
  BY <1>1 DEF IInv, TypeOK
<1> HIDE DEF Row
<1>3. ASSUME NEW i \in DOMAIN table
      PROVE  /\ table'[i].clock = table[i].clock
             /\ table'[i].shown = Updated(now', table[i].shown)
             /\ table'[i].late = table[i].late
             /\ table'[i].skipped = FALSE =>
                  table[i].skipped = FALSE /\ ~Skips(now', table[i].shown)
             /\ table'[i] \in Row
  <2> DEFINE row == table[i]
             shown == Updated(now', row.shown)
             skips == Skips(now', row.shown)
             skipped == row.skipped \/ skips
  <2>1. table'[i] = [row EXCEPT !.shown = shown, !.skipped = skipped]
    BY DEF UpdateClocks
  <2>2. row \in Row
    BY <1>2, ElementOf
  <2>3. shown \in Nat
    BY <1>2, <2>2, UpdatedAddsASecond DEF Row
  <2>4. row.skipped \in BOOLEAN /\ skips \in BOOLEAN
    BY <2>2 DEF Skips, Row
  <2> HIDE DEF row, shown, skips
  <2>5. skipped \in BOOLEAN /\ (skipped = FALSE => row.skipped = FALSE /\ ~skips)
    BY <2>4
  <2> HIDE DEF skipped
  <2>6. /\ table'[i].clock = row.clock /\ table'[i].shown = shown
        /\ table'[i].late = row.late /\ table'[i].skipped = skipped
        /\ table'[i] \in Row
    BY <2>1, <2>2, <2>3, <2>5 DEF Row
  <2> QED BY <2>5, <2>6 DEF row, shown, skips
<1>4. /\ DOMAIN table' = DOMAIN table /\ Len(table') = Len(table)
      /\ table' \in Seq(Row)
  <2>1. DOMAIN table = 1..Len(table) /\ Len(table) \in Nat
    BY <1>2
  <2>2. DOMAIN table' = 1..Len(table)
    BY <2>1 DEF UpdateClocks
  <2>3. table' \in [1..Len(table) -> Row]
    <3>1. table' = [i \in 1..Len(table) |-> table'[i]]
      BY <2>1 DEF UpdateClocks
    <3> QED BY <1>3, <2>1, <3>1
  <2> QED BY <2>1, <2>2, <2>3
<1>5. TypeOK'
  BY <1>1, <1>2, <1>4 DEF IInv, TypeOK, Row
<1>6. ClocksDiffer'
  <2>1. \A i \in DOMAIN clocks : clocks[i].ahead \in Int /\ now + clocks[i].ahead >= 0
    BY RowTypes DEF IInv, ClocksDiffer
  <2> QED BY <1>1, <1>2, <2>1 DEF IInv, ClocksDiffer
<1>7. InspectsKnown' /\ InspectFresh' /\ Numbered' /\ NothingForgotten'
  BY <1>1 DEF IInv, InspectsKnown, InspectFresh, Numbered, NothingForgotten,
              Inspecting, Promises, Clears
<1>8. ListsTrue'
  <2>1. ASSUME NEW f \in fetches, f.answer.kind = "list"
        PROVE  /\ Lists(f.answer.rows, f.answer.version)
               /\ \A i \in DOMAIN f.answer.rows :
                    LET row == f.answer.rows[i]
                    IN row.at <= now' /\ row.time = row.at + Ahead(row.clock)
    <3>1. \A i \in DOMAIN f.answer.rows : f.answer.rows[i].at \in Nat
      BY RowTypes DEF IInv
    <3> QED BY <1>1, <1>2, <2>1, <3>1 DEF IInv, ListsTrue
  <2>2. Lists(table, version)
    BY DEF IInv, ListsTrue
  <2>3. Lists(table, version)'
    BY <1>1, <1>3, <1>4, <2>2 DEF Lists
  <2>4. /\ \A c : Ahead(c)' = Ahead(c)
        /\ \A rows, v : Lists(rows, v)' = Lists(rows, v)
    BY <1>1 DEF Ahead, Lists
  <2> QED BY <1>1, <2>1, <2>3, <2>4 DEF ListsTrue
<1>9. RowsAccurate'
  <2> SUFFICES ASSUME NEW i \in DOMAIN table, table'[i].skipped = FALSE
               PROVE  table'[i].shown =
                        now' + Ahead(table'[i].clock) - table'[i].late
    <3>1. \A c : Ahead(c)' = Ahead(c)
      BY <1>1 DEF Ahead
    <3>2. ASSUME NEW i \in DOMAIN table, ~table'[i].skipped
          PROVE  table'[i].skipped = FALSE
      <4>1. table'[i].skipped \in BOOLEAN
        BY <1>3 DEF Row
      <4> QED BY <3>2, <4>1, Zenon
    <3> QED BY <1>4, <3>1, <3>2 DEF RowsAccurate
  <2>1. /\ table[i].shown \in Nat /\ table[i].late \in Nat
        /\ Ahead(table[i].clock) \in Int
    <3>1. table[i].shown \in Nat /\ table[i].late \in Nat
      BY RowTypes DEF IInv
    <3>2. TypeOK /\ ClocksDiffer /\ Lists(table, version) /\ version \in Nat
      BY DEF IInv, ListsTrue, TypeOK
    <3> QED BY <1>2, <3>1, <3>2, ListedClocks
  <2>2. table[i].shown = now + Ahead(table[i].clock) - table[i].late
    <3>1. ~table[i].skipped
      BY <1>3
    <3> QED BY <3>1 DEF IInv, RowsAccurate
  <2>3. table'[i].shown = table[i].shown + 1
    BY <1>2, <1>3, <2>1, UpdatedAddsASecond
  <2>4. /\ table'[i].late = table[i].late
        /\ Ahead(table'[i].clock) = Ahead(table[i].clock)
    BY <1>3
  <2> QED BY <1>1, <1>2, <2>1, <2>2, <2>3, <2>4
<1> QED BY <1>5, <1>6, <1>7, <1>8, <1>9 DEF IInv

\* The user asks for something.
LEMMA CreateClockStep ==
  ASSUME IInv, NEW c \in Clock, NEW start \in Start, CreateClock(c, start)
  PROVE  IInv'
<1> DEFINE f == Fetch("create_clock", c, start)
<1>1. /\ fetches' = fetches \cup {f} /\ sent' = sent + 1
      /\ UNCHANGED <<now, clocks, panel, table, inspected, version, excuse>>
  BY DEF CreateClock
<1>2. sent \in Nat /\ start \in Nat
  BY FrontEndAssumption DEF IInv, TypeOK
<1>3. IsFetch(f) /\ f.answer.kind = "none" /\ f.task = "create_clock"
        /\ f.n = sent + 1
  BY <1>2, SentFetch
<1> HIDE DEF f
<1>4. TypeOK' /\ ClocksDiffer' /\ ListsTrue' /\ RowsAccurate'
  <2>1. sent' \in Nat /\ UNCHANGED <<now, clocks, table, version>>
    BY <1>1, <1>2
  <2>2. f.answer.kind # "list"
    BY <1>3
  <2>3. \A h \in fetches' :
          h \in fetches \/ (IsFetch(h) /\ h.answer.kind # "list")
    BY <1>1, <1>3, <2>2, Zenon
  <2> QED BY <2>1, <2>3, QuietStep
<1>5. InspectsKnown' /\ InspectFresh'
  BY <1>1, <1>3 DEF IInv, InspectsKnown, InspectFresh, Inspecting
<1>6. Numbered'
  BY <1>1, <1>2, <1>3, StillNumbered DEF IInv, Numbered
<1>7. NothingForgotten'
  BY <1>1, <1>3, PromiseRemains DEF Promises
<1> QED BY <1>4, <1>5, <1>6, <1>7 DEF IInv

LEMMA InspectClockStep ==
  ASSUME IInv, NEW c \in Clock, InspectClock(c)
  PROVE  IInv'
<1> DEFINE f == Fetch("inspect_clock", c, 0)
<1>1. /\ fetches' = fetches \cup {f} /\ sent' = sent + 1
      /\ panel' = Placeholder
      /\ inspected' = [clock |-> c, overlapping |-> {g.n : g \in Inspecting}]
      /\ UNCHANGED <<now, clocks, table, version, excuse>>
  BY DEF InspectClock, AskInspect
<1>2. sent \in Nat
  BY DEF IInv, TypeOK
<1>3. IsFetch(f) /\ f.answer.kind = "none" /\ f.task = "inspect_clock"
        /\ f.clock = c /\ f.n = sent + 1
  BY <1>2, SentFetch
<1> HIDE DEF f
<1>4. TypeOK' /\ ClocksDiffer' /\ ListsTrue' /\ RowsAccurate'
  <2>1. sent' \in Nat /\ UNCHANGED <<now, clocks, table, version>>
    BY <1>1, <1>2
  <2>2. f.answer.kind # "list"
    BY <1>3
  <2>3. \A h \in fetches' :
          h \in fetches \/ (IsFetch(h) /\ h.answer.kind # "list")
    BY <1>1, <1>3, <2>2, Zenon
  <2> QED BY <2>1, <2>3, QuietStep
<1>5. InspectsKnown'
  <2> SUFFICES ASSUME NEW g \in fetches', g.task = "inspect_clock"
               PROVE  g.clock = c \/ g.n \in {h.n : h \in Inspecting}
    BY <1>1 DEF InspectsKnown, Inspecting
  <2>1. CASE g = f
    BY <1>3, <2>1
  <2>2. CASE g \in fetches
    BY <2>2 DEF Inspecting
  <2> QED BY <1>1, <2>1, <2>2
<1>6. InspectFresh'
  BY <1>1 DEF InspectFresh, Placeholder
<1>7. Numbered'
  BY <1>1, <1>2, <1>3, StillNumbered DEF IInv, Numbered
<1>8. NothingForgotten'
  BY <1>1, <1>3, PromiseRemains DEF Promises
<1> QED BY <1>4, <1>5, <1>6, <1>7, <1>8 DEF IInv

\* An answer takes the place of its request, without a change of the page.
LEMMA AnswersStep ==
  ASSUME IInv, NEW f \in fetches, NEW answer, Answers(f, answer),
         UNCHANGED <<sent, panel, inspected, excuse>>
  PROVE  InspectsKnown' /\ InspectFresh' /\ Numbered'
<1> DEFINE g == [f EXCEPT !.answer = answer]
<1>1. IsFetch(f)
  BY DEF IInv, TypeOK
<1>2. g.task = f.task /\ g.clock = f.clock /\ g.n = f.n
  BY <1>1, AnsweredFetch
<1>3. fetches' = (fetches \ {f}) \cup {g}
  BY DEF Answers
<1> HIDE DEF g
<1>4. InspectsKnown'
  BY <1>2, <1>3 DEF IInv, InspectsKnown, Inspecting
<1>5. Numbered'
  BY <1>2, <1>3 DEF IInv, Numbered
<1> QED BY <1>4, <1>5 DEF IInv, InspectFresh

\* The server refuses a request, or says what it knows of a clock.
LEMMA PlainAnswerStep ==
  ASSUME IInv, NEW f \in fetches, f.answer.kind = "none",
         Inspect(f) \/ Refuse(f),
         UNCHANGED <<now, sent, panel, table, inspected, version, excuse>>
  PROVE  IInv'
<1>1. PICK kind \in {"info", "error"} :
        /\ Answers(f, [Answer EXCEPT !.kind = kind])
        /\ kind = "info" => f.task = "inspect_clock"
  BY DEF Inspect, Refuse
<1> DEFINE answer == [Answer EXCEPT !.kind = kind]
           g == [f EXCEPT !.answer = answer]
<1>2. UNCHANGED clocks
  BY DEF Inspect, Refuse
<1>3. IsFetch(f)
  BY DEF IInv, TypeOK
<1>4. answer.kind = kind /\ answer.rows = <<>> /\ answer.version = 0
        /\ answer = [kind |-> kind, rows |-> <<>>, version |-> 0]
  BY DEF Answer
<1>5. fetches' = (fetches \ {f}) \cup {g}
  BY <1>1 DEF Answers
<1> HIDE DEF answer
<1>6. g.task = f.task /\ g.clock = f.clock /\ g.answer = answer
  BY <1>3, AnsweredFetch
<1>7. IsFetch(g)
  <2>1. <<>> \in Seq([clock : Clock, time : Nat, at : Nat])
    OBVIOUS
  <2>2. answer \in [kind : {"none", "error", "created", "info", "list"},
                    rows : Seq([clock : Clock, time : Nat, at : Nat]),
                    version : Nat]
    BY <1>4, <2>1
  <2> QED BY <1>1, <1>3, <1>4, <1>6, <2>2, AnsweredFetch DEF IsFetch
<1> HIDE DEF g
<1>8. TypeOK' /\ ClocksDiffer' /\ ListsTrue' /\ RowsAccurate'
  <2>1. sent' \in Nat /\ UNCHANGED <<now, clocks, table, version>>
    BY <1>2 DEF IInv, TypeOK
  <2>2. \A h \in fetches' :
          h \in fetches \/ (IsFetch(h) /\ h.answer.kind # "list")
    <3>1. g.answer.kind # "list"
      BY <1>4, <1>6
    <3> QED BY <1>5, <1>7, <3>1, Zenon
  <2> QED BY <2>1, <2>2, QuietStep
<1>9. InspectsKnown' /\ InspectFresh' /\ Numbered'
  BY <1>1, AnswersStep
<1>10. NothingForgotten'
  <2>1. \A h \in fetches' : h.answer.kind = "list" => h \in fetches
    BY <1>4, <1>5, <1>6
  <2>2. ASSUME NEW h \in fetches, Promises(h)
        PROVE  \E k \in fetches' : Promises(k)'
    <3>1. CASE h = f
      BY <1>1, <1>2, <1>4, <1>5, <1>6, <2>2, <3>1 DEF Promises
    <3>2. CASE h # f
      BY <1>2, <1>5, <2>2, <3>2 DEF Promises
    <3> QED BY <3>1, <3>2
  <2> QED BY <1>2, <2>1, <2>2, PromiseRemains
<1> QED BY <1>8, <1>9, <1>10 DEF IInv

\* The server makes a clock.  Rows and lists stay true, and the answer makes
\* the page ask for the list again.
LEMMA CreateStep ==
  ASSUME IInv, NEW f \in fetches, f.answer.kind = "none", Create(f),
         UNCHANGED <<now, sent, panel, table, inspected, version, excuse>>
  PROVE  IInv'
<1> DEFINE answer == [Answer EXCEPT !.kind = "created"]
           g == [f EXCEPT !.answer = answer]
           new == [clock |-> f.clock, ahead |-> f.start - now]
           n == Len(clocks)
<1>1. /\ f.task = "create_clock" /\ Answers(f, answer)
      /\ clocks' = Append(clocks, new)
      /\ ~ \E i \in DOMAIN clocks : clocks[i].clock = f.clock
  BY DEF Create, Exists
<1>2. IsFetch(f) /\ now \in Nat
  BY DEF IInv, TypeOK
<1>3. answer = [kind |-> "created", rows |-> <<>>, version |-> 0]
  BY DEF Answer
<1>4. fetches' = (fetches \ {f}) \cup {g}
  BY <1>1 DEF Answers
<1> HIDE DEF answer
<1>5. g.task = f.task /\ g.answer = answer
  BY <1>2, AnsweredFetch
<1>6. IsFetch(g) /\ g.answer.kind = "created"
  <2>1. <<>> \in Seq([clock : Clock, time : Nat, at : Nat])
    OBVIOUS
  <2>2. answer \in [kind : {"none", "error", "created", "info", "list"},
                    rows : Seq([clock : Clock, time : Nat, at : Nat]),
                    version : Nat]
    BY <1>3, <2>1
  <2>3. answer.kind = "created"
    BY <1>3
  <2> QED BY <1>1, <1>2, <1>5, <2>2, <2>3, AnsweredFetch DEF IsFetch
<1> HIDE DEF g
<1>7. /\ new \in [clock : Clock, ahead : Int] /\ new.clock = f.clock
      /\ now + new.ahead >= 0
  <2>1. f.start \in Nat /\ f.clock \in Clock
    BY <1>1, <1>2 DEF IsFetch
  <2> QED BY <1>2, <2>1
<1> HIDE DEF new
<1>8. /\ clocks' \in Seq([clock : Clock, ahead : Int])
      /\ n \in Nat /\ DOMAIN clocks = 1..n /\ Len(clocks') = n + 1
      /\ DOMAIN clocks' = 1..(n + 1) /\ clocks'[n + 1] = new
      /\ \A i \in 1..n : clocks'[i] = clocks[i]
  <2>1. clocks \in Seq([clock : Clock, ahead : Int])
    BY DEF IInv, TypeOK
  <2> HIDE DEF IInv
  <2> QED BY <1>1, <1>7, <2>1
<1> HIDE DEF n
<1>9. TypeOK'
  BY <1>4, <1>6, <1>8, Zenon DEF IInv, TypeOK
<1>10. ClocksDiffer'
  <2>1. ASSUME NEW i \in DOMAIN clocks' PROVE now' + clocks'[i].ahead >= 0
    BY <1>7, <1>8, <2>1 DEF IInv, ClocksDiffer
  <2>2. ASSUME NEW i \in DOMAIN clocks', NEW j \in DOMAIN clocks',
               clocks'[i].clock = clocks'[j].clock
        PROVE  i = j
    BY <1>1, <1>7, <1>8, <2>2 DEF IInv, ClocksDiffer
  <2> QED BY <2>1, <2>2 DEF ClocksDiffer
<1>11. ASSUME NEW i \in DOMAIN clocks, NEW c, c = clocks[i].clock
       PROVE  Ahead(c)' = Ahead(c)
  <2>1. i \in DOMAIN clocks' /\ clocks'[i] = clocks[i]
    BY <1>8
  <2>2. Ahead(c) = clocks[i].ahead
    BY <1>11, AheadOf DEF IInv
  <2>3. \A k \in DOMAIN clocks' : clocks'[k].clock = clocks'[i].clock => k = i
    BY <1>10, <2>1 DEF ClocksDiffer
  <2>4. (CHOOSE k \in DOMAIN clocks' : clocks'[k].clock = c) = i
    BY <1>11, <2>1, <2>3
  <2> QED BY <2>1, <2>2, <2>4 DEF Ahead
<1>12. ASSUME NEW rows, NEW v \in Nat, NEW S, rows \in Seq(S), Lists(rows, v)
       PROVE  /\ Lists(rows, v)'
              /\ \A i \in DOMAIN rows :
                   Ahead(rows[i].clock)' = Ahead(rows[i].clock)
  <2>1. \A i \in DOMAIN rows : /\ v + 1 - i \in DOMAIN clocks
                               /\ rows[i].clock = clocks[v + 1 - i].clock
    <3>1. TypeOK /\ ClocksDiffer
      BY DEF IInv
    <3> SUFFICES ASSUME NEW i \in DOMAIN rows
                 PROVE  /\ v + 1 - i \in DOMAIN clocks
                        /\ rows[i].clock = clocks[v + 1 - i].clock
      OBVIOUS
    <3>2. Lists(rows, v) /\ rows \in Seq(S)
      BY <1>12
    <3> QED BY <3>1, <3>2, ListedClocks, Zenon
  <2>2. \A i \in DOMAIN rows : Ahead(rows[i].clock)' = Ahead(rows[i].clock)
    BY <1>11, <2>1
  <2>3. Lists(rows, v)'
    BY <1>8, <1>12, <2>1 DEF Lists, n
  <2> QED BY <2>2, <2>3
<1>13. ListsTrue'
  <2>1. ASSUME NEW h \in fetches', h.answer.kind = "list"
        PROVE  /\ Lists(h.answer.rows, h.answer.version)'
               /\ \A i \in DOMAIN h.answer.rows :
                    LET row == h.answer.rows[i]
                    IN row.at <= now' /\ row.time = row.at + Ahead(row.clock)'
    <3>1. h \in fetches
      BY <1>4, <1>6, <2>1
    <3>2. /\ h.answer.rows \in Seq([clock : Clock, time : Nat, at : Nat])
          /\ h.answer.version \in Nat
      BY <3>1 DEF IInv, TypeOK, IsFetch
    <3>3. /\ Lists(h.answer.rows, h.answer.version)
          /\ \A i \in DOMAIN h.answer.rows :
               LET row == h.answer.rows[i]
               IN row.at <= now /\ row.time = row.at + Ahead(row.clock)
      BY <2>1, <3>1 DEF IInv, ListsTrue
    <3>4. /\ Lists(h.answer.rows, h.answer.version)'
          /\ \A i \in DOMAIN h.answer.rows :
               Ahead(h.answer.rows[i].clock)' = Ahead(h.answer.rows[i].clock)
      BY <1>12, <3>2, <3>3
    <3> QED BY <3>3, <3>4
  <2>2. Lists(table, version)'
    <3>1. /\ table \in Seq([clock : Clock, shown : Nat, late : Nat,
                           skipped : BOOLEAN])
          /\ version \in Nat /\ Lists(table, version)
      BY DEF IInv, TypeOK, ListsTrue
    <3>2. \A rows, v : rows = table /\ v = version => Lists(rows, v)'
      BY <1>12, <3>1
    <3> QED BY <3>2 DEF Lists
  <2> QED BY <2>1, <2>2 DEF ListsTrue
<1>14. RowsAccurate'
  <2>1. /\ table \in Seq([clock : Clock, shown : Nat, late : Nat,
                         skipped : BOOLEAN])
        /\ version \in Nat /\ Lists(table, version)
    BY DEF IInv, TypeOK, ListsTrue
  <2>2. \A rows : rows = table =>
          \A i \in DOMAIN rows :
            Ahead(rows[i].clock)' = Ahead(rows[i].clock)
    BY <1>12, <2>1
  <2>3. \A i \in DOMAIN table : Ahead(table[i].clock)' = Ahead(table[i].clock)
    BY <2>2 DEF Ahead
  <2> QED BY <2>3 DEF IInv, RowsAccurate
<1>15. InspectsKnown' /\ InspectFresh' /\ Numbered'
  BY <1>1, AnswersStep
<1>16. NothingForgotten'
  BY <1>4, <1>6 DEF NothingForgotten, Promises
<1> QED BY <1>9, <1>10, <1>13, <1>14, <1>15, <1>16 DEF IInv

\* The clocks of a list are the newest there are.
LEMMA RecentClocks ==
  ASSUME TypeOK
  PROVE  /\ Len(clocks) \in Nat /\ Length \in Nat
         /\ DOMAIN Recent = 1..(IF Len(clocks) < Length THEN Len(clocks)
                                                        ELSE Length)
         /\ \A i \in DOMAIN Recent :
              /\ Len(clocks) + 1 - i \in DOMAIN clocks
              /\ Recent[i] = clocks[Len(clocks) + 1 - i]
<1>1. clocks \in Seq([clock : Clock, ahead : Int]) /\ Length \in Nat
  BY FrontEndAssumption DEF TypeOK
<1>2. Len(clocks) \in Nat /\ DOMAIN clocks = 1..Len(clocks)
  BY <1>1
<1> QED BY <1>1, <1>2 DEF Recent

\* The server lists its newest clocks.
LEMMA ListStep ==
  ASSUME IInv, NEW f \in fetches, f.answer.kind = "none", List(f),
         UNCHANGED <<now, sent, panel, table, inspected, version, excuse>>
  PROVE  IInv'
<1> DEFINE row(i) == [clock |-> Recent[i].clock,
                      time |-> now + Recent[i].ahead, at |-> now]
           rows == [i \in DOMAIN Recent |-> row(i)]
           answer == [kind |-> "list", version |-> Len(clocks), rows |-> rows]
           g == [f EXCEPT !.answer = answer]
           Row == [clock : Clock, time : Nat, at : Nat]
<1>1. /\ f.task = "get_clocks" /\ Answers(f, answer)
      /\ UNCHANGED clocks
  BY DEF List
<1>2. IsFetch(f) /\ now \in Nat /\ TypeOK /\ ClocksDiffer
  BY DEF IInv, TypeOK
<1>3. fetches' = (fetches \ {f}) \cup {g}
  BY <1>1 DEF Answers
<1>4. ASSUME NEW i \in DOMAIN Recent
      PROVE  /\ row(i) \in Row /\ row(i).at = now
             /\ row(i).clock = clocks[Len(clocks) + 1 - i].clock
             /\ row(i).time = row(i).at + Ahead(row(i).clock)
  <2> DEFINE c == clocks[Len(clocks) + 1 - i]
  <2>1. Len(clocks) + 1 - i \in DOMAIN clocks /\ Recent[i] = c
    BY <1>2, RecentClocks
  <2>2. c \in [clock : Clock, ahead : Int]
    BY <1>2, <2>1, RowTypes
  <2>3. now + c.ahead >= 0
    BY <2>1 DEF IInv, ClocksDiffer
  <2>4. Ahead(c.clock) = c.ahead
    BY <1>2, <2>1, AheadOf
  <2> HIDE DEF c
  <2>5. row(i) = [clock |-> c.clock, time |-> now + c.ahead, at |-> now]
    BY <2>1
  <2> HIDE DEF row
  <2>6. /\ row(i).clock = c.clock /\ row(i).time = now + c.ahead
        /\ row(i).at = now
    BY <2>5
  <2>7. row(i) \in Row
    BY <1>2, <2>2, <2>3, <2>5
  <2> QED BY <2>4, <2>6, <2>7 DEF c
<1> HIDE DEF row, Row
<1>5. /\ rows \in Seq(Row) /\ DOMAIN rows = DOMAIN Recent
      /\ Len(rows) = IF Len(clocks) < Length THEN Len(clocks) ELSE Length
      /\ \A i \in DOMAIN rows : rows[i] = row(i)
  <2>1. PICK n \in Nat : DOMAIN Recent = 1..n /\
          n = IF Len(clocks) < Length THEN Len(clocks) ELSE Length
    BY <1>2, RecentClocks
  <2>2. rows \in [1..n -> Row]
    BY <1>4, <2>1
  <2> QED BY <2>1, <2>2
<1> HIDE DEF rows
<1>6. /\ answer.kind = "list" /\ answer.version = Len(clocks)
      /\ answer.rows = rows
      /\ answer \in [kind : {"none", "error", "created", "info", "list"},
                     rows : Seq(Row), version : Nat]
  BY <1>2, <1>5, RecentClocks
<1> HIDE DEF answer
<1>7. g.task = f.task /\ g.answer = answer
  BY <1>2, AnsweredFetch
<1>8. IsFetch(g)
  BY <1>1, <1>2, <1>6, <1>7, AnsweredFetch DEF IsFetch, Row
<1> HIDE DEF g
<1>9. TypeOK'
  BY <1>1, <1>3, <1>8, Zenon DEF IInv, TypeOK
<1>10. ClocksDiffer' /\ RowsAccurate'
  BY <1>1 DEF IInv, ClocksDiffer, RowsAccurate, Ahead
<1>11. Lists(rows, Len(clocks))
  BY <1>2, <1>4, <1>5, RecentClocks DEF Lists
<1>12. ListsTrue'
  <2>1. ASSUME NEW i \in DOMAIN rows
        PROVE  /\ rows[i].at <= now
               /\ rows[i].time = rows[i].at + Ahead(rows[i].clock)
    BY <1>2, <1>4, <1>5
  <2>2. ASSUME NEW h \in fetches', h.answer.kind = "list"
        PROVE  /\ Lists(h.answer.rows, h.answer.version)
               /\ \A i \in DOMAIN h.answer.rows :
                    LET r == h.answer.rows[i]
                    IN r.at <= now /\ r.time = r.at + Ahead(r.clock)
    <3>1. CASE h = g
      BY <1>6, <1>7, <1>11, <2>1, <3>1
    <3>2. CASE h \in fetches
      BY <2>2, <3>2 DEF IInv, ListsTrue
    <3> QED BY <1>3, <3>1, <3>2
  <2>3. /\ \A c : Ahead(c)' = Ahead(c)
        /\ \A r, v : Lists(r, v)' = Lists(r, v)
        /\ Lists(table, version)' = Lists(table, version)
    BY <1>1 DEF Ahead, Lists
  <2>4. Lists(table, version)
    BY DEF IInv, ListsTrue
  <2> QED BY <2>2, <2>3, <2>4 DEF ListsTrue
<1>13. InspectsKnown' /\ InspectFresh' /\ Numbered'
  BY <1>1, AnswersStep
<1>14. NothingForgotten'
  BY <1>1, <1>3, <1>6, <1>7 DEF NothingForgotten, Promises
<1> QED BY <1>9, <1>10, <1>12, <1>13, <1>14 DEF IInv

LEMMA ServeStep ==
  ASSUME IInv, NEW f \in fetches, Serve(f)
  PROVE  IInv'
BY CreateStep, ListStep, PlainAnswerStep DEF Serve

\* A list replaces the table.  It is complete if the one in the table was not,
\* unless it is older.
LEMMA HandleResponseGetClocksStep ==
  ASSUME IInv, NEW f \in fetches, HandleResponseGetClocks(f)
  PROVE  IInv'
<1> DEFINE rows == f.answer.rows
           Row == [clock : Clock, shown : Nat, late : Nat, skipped : BOOLEAN]
<1>1. /\ f.answer.kind = "list" /\ fetches' = fetches \ {f}
      /\ table' = [i \in DOMAIN rows |->
                     [clock |-> rows[i].clock, shown |-> rows[i].time,
                      late |-> now - rows[i].at, skipped |-> FALSE]]
      /\ version' = f.answer.version
      /\ excuse' = IF version' < version THEN sent
                   ELSE IF f.n > excuse THEN 0 ELSE excuse
      /\ UNCHANGED <<now, clocks, sent, panel, inspected>>
  BY DEF HandleResponseGetClocks
<1>2. /\ TypeOK /\ ClocksDiffer /\ IsFetch(f) /\ now \in Nat /\ version \in Nat
      /\ Len(clocks) \in Nat
  BY DEF IInv, TypeOK
<1>3. rows \in Seq([clock : Clock, time : Nat, at : Nat])
        /\ f.answer.version \in Nat
  BY <1>2 DEF IsFetch
<1>4. /\ Lists(rows, f.answer.version)
      /\ \A i \in DOMAIN rows :
           rows[i].at <= now /\ rows[i].time = rows[i].at + Ahead(rows[i].clock)
  BY <1>1 DEF IInv, ListsTrue
<1> HIDE DEF rows
<1>5. ASSUME NEW i \in DOMAIN rows
      PROVE  /\ table'[i].clock = rows[i].clock
             /\ table'[i].shown = rows[i].time
             /\ table'[i].late = now - rows[i].at
             /\ table'[i] \in Row
  <2>1. rows[i] \in [clock : Clock, time : Nat, at : Nat]
    BY <1>3, ElementOf
  <2>2. now - rows[i].at \in Nat
    BY <1>2, <1>4, <2>1
  <2> QED BY <1>1, <2>1, <2>2
<1> HIDE DEF Row
<1>6. /\ DOMAIN table' = DOMAIN rows /\ Len(table') = Len(rows)
      /\ table' \in Seq(Row)
  <2>1. PICK n \in Nat : DOMAIN rows = 1..n /\ Len(rows) = n
    BY <1>3
  <2>2. DOMAIN table' = 1..n
    BY <1>1, <2>1
  <2>3. table' \in [1..n -> Row]
    <3>1. table' = [i \in 1..n |-> table'[i]]
      BY <1>1, <2>1
    <3> QED BY <1>5, <2>1, <3>1
  <2> QED BY <2>1, <2>2, <2>3
<1>7. TypeOK'
  BY <1>1, <1>3, <1>6, Zenon DEF IInv, TypeOK, Row
<1>8. ClocksDiffer'
  BY <1>1 DEF IInv, ClocksDiffer
<1>9. InspectsKnown' /\ InspectFresh'
  BY <1>1 DEF IInv, InspectsKnown, InspectFresh, Inspecting
<1>10. \A c : Ahead(c)' = Ahead(c)
  BY <1>1 DEF Ahead
<1>11. ListsTrue'
  <2>1. \A h \in fetches' : h.answer.kind = "list" =>
          /\ Lists(h.answer.rows, h.answer.version)
          /\ \A i \in DOMAIN h.answer.rows :
               LET r == h.answer.rows[i]
               IN r.at <= now /\ r.time = r.at + Ahead(r.clock)
    BY <1>1 DEF IInv, ListsTrue
  <2>2. \A r, v : Lists(r, v)' = Lists(r, v)
    BY <1>1 DEF Lists
  <2>3. Lists(table, version)'
    BY <1>1, <1>4, <1>5, <1>6 DEF Lists
  <2> QED BY <1>1, <1>10, <2>1, <2>2, <2>3 DEF ListsTrue
<1>12. RowsAccurate'
  <2> SUFFICES ASSUME NEW i \in DOMAIN rows
               PROVE  table'[i].shown =
                        now + Ahead(table'[i].clock) - table'[i].late
    BY <1>1, <1>6, <1>10 DEF RowsAccurate
  <2>1. rows[i].at \in Nat /\ Ahead(rows[i].clock) \in Int
    <3>1. rows[i].at \in Nat
      <4>1. rows[i] \in [clock : Clock, time : Nat, at : Nat]
        BY <1>3, ElementOf
      <4> QED BY <4>1
    <3> QED BY <1>2, <1>3, <1>4, <3>1, ListedClocks
  <2>2. Ahead(table'[i].clock) = Ahead(rows[i].clock)
    BY <1>5
  <2>3. rows[i].time = rows[i].at + Ahead(rows[i].clock)
    BY <1>4
  <2> QED BY <1>2, <1>5, <2>1, <2>2, <2>3
<1>13. /\ excuse \in Nat /\ sent \in Nat
       /\ \A h \in fetches : h.n \in 1..sent
  BY DEF IInv, TypeOK, Numbered
<1>14. Numbered'
  BY <1>1, <1>13 DEF Numbered
<1>15. \A h \in fetches \ {f} : Promises(h) => h \in fetches' /\ Promises(h)'
  BY <1>1 DEF Promises
<1>16. ASSUME version' < version PROVE NothingForgotten'
  \* An older list: it clears nothing, nor does any that is under way.
  <2>1. excuse' = sent
    BY <1>1, <1>16
  <2>2. f \in fetches /\ sent # 0
    BY <1>13
  <2>3. \A h \in fetches' : ~(h.n > sent)
    BY <1>1, <1>13
  <2> QED BY <2>1, <2>2, <2>3 DEF NothingForgotten, Clears
<1>17. ASSUME version <= version', f.n > excuse
       PROVE  NothingForgotten'
  \* What the list misses was promised before, and still is.
  <2>1. ASSUME version' < Len(clocks)
        PROVE  \E h \in fetches' : Promises(h)'
    <3>1. PICK h \in fetches : Promises(h)
      BY <1>1, <1>17, <2>1 DEF IInv, NothingForgotten, Clears
    <3>2. h # f
      BY <1>1, <1>2, <1>3, <2>1, <3>1 DEF Promises
    <3> QED BY <1>15, <3>1, <3>2
  <2>2. ASSUME NEW h \in fetches', h.answer.kind = "list",
               version' <= h.answer.version, h.answer.version < Len(clocks)
        PROVE  version' < Len(clocks)
    <3>1. h.answer.version \in Nat
      BY <1>1, <2>2 DEF IInv, TypeOK, IsFetch
    <3> QED BY <1>1, <1>2, <1>3, <2>2, <3>1
  <2> QED BY <1>1, <2>1, <2>2 DEF NothingForgotten, Clears
<1>18. ASSUME version <= version', ~(f.n > excuse)
       PROVE  NothingForgotten'
  \* A list from before the excuse: those asked for later are as good as ever.
  <2>1. excuse' = excuse /\ excuse # 0
    BY <1>1, <1>2, <1>3, <1>13, <1>18
  <2>2. ASSUME NEW h \in fetches', h.answer.kind = "list", h.n > excuse,
               version' <= h.answer.version, h.answer.version < Len(clocks)
        PROVE  \E k \in fetches' : Promises(k)'
    <3>1. h \in fetches /\ h.answer.version \in Nat
      BY <1>1, <2>2 DEF IInv, TypeOK, IsFetch
    <3>2. version <= h.answer.version
      BY <1>1, <1>2, <1>3, <1>18, <2>2, <3>1
    <3>3. PICK k \in fetches : Promises(k)
      BY <2>2, <3>1, <3>2 DEF IInv, NothingForgotten, Clears
    <3>4. k # f
      BY <1>1, <1>2, <1>3, <2>2, <3>1, <3>3 DEF Promises
    <3> QED BY <1>15, <3>3, <3>4
  <2> QED BY <1>1, <2>1, <2>2 DEF NothingForgotten, Clears
<1>19. NothingForgotten'
  BY <1>1, <1>2, <1>3, <1>16, <1>17, <1>18
<1> QED BY <1>7, <1>8, <1>9, <1>11, <1>12, <1>14, <1>19 DEF IInv

\* What is known of a clock is shown, whichever answer comes.
LEMMA HandleResponseInspectClockStep ==
  ASSUME IInv, NEW f \in fetches, HandleResponseInspectClock(f)
  PROVE  IInv'
<1>1. /\ f.answer.kind = "info" /\ fetches' = fetches \ {f}
      /\ panel' = [clock |-> f.clock, n |-> f.n]
      /\ UNCHANGED <<now, clocks, sent, table, inspected, version, excuse>>
  BY DEF HandleResponseInspectClock
<1>2. f.task = "inspect_clock"
  BY <1>1 DEF IInv, TypeOK, IsFetch
<1>3. TypeOK' /\ ClocksDiffer' /\ ListsTrue' /\ RowsAccurate'
  <2>1. sent' \in Nat
    BY <1>1 DEF IInv, TypeOK
  <2> QED BY <1>1, <2>1, QuietStep
<1>4. InspectsKnown' /\ InspectFresh'
  BY <1>1, <1>2 DEF IInv, InspectsKnown, InspectFresh, Inspecting
<1>5. Numbered'
  BY <1>1 DEF IInv, Numbered
<1>6. NothingForgotten'
  BY <1>1, <1>2, PromiseRemains DEF Promises
<1> QED BY <1>3, <1>4, <1>5, <1>6 DEF IInv

\* The page asks for the list when it knows of its new clock.
LEMMA HandleResponseCreateClockStep ==
  ASSUME IInv, NEW f \in fetches, HandleResponseCreateClock(f)
  PROVE  IInv'
<1> DEFINE g == Fetch("get_clocks", None, 0)
<1>1. /\ f.answer.kind = "created" /\ fetches' = (fetches \ {f}) \cup {g}
      /\ sent' = sent + 1
      /\ UNCHANGED <<now, clocks, panel, table, inspected, version, excuse>>
  BY DEF HandleResponseCreateClock, Created
<1>2. sent \in Nat
  BY DEF IInv, TypeOK
<1>3. IsFetch(g) /\ g.answer.kind = "none" /\ g.task = "get_clocks"
        /\ g.n = sent + 1
  BY <1>2, SentFetch
<1> HIDE DEF g
<1>4. TypeOK' /\ ClocksDiffer' /\ ListsTrue' /\ RowsAccurate'
  <2>1. sent' \in Nat /\ UNCHANGED <<now, clocks, table, version>>
    BY <1>1, <1>2
  <2>2. g.answer.kind # "list"
    BY <1>3
  <2>3. \A h \in fetches' :
          h \in fetches \/ (IsFetch(h) /\ h.answer.kind # "list")
    BY <1>1, <1>3, <2>2, Zenon
  <2> QED BY <2>1, <2>3, QuietStep
<1>5. InspectsKnown' /\ InspectFresh'
  BY <1>1, <1>3 DEF IInv, InspectsKnown, InspectFresh, Inspecting
<1>6. Numbered'
  BY <1>1, <1>2, <1>3, StillNumbered DEF IInv, Numbered
<1>7. NothingForgotten'
  BY <1>1, <1>3, PromiseRemains DEF Promises
<1> QED BY <1>4, <1>5, <1>6, <1>7 DEF IInv

\* What fails is an excuse, unless it was a refusal of something else than the
\* list, which changed nothing.
LEMMA HandleErrorStep ==
  ASSUME IInv, NEW f \in fetches, HandleError(f)
  PROVE  IInv'
<1>1. /\ fetches' = fetches \ {f}
      /\ excuse' = IF f.answer.kind = "error" /\ f.task # "get_clocks" THEN excuse
                   ELSE sent
      /\ UNCHANGED <<now, clocks, sent, panel, table, inspected, version>>
  BY DEF HandleError
<1>2. TypeOK' /\ ClocksDiffer' /\ ListsTrue' /\ RowsAccurate'
  <2>1. sent' \in Nat
    BY <1>1 DEF IInv, TypeOK
  <2> QED BY <1>1, <2>1, QuietStep
<1>3. InspectsKnown' /\ InspectFresh'
  BY <1>1 DEF IInv, InspectsKnown, InspectFresh, Inspecting
<1>4. /\ excuse \in Nat /\ sent \in Nat
      /\ \A h \in fetches : h.n \in 1..sent
  BY DEF IInv, TypeOK, Numbered
<1>5. Numbered'
  BY <1>1, <1>4 DEF Numbered
<1>6. ASSUME f.answer.kind = "error", f.task # "get_clocks"
      PROVE  NothingForgotten'
  <2>1. ~Promises(f)
    BY <1>6 DEF Promises
  <2>2. \A h \in fetches : Promises(h) => h \in fetches' /\ Promises(h)'
    BY <1>1, <2>1 DEF Promises
  <2> QED BY <1>1, <1>6, <2>2, PromiseRemains
<1>7. ASSUME ~(f.answer.kind = "error" /\ f.task # "get_clocks")
      PROVE  NothingForgotten'
  <2>1. excuse' = sent /\ excuse' # 0 /\ \A h \in fetches' : ~(h.n > excuse')
    BY <1>1, <1>4, <1>7
  <2> QED BY <2>1 DEF NothingForgotten, Clears
<1> QED BY <1>2, <1>3, <1>5, <1>6, <1>7 DEF IInv

LEMMA Stutter == IInv /\ UNCHANGED vars => IInv'
<1> SUFFICES ASSUME IInv, UNCHANGED vars PROVE IInv'
  OBVIOUS
<1>1. UNCHANGED <<now, clocks, fetches, sent, panel, table, inspected, version,
                  excuse>>
  BY DEF vars
<1>2. TypeOK' /\ ClocksDiffer' /\ ListsTrue' /\ RowsAccurate'
  <2>1. sent' \in Nat
    BY <1>1 DEF IInv, TypeOK
  <2> QED BY <1>1, <2>1, QuietStep
<1>3. InspectsKnown' /\ InspectFresh' /\ Numbered' /\ NothingForgotten'
  BY <1>1 DEF IInv, InspectsKnown, InspectFresh, Inspecting, Numbered,
              NothingForgotten, Promises, Clears
<1> QED BY <1>2, <1>3 DEF IInv

-----------------------------------------------------------------------------
(* The theorems. *)

\* IInv holds in every reachable state.
THEOREM Invariant == Spec => []IInv
<1>1. IInv /\ [Next]_vars => IInv'
  BY UpdateClocksStep, CreateClockStep, InspectClockStep, ServeStep,
     HandleResponseGetClocksStep, HandleResponseInspectClockStep,
     HandleResponseCreateClockStep, HandleErrorStep, Stutter
     DEF Next, HandleResponse
<1> QED BY InitInvariant, <1>1, PTL DEF Spec

\* The state has its types, for every choice of the constants.
THEOREM TypeCorrect == Spec => []TypeOK
<1>1. IInv => TypeOK
  BY DEF IInv
<1> QED BY Invariant, <1>1, PTL

\* The panel of main.js is never about a clock that was given up, unless the
\* request for it overlapped with the last one.
THEOREM InspectFreshHolds == Spec => []InspectFresh
<1>1. IInv => InspectFresh
  BY DEF IInv
<1> QED BY Invariant, <1>1, PTL

\* A page of main.js that waits for nothing lists the newest clocks, unless a
\* request failed or an older list came last, and no list asked for later has
\* come since.
THEOREM ListCatchesUpHolds == Spec => []ListCatchesUp
<1>1. IInv => ListCatchesUp
  <2> SUFFICES ASSUME IInv, fetches = {}, excuse = 0
               PROVE  [i \in DOMAIN table |-> table[i].clock] =
                        [i \in DOMAIN Recent |-> Recent[i].clock]
    BY DEF ListCatchesUp
  <2>1. TypeOK /\ Lists(table, version) /\ version \in Nat
    BY DEF IInv, ListsTrue, TypeOK
  <2>2. version = Len(clocks)
    <3>1. ~(version < Len(clocks))
      BY DEF IInv, NothingForgotten
    <3> QED BY <2>1, <3>1, RecentClocks DEF Lists
  <2>3. DOMAIN table = DOMAIN Recent
    <3>1. DOMAIN table = 1..Len(table)
      BY <2>1 DEF TypeOK
    <3> QED BY <2>1, <2>2, <3>1, RecentClocks DEF Lists
  <2>4. \A i \in DOMAIN table : table[i].clock = Recent[i].clock
    BY <2>1, <2>2, <2>3, RecentClocks DEF Lists
  <2> HIDE DEF IInv
  <2> QED BY <2>3, <2>4
<1> QED BY Invariant, <1>1, PTL

\* updateClocks keeps every row at its clock's time, in every calendar, however
\* long the page is open, if the user's day of the month always exists in the
\* row's month.
THEOREM RowsAccurateHolds == Spec => []RowsAccurate
<1>1. IInv => RowsAccurate
  BY DEF IInv
<1> QED BY Invariant, <1>1, PTL
=============================================================================
