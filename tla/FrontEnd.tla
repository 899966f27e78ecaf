------------------------------ MODULE FrontEnd ------------------------------
(***************************************************************************)
(* The page of the web interface (static/main.js).  Every click sends a    *)
(* request with fetch, and whatever answer comes is shown: requests are on *)
(* connections of their own, so that answers may overtake each other, and  *)
(* nothing in the page says which answer it waits for.  Once a second the  *)
(* page adds a second to the times in its list of recent clocks, as text.  *)
(*                                                                         *)
(* Times are seconds since the epoch.  The calendar is any with the same   *)
(* months every year, that is without leap years: a date that does not     *)
(* exist in another year becomes the first of a month, which every month   *)
(* has.  The server is what the page can see of it while no clock expires  *)
(* and no two share a slot of its cache (see ClockStore); nobody else      *)
(* creates clocks.                                                         *)
(***************************************************************************)
EXTENDS Integers, Sequences

CONSTANTS Clock,      \* what users create and inspect
          Start,      \* the times users ask for
          Today,      \* when the page is opened
          MonthStart, \* the days of the year before each month, and of it all
          DaySeconds, \* 24 * 60 * 60
          Length,     \* 10, how many clocks are asked for
          MaxFetches, \* bound on the requests after which users do no more
          MaxTime,    \* bound on the time
          None

ASSUME FrontEndAssumption ==
  /\ Start \subseteq Nat /\ Today \subseteq Nat
  /\ MonthStart \in Seq(Nat) /\ Len(MonthStart) > 1 /\ MonthStart[1] = 0
  /\ \A m \in 1..(Len(MonthStart) - 1) : MonthStart[m] < MonthStart[m + 1]
  /\ DaySeconds \in Nat \ {0}
  /\ Length \in Nat
  /\ None \notin Clock

VARIABLES now,       \* the time
          clocks,    \* what the server has: clocks, and how far ahead they are
          fetches,   \* requests not answered yet, as far as the page knows
          sent,      \* how many requests were sent
          panel,     \* the inspected clock, or the placeholder
          table,     \* the rows of the list of recent clocks
          inspected, \* history: the clock last asked for, and the requests for
                     \* others that were unanswered then
          version,   \* history: how many clocks there were for the table
          excuse     \* history: how many requests were sent when last one
                     \* failed or an old list came; 0 if all is well again

vars == <<now, clocks, fetches, sent, panel, table, inspected, version, excuse>>

Placeholder == [clock |-> None, n |-> 0]

\* Answers: "none" yet, "error", "created", "info" or "list" with its rows.
Answer == [kind |-> "none", rows |-> <<>>, version |-> 0]

Fetch(task, clock, start) ==
  [task |-> task, clock |-> clock, start |-> start, n |-> sent + 1,
   answer |-> Answer]

\* window.onload; the server may have a clock already.
Init == /\ now \in Today
        /\ clocks \in {<<>>} \cup {<<[clock |-> c, ahead |-> start - now]>> :
                                    c \in Clock, start \in Start}
        /\ sent = 1
        /\ fetches = {[task |-> "get_clocks", clock |-> None, start |-> 0,
                       n |-> 1, answer |-> Answer]}
        /\ panel = Placeholder
        /\ table = <<>>
        /\ inspected = [clock |-> None, overlapping |-> {}]
        /\ version = 0
        /\ excuse = 0

-----------------------------------------------------------------------------
(* Dates, as the methods of the same names. *)

Months == 1..(Len(MonthStart) - 1)

MonthDays(month) == MonthStart[month + 1] - MonthStart[month]

YearDays == MonthStart[Len(MonthStart)]

Day(t) == t \div DaySeconds

FullYear(t) == Day(t) \div YearDays

YearDay(t) == Day(t) % YearDays

Month(t) == CHOOSE m \in Months :
              YearDay(t) \in MonthStart[m]..(MonthStart[m + 1] - 1)

Date(t) == YearDay(t) - MonthStart[Month(t)] + 1

Seconds(t) == t % DaySeconds

\* A date beyond the end of its month is one in the next.
Moment(year, month, date, seconds) ==
  (year * YearDays + MonthStart[month] + date - 1) * DaySeconds + seconds

SetFullYear(t, year) == Moment(year, Month(t), Date(t), Seconds(t))

SetMonth(t, month) == Moment(FullYear(t), month, Date(t), Seconds(t))

SetDate(t, date) == Moment(FullYear(t), Month(t), date, Seconds(t))

SetSeconds(t, seconds) == t - Seconds(t) + seconds

\* Mutant: the date is set before the month.
UpdatedDateFirst(today, shown) ==
  LET year == SetFullYear(today, FullYear(shown))
      date == SetDate(year, Date(shown))
  IN SetSeconds(SetMonth(date, Month(shown)), Seconds(shown)) + 1

\* The time updateClocks puts into a row, starting from the time it is.
Updated(today, shown) ==
  LET year == SetFullYear(today, FullYear(shown))
      month == SetMonth(year, Month(shown))
  IN SetSeconds(SetDate(month, Date(shown)), Seconds(shown)) + 1

\* The date of today does not exist in the month of the row.
Skips(today, shown) == Date(today) > MonthDays(Month(shown))

\* updateClocks, once a second.
UpdateClocks ==
  /\ now < MaxTime
  /\ now' = now + 1
  /\ table' = [i \in DOMAIN table |->
       [table[i] EXCEPT !.shown = Updated(now', @),
                        !.skipped = @ \/ Skips(now', table[i].shown)]]
  /\ UNCHANGED <<clocks, fetches, sent, panel, inspected, version, excuse>>

-----------------------------------------------------------------------------
(* The user. *)

CreateClock(c, start) ==
  /\ sent < MaxFetches
  /\ sent' = sent + 1
  /\ fetches' = fetches \cup {Fetch("create_clock", c, start)}
  /\ UNCHANGED <<now, clocks, panel, table, inspected, version, excuse>>

Inspecting == {f \in fetches : f.task = "inspect_clock"}

AskInspect(c) ==
  /\ sent < MaxFetches
  /\ sent' = sent + 1
  /\ fetches' = fetches \cup {Fetch("inspect_clock", c, 0)}
  /\ inspected' = [clock |-> c, overlapping |-> {f.n : f \in Inspecting}]
  /\ UNCHANGED <<now, clocks, table, version, excuse>>

\* Mutant: what was shown stays until the answer comes.
InspectClockKept(c) == AskInspect(c) /\ UNCHANGED panel

InspectClock(c) == AskInspect(c) /\ panel' = Placeholder

-----------------------------------------------------------------------------
(* The server, as the page sees it. *)

Ahead(c) == LET i == CHOOSE i \in DOMAIN clocks : clocks[i].clock = c
            IN clocks[i].ahead

Exists(c) == \E i \in DOMAIN clocks : clocks[i].clock = c

\* The newest clocks, in that order; all are created visible.
Recent == [i \in 1..(IF Len(clocks) < Length THEN Len(clocks) ELSE Length) |->
             clocks[Len(clocks) + 1 - i]]

Answers(f, answer) ==
  fetches' = (fetches \ {f}) \cup {[f EXCEPT !.answer = answer]}

Create(f) ==
  /\ f.task = "create_clock" /\ ~Exists(f.clock)
  /\ clocks' = Append(clocks, [clock |-> f.clock, ahead |-> f.start - now])
  /\ Answers(f, [Answer EXCEPT !.kind = "created"])

List(f) ==
  /\ f.task = "get_clocks"
  /\ Answers(f, [kind |-> "list", version |-> Len(clocks),
                 rows |-> [i \in DOMAIN Recent |->
                             [clock |-> Recent[i].clock,
                              time |-> now + Recent[i].ahead, at |-> now]]])
  /\ UNCHANGED clocks

Inspect(f) ==
  /\ f.task = "inspect_clock" /\ Exists(f.clock)
  /\ Answers(f, [Answer EXCEPT !.kind = "info"])
  /\ UNCHANGED clocks

\* Wrong secrets, rows that exist or do not, a busy data base.
Refuse(f) == Answers(f, [Answer EXCEPT !.kind = "error"]) /\ UNCHANGED clocks

Serve(f) ==
  /\ f.answer.kind = "none"
  /\ Create(f) \/ List(f) \/ Inspect(f) \/ Refuse(f)
  /\ UNCHANGED <<now, sent, panel, table, inspected, version, excuse>>

-----------------------------------------------------------------------------
(* Answers, in any order. *)

\* handleResponseGetClocks
HandleResponseGetClocks(f) ==
  /\ f.answer.kind = "list"
  /\ fetches' = fetches \ {f}
  /\ table' = [i \in DOMAIN f.answer.rows |->
       LET row == f.answer.rows[i]
       IN [clock |-> row.clock, shown |-> row.time, late |-> now - row.at,
           skipped |-> FALSE]]
  /\ version' = f.answer.version
  /\ excuse' = IF version' < version THEN sent
               ELSE IF f.n > excuse THEN 0 ELSE excuse
  /\ UNCHANGED <<now, clocks, sent, panel, inspected>>

\* handleResponseInspectClock
HandleResponseInspectClock(f) ==
  /\ f.answer.kind = "info"
  /\ fetches' = fetches \ {f}
  /\ panel' = [clock |-> f.clock, n |-> f.n]
  /\ UNCHANGED <<now, clocks, sent, table, inspected, version, excuse>>

Created(f) ==
  /\ f.answer.kind = "created"
  /\ UNCHANGED <<now, clocks, panel, table, inspected, version, excuse>>

\* Mutant: the list is not asked for again.
HandleResponseCreateClockOnly(f) ==
  Created(f) /\ fetches' = fetches \ {f} /\ UNCHANGED sent

\* handleResponseCreateClock asks for the list again.
HandleResponseCreateClock(f) ==
  /\ Created(f)
  /\ sent' = sent + 1
  /\ fetches' = (fetches \ {f}) \cup {Fetch("get_clocks", None, 0)}

\* An error from the server, or none can be reached, with the request done or
\* not: the user is notified.
HandleError(f) ==
  /\ fetches' = fetches \ {f}
  /\ excuse' = IF f.answer.kind = "error" /\ f.task # "get_clocks" THEN excuse
               ELSE sent
  /\ UNCHANGED <<now, clocks, sent, panel, table, inspected, version>>

HandleResponse(f) ==
  \/ HandleResponseGetClocks(f)
  \/ HandleResponseInspectClock(f)
  \/ HandleResponseCreateClock(f)
  \/ HandleError(f)

Next ==
  \/ UpdateClocks
  \/ \E c \in Clock : InspectClock(c) \/ \E start \in Start : CreateClock(c, start)
  \/ \E f \in fetches : Serve(f) \/ HandleResponse(f)

Spec == Init /\ [][Next]_vars

-----------------------------------------------------------------------------
(* Properties. *)

\* What the panel shows is about the clock last asked for, whatever was shown
\* or requested before and given up, unless the user did not wait for the answer
\* to another request: then that one may come last.
InspectFresh ==
  panel.clock # None =>
    panel.clock = inspected.clock \/ panel.n \in inspected.overlapping

\* When the page waits for nothing, the table lists the newest clocks the user
\* has created, in the order of the server.  That a request failed, or that an
\* older list came after a newer one, excuses it only until a list has come that
\* was asked for later.
ListCatchesUp ==
  fetches = {} /\ excuse = 0 =>
    [i \in DOMAIN table |-> table[i].clock] =
      [i \in DOMAIN Recent |-> Recent[i].clock]

\* The time in a row is the clock's, but for the time the answer took, however
\* long the page has been open and whichever ends of days, months and years have
\* passed for the clock or for the user; unless, at some second, the user's day
\* of the month did not exist in the month of the clock.  Then the row is a
\* month ahead.
RowsAccurate ==
  \A i \in DOMAIN table :
    ~table[i].skipped =>
      table[i].shown = now + Ahead(table[i].clock) - table[i].late

\* Requests, and what can be answered to them.
IsFetch(f) ==
  /\ f \in [task : {"get_clocks", "inspect_clock", "create_clock"},
            clock : Clock \cup {None}, start : Nat, n : Nat,
            answer : [kind : {"none", "error", "created", "info", "list"},
                      rows : Seq([clock : Clock, time : Nat, at : Nat]),
                      version : Nat]]
  /\ f.task = "create_clock" => f.clock \in Clock
  /\ f.answer.kind = "info" => f.task = "inspect_clock"

TypeOK ==
  /\ now \in Nat
  /\ clocks \in Seq([clock : Clock, ahead : Int])
  /\ \A f \in fetches : IsFetch(f)
  /\ sent \in Nat
  /\ table \in Seq([clock : Clock, shown : Nat, late : Nat, skipped : BOOLEAN])
  /\ version \in Nat

\* Clocks differ, and none shows a time before the epoch.
ClocksDiffer ==
  \A i \in DOMAIN clocks :
    /\ now + clocks[i].ahead >= 0
    /\ \A j \in DOMAIN clocks : clocks[i].clock = clocks[j].clock => i = j

\* The rows list the newest of the first v clocks there were.
Lists(rows, v) ==
  /\ v <= Len(clocks)
  /\ Len(rows) = IF v < Length THEN v ELSE Length
  /\ \A i \in DOMAIN rows : rows[i].clock = clocks[v + 1 - i].clock

\* Requests for another clock than the last are known to overlap.
InspectsKnown ==
  \A f \in Inspecting :
    f.clock = inspected.clock \/ f.n \in inspected.overlapping

\* A list that is under way is of its time, and so is the table, but for
\* excuses.
ListsTrue ==
  /\ \A f \in fetches : f.answer.kind = "list" =>
       /\ Lists(f.answer.rows, f.answer.version)
       /\ \A i \in DOMAIN f.answer.rows :
            LET row == f.answer.rows[i]
            IN row.at <= now /\ row.time = row.at + Ahead(row.clock)
  /\ Lists(table, version)

\* What ends in a table with all clocks, or in an excuse.
Promises(f) ==
  \/ f.answer.kind = "created"
  \/ f.task = "get_clocks" /\ f.answer.kind \in {"none", "error"}
  \/ f.answer.kind = "list" /\ f.answer.version = Len(clocks)

\* Requests are numbered.
Numbered == excuse \in Nat /\ \A f \in fetches : f.n \in 1..sent

\* A list that would be shown, and end the excuse.
Clears(f) == f.answer.kind = "list" /\ f.n > excuse /\ version <= f.answer.version

\* A clock the table was made without is known to the page, or will be; and so
\* it is still if such a list replaces the table.
NothingForgotten ==
  /\ excuse = 0 /\ version < Len(clocks) => \E g \in fetches : Promises(g)
  /\ \A f \in fetches :
       Clears(f) /\ f.answer.version < Len(clocks) => \E g \in fetches : Promises(g)

\* The inductive invariant.
IInv == /\ TypeOK
        /\ ClocksDiffer
        /\ InspectsKnown
        /\ InspectFresh
        /\ ListsTrue
        /\ Numbered
        /\ NothingForgotten
        /\ RowsAccurate
=============================================================================
