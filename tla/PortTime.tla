------------------------------ MODULE PortTime ------------------------------
(***************************************************************************)
(* The time of a clock.  The server keeps no clocks that tick: a clock is  *)
(* stored as the difference between the time its creator asked for and the *)
(* monotonic clock of the host (util/time.h), and whoever reads it adds    *)
(* the two again, modulo 2^64.  The stored differences go through the      *)
(* database and its cache, as ClockStore describes; this module adds the   *)
(* monotonic clock, restarts of the host, and what readers compute.        *)
(***************************************************************************)
EXTENDS ClockStore

CONSTANTS Modulus,   \* 2^64: times and differences are unsigned long
          Start,     \* the times creators ask for
          Uptime     \* how long the host may have been running at the beginning

ASSUME TimeAssumption == /\ Modulus \in Nat \ {0}
                         /\ Value = 0..(Modulus - 1)
                         /\ Start \subseteq Int
                         /\ Uptime \subseteq Nat
                         /\ \A clock \in NewClock, value \in Value :
                              [clock EXCEPT !.value = value] \in NewClock

VARIABLES boot,  \* when the host's monotonic clock was 0
          asked  \* history: the time asked for a port, when, and what the
                 \* monotonic clock has lost since

timeVars == <<boot, asked>>

allVars == <<vars, timeVars>>

NotAsked == [start |-> 0, at |-> 0, lost |-> 0]

PortTimeInit == /\ Init
                /\ \E u \in Uptime : boot = -u
                /\ asked = [p \in Port |-> NotAsked]

\* util_get_time_ns
Monotonic == now - boot

Wrap(n) == n % Modulus

-----------------------------------------------------------------------------
\* Mutants: a difference that is not wrapped; the sign confused.
OffsetUnwrapped(start) == start - Monotonic

OffsetReversed(start) == Wrap(Monotonic - start)

\* The difference create_clock stores.
Offset(start) == Wrap(start - Monotonic)

\* The clocks create_clock may store.
NewClocks(start) == {[clock EXCEPT !.value = Offset(start)] : clock \in NewClock}

Ask(p, start) ==
  /\ asked' = [asked EXCEPT ![p] = [start |-> start, at |-> now, lost |-> 0]]
  /\ UNCHANGED boot

\* create_clock
SetClock(p, start, clock) == CreateClock(p, clock) /\ Ask(p, start)

SetClockCrashes(p, start, clock) ==
  CrashAfterInsert(p, clock) /\ Ask(p, start)

\* The monotonic clock stands at 0 again, and what it had counted is lost.
MonotonicRestarts ==
  /\ boot' = now
  /\ asked' = [p \in Port |-> [asked[p] EXCEPT !.lost = @ + Monotonic]]

\* The host of the container restarts.
HostRestarts == Restart /\ MonotonicRestarts

\* Everything else leaves the differences alone.
Untimed == \/ DbSetup
           \/ \E p \in Port : DbGet(p) \/ CreateClockFails(p)
           \/ \E n \in 1..PageSize : GetClocks(n) \/ GetClocksFails(n)
           \/ CleanupStarts
           \/ Cleanup
           \/ DbSetupFails
           \/ Restart
           \/ Tick

PortTimeNext ==
  \/ Untimed /\ UNCHANGED timeVars
  \/ \E p \in Port, start \in Start : \E clock \in NewClocks(start) :
       SetClock(p, start, clock) \/ SetClockCrashes(p, start, clock)
  \/ HostRestarts

PortTimeSpec == PortTimeInit /\ [][PortTimeNext]_allVars

-----------------------------------------------------------------------------
(* Properties. *)

PortTimeTypeOK ==
  /\ TypeOK
  /\ boot \in Int
  /\ boot <= now
  /\ asked \in [Port -> [start : Int, at : 0..MaxTime, lost : Nat]]

\* ptp_get_port_time, and the time in the list of recent clocks: what announce
\* messages, the management TIME response and the front end show.
TimeOfPort(p) == IF View(p) = None THEN 0
                 ELSE Wrap(Monotonic + View(p).value)

\* A clock that can be read, even one deleted and only in the cache any more,
\* shows the time asked for at its latest creation plus what the host has
\* counted since: however often the row was cached, evicted, deleted and
\* created again, whether the server was restarted in between, and whichever
\* of the two sums overflowed.  What a restart of the host loses is all that
\* is ever lost.
TimeExact ==
  \A p \in Port : View(p) # None =>
    TimeOfPort(p) =
      Wrap(asked[p].start + (now - asked[p].at) - asked[p].lost)
=============================================================================
