---------------------------- MODULE MCClockStore -----------------------------
(* ClockStore on a few ports. *)
EXTENDS ClockStore

Id(c, p) == [clock_id |-> c, port |-> p]

\* (1, 2) and (2, 1) have the same hash whatever the size of the cache; clock
\* id 0 and port 0 are special.
TwoPorts == {Id(1, 2), Id(2, 1)}
ThreePorts == TwoPorts \cup {Id(1, 1)}
PortsAndSpecial == TwoPorts \cup {Id(2, 0)}

\* What a list shows of a clock depends on its visibility only.
ShortSecrets == {clock \in Clock : ~clock.full}
=============================================================================
