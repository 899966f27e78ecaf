----------------------------- MODULE ClockTable ------------------------------
(***************************************************************************)
(* What the clock store promises its readers, without the cache: "stored"  *)
(* is the database and "view" what a read of a clock returns.  A stored    *)
(* clock reads as it is stored, or, if it is one of the "exposed", perhaps *)
(* without its policy.  A deleted one may go on being read, but once it is *)
(* gone it is gone until a clock is created in its place.                  *)
(***************************************************************************)
CONSTANTS Port, Clock, None, Unsecured

VARIABLES stored, view, exposed

vars == <<stored, view, exposed>>

TypeOK == /\ stored \in [Port -> Clock \cup {None}]
          /\ view \in [Port -> Clock \cup {None}]
          /\ exposed \subseteq Port

Init == /\ stored = [p \in Port |-> None]
        /\ view = [p \in Port |-> None]
        /\ exposed = {}

\* The view of q stays as it is, is what is stored, is lost if nothing is, or
\* loses its policy.
MayChange(q) ==
  \/ view'[q] \in {view[q], stored'[q]}
  \/ /\ q \in exposed
     /\ view[q] # None
     /\ view'[q] = [view[q] EXCEPT !.policy = Unsecured]

\* A clock is created as p.
Create(p) ==
  /\ stored[p] = None
  /\ stored'[p] \in Clock
  /\ stored' = [stored EXCEPT ![p] = stored'[p]]
  /\ view'[p] = stored'[p]
  /\ \A q \in Port \ {p} : MayChange(q)
  /\ exposed \subseteq exposed'

\* Clocks are deleted, or none is.
Delete ==
  /\ \A p \in Port : stored'[p] \in {stored[p], None}
  /\ \A q \in Port : MayChange(q)
  /\ UNCHANGED exposed

Next == /\ (\E p \in Port : Create(p)) \/ Delete
        /\ TypeOK'

Spec == Init /\ [][Next]_vars
=============================================================================
