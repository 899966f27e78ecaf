----------------------------- MODULE ReplyQueue ------------------------------
(***************************************************************************)
(* What the transmission path promises, without pools or rings: the        *)
(* replies wait in one queue of bounded length, a reply joins at the back, *)
(* may be finished while it waits, is never altered otherwise, and leaves  *)
(* only from the front (sent, or dropped when it cannot be sent).          *)
(***************************************************************************)
EXTENDS Naturals, Sequences

CONSTANTS Reply,    \* the replies, records with a field "ready"
          Capacity  \* how many replies can wait at once

VARIABLE queue

TypeOK == queue \in Seq(Reply) /\ Len(queue) <= Capacity

Init == queue = <<>>

Accept == /\ Len(queue) < Capacity
          /\ \E r \in Reply : queue' = Append(queue, r)

Finish == \E i \in 1..Len(queue) :
            /\ ~queue[i].ready
            /\ queue' = [queue EXCEPT ![i].ready = TRUE]

Depart == /\ queue # <<>>
          /\ queue' = Tail(queue)

Next == Accept \/ Finish \/ Depart

Spec == Init /\ [][Next]_queue
=============================================================================
