-------------------------------- MODULE Ring ---------------------------------
(***************************************************************************)
(* The message ring of util/ring.h as its one user sees it: a circular     *)
(* buffer of Length slots, of which Length - 1 can be occupied.  The head  *)
(* is the next slot to write, the tail the next slot to read.  A slot that *)
(* was read keeps its old pointer, as in the code.                         *)
(***************************************************************************)
EXTENDS Integers

CONSTANTS Length,  \* the number of slots, COMMON_RING_SIZE
          Content, \* what a slot can point to
          Nothing  \* the content of a slot never written

Slot == 0..(Length - 1)

RingState == [head : Slot, tail : Slot,
              buffer : [Slot -> Content \cup {Nothing}]]

Setup == [head |-> 0, tail |-> 0, buffer |-> [s \in Slot |-> Nothing]]

Following(s) == (s + 1) % Length

IsEmpty(ring) == ring.tail = ring.head

\* util_ring_put fails (returns -ENOMEM) when the head would meet the tail.
HasRoom(ring) == Following(ring.head) # ring.tail

\* Mutant: the newest item instead of the oldest.
FirstNewest(ring) == ring.buffer[(ring.head + Length - 1) % Length]

\* The pointer util_ring_get returns.
First(ring) == ring.buffer[ring.tail]

Get(ring) == [ring EXCEPT !.tail = Following(@)]

Put(ring, item) == [ring EXCEPT !.buffer[ring.head] = item,
                                !.head = Following(@)]

-----------------------------------------------------------------------------
(* Derived views, used to state properties. *)

\* How many slots are occupied.
Occupied(ring) == IF ring.head >= ring.tail
                    THEN ring.head - ring.tail
                    ELSE ring.head - ring.tail + Length

\* The k-th oldest item in the ring, for k in 1..Occupied(ring).
At(ring, k) == ring.buffer[IF ring.tail + k - 1 < Length
                             THEN ring.tail + k - 1
                             ELSE ring.tail + k - 1 - Length]
=============================================================================
