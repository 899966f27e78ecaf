------------------------------- MODULE Mempool -------------------------------
(***************************************************************************)
(* The buffer pool of util/mempool.h: Count descriptors in a circle, of    *)
(* which Count - 1 can be in use.  get() advances the head and hands that  *)
(* descriptor out; put() advances the tail and insists that the descriptor *)
(* it reaches is the one being returned, so buffers must come back in the  *)
(* order in which they were handed out.  The pointer arithmetic of the     *)
(* code (start, end, descriptor_unit_item_length) is an index 0..Count-1.  *)
(***************************************************************************)
EXTENDS Integers

CONSTANT Count

Descriptor == 0..(Count - 1)

Pool == [head : Descriptor, tail : Descriptor]

Setup == [head |-> 0, tail |-> 0]

\* One descriptor further, wrapping when it reaches the end of the pool.
Successor(d) == IF d + 1 = Count THEN 0 ELSE d + 1

\* Mutant: the pool is never found exhausted.
HasFreeUnchecked(pool) == TRUE

\* util_mempool_get fails (returns NULL) when the head would meet the tail.
HasFree(pool) == Successor(pool.head) # pool.tail

\* The descriptor util_mempool_get hands out.
NextFree(pool) == Successor(pool.head)

Get(pool) == [pool EXCEPT !.head = Successor(@)]

Put(pool) == [pool EXCEPT !.tail = Successor(@)]

\* The test of util_mempool_put; when it fails the process exits.
InOrder(pool, d) == Successor(pool.tail) = d

-----------------------------------------------------------------------------
(* Derived views, used to state properties. *)

\* How many descriptors are in use.
Held(pool) == IF pool.head >= pool.tail
                THEN pool.head - pool.tail
                ELSE pool.head - pool.tail + Count

\* The k-th oldest descriptor in use, for k in 1..Held(pool).
HeldAt(pool, k) == IF pool.tail + k < Count
                     THEN pool.tail + k
                     ELSE pool.tail + k - Count

InUse(pool) == {HeldAt(pool, k) : k \in 1..Held(pool)}
=============================================================================
