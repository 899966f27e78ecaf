\* Pools of three usable buffers, up to two unicast requests in a datagram, two
\* clients; sendto may fail, or never does.
SPECIFICATION Spec
CONSTANTS
  PoolSize = 4
  RingSize = 4
  MaxTlv = 2
  Client = {c1, c2}
  None = None
SYMMETRY Symmetry
INVARIANTS
  NeverOutOfOrder
  IdleHasRoom
  EveryRequestAnswered
  UnfinishedExplained
  StrandedReplies
