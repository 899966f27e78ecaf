\* Pools of two usable buffers; refinement and liveness, so no symmetry.
SPECIFICATION FairSpec
CONSTANTS
  PoolSize = 3
  RingSize = 3
  MaxTlv = 2
  Client = {c1, c2}
  None = None
PROPERTIES
  IsReplyQueue
  PollCompletes
  RepliesLeave
