\* Fewer units than threads; no symmetry, for liveness is checked.
\* Deadlock is not checked: peers may fall silent and all units may be lost.
CONSTANTS
  w1 = w1
  w2 = w2
  c1 = c1
  c2 = c2
  r1 = r1
  Nobody = Nobody
  Workers <- MCWorkers
  Conns <- MCConns
  Receivers <- MCReceivers
  PoolSize = 2
  QueueSize = 1
  MaxPackets = 2
  HeadSize = 3
  TailSize = 2
  MaxBody = 2
  MaxStream = 3
SPECIFICATION MCSpec
INVARIANT OneOwner
INVARIANT PacketsStayInOrder
INVARIANT KindStreamsComeOut
PROPERTY OnlyReceiversLoseUnits
PROPERTY ReadableIsRead
CHECK_DEADLOCK FALSE
