\* Two handles, three calls: new, and two calls that race on what it made.
\* Deadlock is not an error here: the bounded calls come to an end, and a
\* receiver that died with the table locked stops the others.
CONSTANTS
  App <- MCApp
  Recv <- MCRecv
  Threads <- MCThreads
  Handler = ev
  Handles = {h1, h2}
  Objs = {o1, o2}
  Socks = {1, 2}
  Null = Null
  MaxReuse = 2
  MaxCalls = 3
  a1 = a1
  a2 = a2
  r1 = r1
  r2 = r2
  ev = ev
SPECIFICATION Spec
CHECK_DEADLOCK FALSE
INVARIANTS
  WriterOwnsClient
  ReusedIsUnused
  KilledReaderHoldsNoHandle
