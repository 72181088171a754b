\* The same instance: a handle is deleted and its memory used again.
CONSTANTS
  App <- MCApp
  Recv <- MCRecv
  Threads <- MCThreads
  Handler = ev
  Handles = {h1, h2}
  Objs = {o1, o2}
  Socks = {1, 2}
  Null = Null
  MaxReuse = 2
  MaxCalls = 3
  a1 = a1
  a2 = a2
  r1 = r1
  r2 = r2
  ev = ev
SPECIFICATION Spec
CHECK_DEADLOCK FALSE
INVARIANT
  LiveHandleIsFound
