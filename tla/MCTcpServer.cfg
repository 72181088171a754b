\* Sets and queue are full at once; no symmetry, for liveness is checked.
\* Deadlock is not checked: the calls are bounded, the peers may fall silent,
\* and a stop whose workers wait for the handle never comes back.
CONSTANTS
  a1 = a1
  w1 = w1
  w2 = w2
  c1 = c1
  c2 = c2
  App <- MCApp
  Workers <- MCWorkers
  Peers <- MCPeers
  Socks = {1, 2}
  Null = Null
  SetSize = 1
  MaxEvents = 2
  MaxData = 1
  MaxCalls = 2
SPECIFICATION Spec
INVARIANT TreeHoldsLiveClients
INVARIANT HandlerUsesLiveClient
INVARIANT ClientsAreWatched
PROPERTY GoneClientIsRemoved
CHECK_DEADLOCK FALSE
