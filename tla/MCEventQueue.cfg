CONSTANTS
  p1 = p1
  p2 = p2
  e1 = e1
  e2 = e2
  Handler = Handler
  Nobody = Nobody
  NoEvent = NoEvent
  Posters <- MCPosters
  Events <- MCEvents
  Size = 3
SPECIFICATION FairSpec
INVARIANT DispatcherIsSet
INVARIANT LastEventAtTail
PROPERTY ImplementsBoundedFifo
PROPERTY AcceptedIsDispatched
