\* A stop may hang (see StopEnds), and a deleted pool does nothing.
CONSTANTS
  d1 = d1
  d2 = d2
  w1 = w1
  w2 = w2
  x1 = x1
  x2 = x2
  p1 = p1
  p2 = p2
  p3 = p3
  Null = Null
  Deliverers <- MCDeliverers
  Workers <- MCWorkers
  FirstWorkers <- MCFirstWorkers
  Tasks <- MCTasks
  Packages <- MCPackages
  CallWithTask = TRUE
  Pressure = 100
  Limit = 1
SPECIFICATION FairSpec
INVARIANT PackageInOnePlace
INVARIANT TasksAccounted
INVARIANT ThreadsInOrder
PROPERTY QueuedTaskIsTried
CHECK_DEADLOCK FALSE
