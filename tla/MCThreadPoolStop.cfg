\* The mode in which no uninitialised rc is read: a stop hangs all the same.
CONSTANTS
  d1 = d1
  d2 = d2
  w1 = w1
  w2 = w2
  x1 = x1
  x2 = x2
  p1 = p1
  p2 = p2
  p3 = p3
  Null = Null
  Deliverers <- MCDeliverers
  Workers <- MCWorkers
  FirstWorkers <- MCFirstWorkers
  Tasks <- MCTasks
  Packages <- MCPackages
  CallWithTask = FALSE
  Pressure = 100
  Limit = 1
SPECIFICATION FairSpec
PROPERTY StopEnds
CHECK_DEADLOCK FALSE
