CONSTANTS
  c = c
  n1 = n1
  n2 = n2
  n3 = n3
  n4 = n4
  Worker = Worker
  Null = Null
  Callers <- MCCallers
  Nodes <- MCNodes
  MaxRound = 2
SPECIFICATION TimerFairSpec
INVARIANT ListIsACircle
INVARIANT WorkerOnArmedNode
PROPERTY DueTimerFiresInTheEnd
