\* Three threads, each at most two grants deep.  A reader that asks again
\* while a writer spins hangs both (see SpinningWriterIsServed), so the
\* system may stop.
CONSTANTS
  t1 = t1
  t2 = t2
  t3 = t3
  NoThread = NoThread
  Threads <- MCThreads
  MaxHold = 2
SPECIFICATION FairSpec
INVARIANT WriterExcludesAll
INVARIANT BooksBalance
INVARIANT UnlockReadStaysTrue
PROPERTY ImplementsSharedLock
PROPERTY SpinningWriterIsServed
CHECK_DEADLOCK FALSE
