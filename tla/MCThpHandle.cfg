\* The handle that was made first is never deleted (KeepFirst).
CONSTANTS
  t1 = t1
  t2 = t2
  t3 = t3
  h1 = h1
  h2 = h2
  h3 = h3
  NoHandle = NoHandle
  Nobody = Nobody
  Threads <- MCThreads
  Handles <- MCHandles
  KeepFirst = TRUE
SYMMETRY MCSymmetry
SPECIFICATION HandleSpec
INVARIANT NoUseAfterFree
INVARIANT BooksAgree
INVARIANT HolderSeesLiveObject
