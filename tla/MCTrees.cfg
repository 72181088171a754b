\* Keys up to 9: three black levels, every rotation and every case of removal;
\* three levels of the 2-3 tree, where a division may fail in a leaf, above
\* leaves or at the root, and the tree is used on after that.
SPECIFICATION MCSpec
CONSTANTS
  Keys <- MCKeys
  Null = Null
  PoolSize = 1
INVARIANTS
  RulesHold
  WalksInOrder
  Tree23Sound
PROPERTIES
  ImplementsDictionary
  Tree23ImplementsDictionary
CHECK_DEADLOCK FALSE
