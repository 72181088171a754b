------------------------------- MODULE Tree23 -------------------------------
(***************************************************************************)
(* The 2-3 tree of src/lbs_bst.  A node is a record of its keys k (one or  *)
(* two, lkey and rkey) and its children c (none in a leaf); a subtree is   *)
(* the value of its root, so the parent pointers need no state.  While an  *)
(* insertion runs a node may hold three keys and four children (mchild2);  *)
(* while a deletion runs it may be a hole: no key, at most one child.      *)
(* An operation is one action: the tree has no lock and its callers        *)
(* serialise.  The value stored with a key moves with it and is left out.  *)
(***************************************************************************)
EXTENDS Integers, FiniteSets, SequencesExt

CONSTANTS Keys,
          MaxFailures   \* bound: divisions that fail in the life of a tree

VARIABLES tree,         \* the root's value, NoTree when tree->root is 0
          level,        \* tree->level
          node_count,   \* tree->node_count, which counts keys
          answer,       \* what the last call returned
          failures      \* history: divisions that got no memory

vars == <<tree, level, node_count, answer, failures>>

NoTree == [k |-> <<>>, c |-> <<>>]
Node(k, c) == [k |-> k, c |-> c]
IsLeaf(n) == n.c = <<>>
IsTri(n) == Len(n.k) = 2
IsHole(n) == n.k = <<>>
Kids(n, a, b) == IF IsLeaf(n) THEN <<>> ELSE SubSeq(n.c, a, b)

-----------------------------------------------------------------------------
RECURSIVE Finds(_, _), InsertInto(_, _, _), FirstKey(_), Delete(_, _), KeysIn(_), CheckSubtree(_), Height(_)

(* GET_POSIBLE_SUBTREE: the child whose keys lie around x.                 *)
Slot(n, x) == 1 + Cardinality({j \in 1..Len(n.k) : n.k[j] < x})

(* lbs_23tree_search_node_or_parent: TRUE when it ends at a node with x.   *)
Finds(n, x) == IF x \in ToSet(n.k) THEN TRUE ELSE IF IsLeaf(n) THEN FALSE ELSE Finds(n.c[Slot(n, x)], x)

Sorted(S) == SetToSortSeq(S, <)

Height(n) == IF IsLeaf(n) THEN IF n = NoTree THEN 0 ELSE 1 ELSE 1 + Height(n.c[1])

(* divide_node: a node of three keys gives its middle one to the parent    *)
(* and becomes two; what goes up is a node of one key.                     *)
Divide(n) ==
  Node(<<n.k[2]>>, <<Node(<<n.k[1]>>, Kids(n, 1, 2)), Node(<<n.k[3]>>, Kids(n, 3, 4))>>)

(* divide_node without memory: merge_nodes has put the middle key into     *)
(* the node that was to go up, which nothing points at any more, and the   *)
(* third child stays behind as mchild2, where no search or deletion looks  *)
(* and which the next division below overwrites.                           *)
Tear(n) == Node(<<n.k[1], n.k[3]>>, IF IsLeaf(n) THEN <<>> ELSE RemoveAt(n.c, 3))

(* lbs_23tree_insert_into, merge_nodes and insert_divided_node; divisions  *)
(* succeed up to the one at height h, which gets no memory.                *)
InsertInto(n, x, h) ==
  LET Full(m) == CASE Len(m.k) <= 2  -> m
                   [] Height(m) = h  -> Tear(m)
                   [] OTHER          -> Divide(m)
  IN IF IsLeaf(n) THEN Full(Node(Sorted(ToSet(n.k) \cup {x}), <<>>))
     ELSE LET i == Slot(n, x)
              below == InsertInto(n.c[i], x, h)
              divided == Height(below) > Height(n.c[i])
          IN IF divided
             THEN Full(Node(Sorted(ToSet(n.k) \cup ToSet(below.k)),
                            SubSeq(n.c, 1, i - 1) \o below.c \o SubSeq(n.c, i + 1, Len(n.c))))
             ELSE [n EXCEPT !.c[i] = below]

(* A plausible fault: the child the brother gives goes to the wrong side.  *)
FixRightSwapped(n, i) ==
  LET bro == n.c[i - 1]  hole == n.c[i]
  IN IF IsTri(bro)
     THEN Node([n.k EXCEPT ![i - 1] = bro.k[2]],
               [n.c EXCEPT ![i - 1] = Node(<<bro.k[1]>>, Kids(bro, 1, 2)),
                           ![i] = Node(<<n.k[i - 1]>>, hole.c \o Kids(bro, 3, 3))])
     ELSE Node(Front(n.k),
               Append(SubSeq(n.c, 1, i - 2), Node(Append(bro.k, n.k[i - 1]), bro.c \o hole.c)))

(* lbs_23tree_fix_null_node, the hole being the last child i: it takes     *)
(* from the brother before it, or is merged into that brother.             *)
FixRight(n, i) ==
  LET bro == n.c[i - 1]  hole == n.c[i]
  IN IF IsTri(bro)
     THEN Node([n.k EXCEPT ![i - 1] = bro.k[2]],
               [n.c EXCEPT ![i - 1] = Node(<<bro.k[1]>>, Kids(bro, 1, 2)),
                           ![i] = Node(<<n.k[i - 1]>>, Kids(bro, 3, 3) \o hole.c)])
     ELSE Node(Front(n.k),
               Append(SubSeq(n.c, 1, i - 2), Node(Append(bro.k, n.k[i - 1]), bro.c \o hole.c)))

(* The hole is the left or the middle child: the same with the brother     *)
(* after it.                                                               *)
FixLeft(n, i) ==
  LET bro == n.c[i + 1]  hole == n.c[i]
  IN IF IsTri(bro)
     THEN Node([n.k EXCEPT ![i] = bro.k[1]],
               [n.c EXCEPT ![i] = Node(<<n.k[i]>>, hole.c \o Kids(bro, 1, 1)),
                           ![i + 1] = Node(<<bro.k[2]>>, Kids(bro, 2, 3))])
     ELSE Node(RemoveAt(n.k, i),
               RemoveAt([n.c EXCEPT ![i + 1] = Node(<<n.k[i]>> \o bro.k, hole.c \o bro.c)], i))

Fix(n, i) ==
  CASE ~IsHole(n.c[i])  -> n
    [] i = Len(n.c)     -> FixRight(n, i)
    [] OTHER            -> FixLeft(n, i)

FirstKey(n) == IF IsLeaf(n) THEN n.k[1] ELSE FirstKey(n.c[1])

(* A plausible fault: the successor leaves its leaf, the key stays.        *)
DeleteKeepsKey(n, x) ==
  IF IsLeaf(n) THEN Node(SelectSeq(n.k, LAMBDA k : k # x), <<>>)
  ELSE IF x \in ToSet(n.k)
  THEN LET j == CHOOSE j \in 1..Len(n.k) : n.k[j] = x
           succ == FirstKey(n.c[j + 1])
       IN Fix([n EXCEPT !.c[j + 1] = Delete(@, succ)], j + 1)
  ELSE LET i == Slot(n, x) IN Fix([n EXCEPT !.c[i] = Delete(@, x)], i)

(* lbs_23tree_get_successor_and_swap and lbs_23tree_remove_key: a key of   *)
(* an inner node is exchanged with its successor, then it is in a leaf.    *)
Delete(n, x) ==
  IF IsLeaf(n) THEN Node(SelectSeq(n.k, LAMBDA k : k # x), <<>>)
  ELSE IF x \in ToSet(n.k)
  THEN LET j == CHOOSE j \in 1..Len(n.k) : n.k[j] = x
           succ == FirstKey(n.c[j + 1])
       IN Fix([n EXCEPT !.k[j] = succ, !.c[j + 1] = Delete(@, succ)], j + 1)
  ELSE LET i == Slot(n, x) IN Fix([n EXCEPT !.c[i] = Delete(@, x)], i)

(* lbs_23tree_check_subtree, the library's own test of a tree: TRUE when   *)
(* it answers 0.                                                           *)
CheckSubtree(n) ==
  /\ n.k # <<>>
  /\ IsTri(n) => n.k[1] < n.k[2]
  /\ ~IsLeaf(n) => Len(n.c) = Len(n.k) + 1 /\ \A i \in DOMAIN n.c : CheckSubtree(n.c[i])

KeysIn(n) == ToSet(n.k) \cup UNION {KeysIn(n.c[i]) : i \in DOMAIN n.c}

-----------------------------------------------------------------------------
Init == tree = NoTree /\ level = 0 /\ node_count = 0 /\ answer = "none" /\ failures = 0

InsertFirst(x) ==
  /\ tree = NoTree
  /\ tree' = Node(<<x>>, <<>>) /\ level' = 1 /\ node_count' = node_count + 1
  /\ answer' = "ok" /\ UNCHANGED failures

InsertNew(x) ==
  /\ tree # NoTree /\ ~Finds(tree, x)
  /\ tree' = InsertInto(tree, x, 0)
  /\ level' = IF Height(tree') > Height(tree) THEN level + 1 ELSE level
  /\ node_count' = node_count + 1
  /\ answer' = "ok" /\ UNCHANGED failures

(* The divisions below have been made; node_count and level stay.          *)
InsertTorn(x) ==
  /\ failures < MaxFailures /\ tree # NoTree /\ ~Finds(tree, x)
  /\ \E h \in 1..level : tree' = InsertInto(tree, x, h) /\ tree' # InsertInto(tree, x, 0)
  /\ failures' = failures + 1
  /\ answer' = "no_memory" /\ UNCHANGED <<level, node_count>>

InsertExisting(x) ==
  /\ tree # NoTree /\ Finds(tree, x)
  /\ answer' = "exists"
  /\ UNCHANGED <<tree, level, node_count, failures>>

Insert(x) == InsertFirst(x) \/ InsertNew(x) \/ InsertExisting(x)

(* The new node is allocated before anything is looked at, so a key that   *)
(* is there is refused as well.                                            *)
InsertNoMemory(x) == answer' = "no_memory" /\ UNCHANGED <<tree, level, node_count, failures>>

(* A hole at the root is dropped: its only child is the new root.          *)
DeleteKey(x) ==
  /\ tree # NoTree /\ Finds(tree, x)
  /\ LET rest == Delete(tree, x)
     IN IF IsHole(rest)
        THEN tree' = (IF IsLeaf(rest) THEN NoTree ELSE rest.c[1]) /\ level' = level - 1
        ELSE tree' = rest /\ level' = level
  /\ node_count' = node_count - 1
  /\ answer' = "ok" /\ UNCHANGED failures

(* INTERNAL_ERR for an empty tree, NOT_FOUND else.                         *)
DeleteMissing(x) ==
  /\ tree = NoTree \/ ~Finds(tree, x)
  /\ answer' = "not_found"
  /\ UNCHANGED <<tree, level, node_count, failures>>

DeleteCall(x) == DeleteKey(x) \/ DeleteMissing(x)

(* lbs_23tree_init clears the structure; the nodes are not freed.          *)
Clear == tree' = NoTree /\ level' = 0 /\ node_count' = 0 /\ answer' = "none" /\ failures' = 0

Next ==
  \/ Clear
  \/ \E x \in Keys : Insert(x) \/ InsertTorn(x) \/ InsertNoMemory(x) \/ DeleteCall(x)

Spec == Init /\ [][Next]_vars

-----------------------------------------------------------------------------
RECURSIVE AllBetween(_, _, _), Even(_)

AllBetween(n, lo, hi) ==
  LET bound == <<lo>> \o n.k \o <<hi>>
  IN /\ \A j \in 1..Len(n.k) : lo < n.k[j] /\ n.k[j] < hi
     /\ \A i \in DOMAIN n.c : AllBetween(n.c[i], bound[i], bound[i + 1])

Even(n) == \A i \in DOMAIN n.c : Height(n.c[i]) = Height(n.c[1]) /\ Even(n.c[i])

(* After every insertion and deletion, whatever was borrowed, merged or    *)
(* divided on the way, and also when a division got no memory: the         *)
(* library's own check passes, the keys below a child lie between those    *)
(* around it, all leaves are at the depth level says, and node_count is    *)
(* the number of keys, or more once a division has failed                  *)
(* (lbs_23tree_fix_null_node, divide_node, lbs_23tree_delete).             *)
Tree23Sound ==
  /\ level = Height(tree)
  /\ node_count >= Cardinality(KeysIn(tree))
  /\ failures = 0 => node_count = Cardinality(KeysIn(tree))
  /\ tree # NoTree =>
       /\ CheckSubtree(tree) /\ Even(tree)
       /\ \E lo, hi \in {x - 1 : x \in Keys} \cup {x + 1 : x \in Keys} : AllBetween(tree, lo, hi)

(* The tree implements the dictionary, each call with the key it was given *)
(* (lbs_23tree_insert, lbs_23tree_delete), with two lapses: without memory *)
(* it refuses keys that it has, and a refused insertion may have put the   *)
(* key in and lost others.  These lay between two keys that are still      *)
(* there: neither the smallest key nor the largest is ever lost.           *)
Dict == INSTANCE Dictionary WITH keys <- KeysIn(tree), Lapses <- {"known_refused", "torn"}
ImplementsDictionary ==
  /\ Dict!Spec
  /\ [][\A k \in Keys : /\ Insert(k) => Dict!Insert(k)
                        /\ InsertTorn(k) => Dict!Tear(k)
                        /\ DeleteCall(k) => Dict!Remove(k)]_vars
=============================================================================
