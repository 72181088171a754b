------------------------------- MODULE RBTree -------------------------------
(***************************************************************************)
(* The left-leaning red-black tree of src/rbtree, one action per turn of   *)
(* the loops in rbt_insert and rbt_remove.                                 *)
(*                                                                         *)
(* A node is named by the key it holds.  SWAP_NODE_DATA exchanges the keys *)
(* of two nodes and leaves their links and colours where they are: under   *)
(* this naming the two nodes exchange names everywhere in the structure    *)
(* (Swap), and so do the program's own pointers to them.  The data that    *)
(* goes with a key is left out: it moves with the key.                     *)
(***************************************************************************)
EXTENDS Integers, FiniteSets

CONSTANTS Keys,       \* the keys callers use
          Null,       \* no node; also the parent of the root, which is the tree object
          PoolSize    \* nodes allocated in advance by rbt_new_tree

ASSUME RBTreeAssumption ==
  IsFiniteSet(Keys) /\ Keys \subseteq Int /\ Null \notin Keys /\ PoolSize \in Nat

VARIABLES t,        \* the nodes: up, left, right, and the status bits as sets
          root,     \* tree->root
          depth,    \* tree->depth
          count,    \* tree->count
          pool,     \* nodes left of those allocated in advance
          pc,       \* "idle", "insert" or "remove": the loop that is running
          node,     \* local: the node that is moving up (node, or op)
          parent,   \* local: where it is to be attached (rbt_insert)
          key,      \* the key the caller named
          answer    \* what the last call returned

vars == <<t, root, depth, count, pool, pc, node, parent, key, answer>>

Ptr == Keys \cup {Null}

TypeOK ==
  /\ t \in [nodes : SUBSET Keys, up : [Keys -> Ptr], left : [Keys -> Ptr], right : [Keys -> Ptr],
            red : SUBSET Keys, redlink : SUBSET Keys, isroot : SUBSET Keys]
  /\ root \in Ptr /\ depth \in 0..Cardinality(Keys) /\ count \in 0..Cardinality(Keys)
  /\ pool \in 0..PoolSize
  /\ pc \in {"idle", "insert", "remove"} /\ {node, parent, key} \subseteq Ptr
  /\ answer \in {"none", "ok", "exists", "not_found", "no_memory"}

-----------------------------------------------------------------------------
(* Links and status bits.                                                  *)

LinkLeft(s, p, c) ==
  [s EXCEPT !.left[p] = c, !.up = IF c = Null THEN @ ELSE [@ EXCEPT ![c] = p]]

LinkRight(s, p, c) ==
  [s EXCEPT !.right[p] = c, !.up = IF c = Null THEN @ ELSE [@ EXCEPT ![c] = p]]

LinkBoth(s, p, l, r) == LinkRight(LinkLeft(s, p, l), p, r)

SetRed(s, n)       == [s EXCEPT !.red = @ \cup {n}]
SetBlack(s, n)     == [s EXCEPT !.red = @ \ {n}]
SetRedLink(s, n)   == [s EXCEPT !.redlink = @ \cup {n}]
SetBlackLink(s, n) == [s EXCEPT !.redlink = @ \ {n}]

Swap(s, a, b) ==
  LET pi == [n \in Ptr |-> CASE n = a -> b [] n = b -> a [] OTHER -> n]
      Move(f) == [n \in Keys |-> pi[f[pi[n]]]]
      Name(S) == {pi[n] : n \in S}
  IN [nodes |-> Name(s.nodes), up |-> Move(s.up), left |-> Move(s.left), right |-> Move(s.right),
      red |-> Name(s.red), redlink |-> Name(s.redlink), isroot |-> Name(s.isroot)]

(* change_root: the flag and the parent of the new root, if there is one.  *)
ChangeRoot(s, old, new) ==
  LET marked == IF new = Null THEN s
                ELSE [s EXCEPT !.up[new] = Null, !.isroot = @ \cup {new}]
  IN [marked EXCEPT !.isroot = @ \ {old}]

New(s, n) ==
  [s EXCEPT !.nodes = @ \cup {n}, !.up[n] = Null, !.left[n] = Null, !.right[n] = Null,
            !.red = @ \ {n}, !.redlink = @ \ {n}, !.isroot = @ \ {n}]

Free(s, n) == [New(s, n) EXCEPT !.nodes = @ \ {n}]

-----------------------------------------------------------------------------
(* Searching and walking.  A loop of the code is its step: from the place  *)
(* it has reached to the next one, or to the same one where it stops.  It  *)
(* takes at most one turn for every key.                                   *)

Loop(step, n) ==
  LET at[i \in Nat] == IF i = 0 THEN n ELSE step[at[i - 1]]
  IN at[Cardinality(Keys)]

Toward(k) ==
  [n \in Keys |-> LET child == IF n > k THEN t.left[n] ELSE t.right[n]
                  IN IF n = k \/ child = Null THEN n ELSE child]

Descend(n, k) == Loop(Toward(k), n)

Search(k) ==
  IF root = Null THEN Null ELSE LET n == Descend(root, k) IN IF n = k THEN n ELSE Null

Leftmost  == [n \in Ptr |-> IF n = Null \/ t.left[n] = Null THEN n ELSE t.left[n]]
Rightmost == [n \in Ptr |-> IF n = Null \/ t.right[n] = Null THEN n ELSE t.right[n]]

First(n) == Loop(Leftmost, n)
Last(n)  == Loop(Rightmost, n)

UpFromRight == [n \in Keys |-> IF n \notin t.isroot /\ t.right[t.up[n]] = n THEN t.up[n] ELSE n]
UpFromLeft  == [n \in Keys |-> IF n \notin t.isroot /\ t.left[t.up[n]] = n THEN t.up[n] ELSE n]

Above(n) == IF n \in t.isroot THEN Null ELSE t.up[n]

ClimbRight(n) == Above(Loop(UpFromRight, n))
ClimbLeft(n)  == Above(Loop(UpFromLeft, n))

(* A plausible fault: the way up ends at the parent, whichever child n is.  *)
NextNodeOneUp(n) ==
  IF t.right[n] = Null THEN IF n \in t.isroot THEN Null ELSE t.up[n] ELSE First(t.right[n])

NextNode(n) == IF t.right[n] = Null THEN ClimbRight(n) ELSE First(t.right[n])
PrevNode(n) == IF t.left[n] = Null THEN ClimbLeft(n) ELSE Last(t.left[n])

(* check_integrity, the test RBT_MODE_INTEGRITY runs after every change:   *)
(* TRUE when it answers 0.                                                 *)
CheckIntegrity(s, n) ==
  LET l == s.left[n]  r == s.right[n]
  IN /\ l # Null => /\ n > l
                    /\ ~(n \in s.red /\ l \in s.red)
                    /\ n \in s.redlink => l \in s.red
     /\ l = Null => n \notin s.redlink
     /\ r # Null => l # Null /\ n < r

-----------------------------------------------------------------------------
Empty == [nodes |-> {}, up |-> [k \in Keys |-> Null], left |-> [k \in Keys |-> Null],
          right |-> [k \in Keys |-> Null], red |-> {}, redlink |-> {}, isroot |-> {}]

(* rbt_new_tree: no root, and the nodes of the pool.                       *)
Init ==
  /\ t = Empty /\ root = Null /\ depth = 0 /\ count = 0 /\ pool = PoolSize
  /\ pc = "idle" /\ node = Null /\ parent = Null /\ key = Null
  /\ answer = "none"

Return(code) ==
  /\ pc' = "idle" /\ node' = Null /\ parent' = Null /\ key' = Null
  /\ answer' = code

(* pool_pop_node: a node of the pool, then one of the heap, which may fail. *)
PopNode == pool' = IF pool > 0 THEN pool - 1 ELSE pool

(***************************************************************************)
(* rbt_insert                                                              *)
(***************************************************************************)
InsertRoot(k) ==
  /\ pc = "idle" /\ root = Null
  /\ t' = [New(t, k) EXCEPT !.isroot = @ \cup {k}]
  /\ root' = k /\ count' = 1 /\ depth' = 1
  /\ PopNode
  /\ Return("ok")

(* rbt_insert does not look at what rbt_insert_root answers: without memory *)
(* nothing is stored and the caller is told that it was.                   *)
InsertRootLost(k) ==
  /\ pc = "idle" /\ root = Null
  /\ pool = 0
  /\ Return("ok")
  /\ UNCHANGED <<t, root, depth, count, pool>>

(* The key is there: its data is replaced (is_update) or the call refused;  *)
(* "exists" stands for both, for the tree is the same.                     *)
InsertExisting(k) ==
  /\ pc = "idle" /\ root # Null /\ Descend(root, k) = k
  /\ Return("exists")
  /\ UNCHANGED <<t, root, depth, count, pool>>

InsertNoMemory(k) ==
  /\ pc = "idle" /\ root # Null /\ Descend(root, k) # k
  /\ pool = 0
  /\ Return("no_memory")
  /\ UNCHANGED <<t, root, depth, count, pool>>

(* A plausible fault: a key that is there is inserted again.               *)
InsertBeginAnyway(k) ==
  /\ pc = "idle" /\ root # Null
  /\ pc' = "insert" /\ key' = k
  /\ node' = k /\ parent' = Descend(root, k)
  /\ t' = New(t, k)
  /\ PopNode
  /\ UNCHANGED <<root, depth, count, answer>>

InsertBegin(k) ==
  /\ pc = "idle" /\ root # Null /\ Descend(root, k) # k
  /\ pc' = "insert" /\ key' = k
  /\ node' = k /\ parent' = Descend(root, k)
  /\ t' = New(t, k)
  /\ PopNode
  /\ UNCHANGED <<root, depth, count, answer>>

InsertDone == count' = count + 1 /\ Return("ok") /\ UNCHANGED pool

InsertUp(n, p) ==
  /\ node' = n /\ parent' = p
  /\ UNCHANGED <<root, depth, count, pool, pc, key, answer>>

(* The parent is red or has a red link: three nodes become a 4-node, which *)
(* is split; black2 is the upper of the two, low its red left child.       *)
black2 == IF parent \in t.red THEN t.up[parent] ELSE parent
low    == IF parent \in t.red THEN parent ELSE t.left[parent]
grandpa == t.up[black2]
Split  == SetBlackLink(SetBlack(t, low), black2)

InsertSplitting(top, linked) ==
  IF black2 \in t.isroot
  THEN /\ t' = ChangeRoot(linked, black2, top)
       /\ root' = top /\ depth' = depth + 1
       /\ InsertDone
  ELSE t' = linked /\ InsertUp(top, grandpa)

Splitting == pc = "insert" /\ (parent \in t.red \/ parent \in t.redlink)

InsertBelowLow ==
  /\ Splitting /\ low > node
  /\ InsertSplitting(low, LinkBoth(LinkLeft(Split, black2, t.right[low]), low, node, black2))

InsertAboveBoth ==
  /\ Splitting /\ low <= node /\ black2 < node
  /\ LET linked == LinkRight(Split, black2, node)
     IN IF black2 \in t.isroot
        THEN t' = linked /\ depth' = depth + 1 /\ UNCHANGED root /\ InsertDone
        ELSE t' = linked /\ InsertUp(black2, grandpa)

InsertBetween ==
  /\ Splitting /\ low <= node /\ black2 >= node
  /\ LET opened == LinkLeft(LinkRight(Split, low, t.left[node]), black2, t.right[node])
     IN InsertSplitting(node, LinkBoth(opened, node, low, black2))

Joining == pc = "insert" /\ parent \notin t.red /\ parent \notin t.redlink

InsertLeft ==
  /\ Joining /\ parent > node
  /\ t' = SetRedLink(SetRed(LinkLeft(t, parent, node), node), parent)
  /\ InsertDone
  /\ UNCHANGED <<root, depth>>

InsertRight ==
  /\ Joining /\ parent <= node
  /\ LET g == t.up[parent]
         hung == IF parent \in t.isroot THEN ChangeRoot(t, parent, node)
                 ELSE IF t.left[g] = parent THEN [t EXCEPT !.left[g] = node]
                 ELSE [t EXCEPT !.right[g] = node]
         turned == LinkLeft(LinkRight(hung, parent, t.left[node]), node, parent)
     IN t' = SetRedLink(SetRed([turned EXCEPT !.up[node] = g], parent), node)
  /\ root' = IF parent \in t.isroot THEN node ELSE root
  /\ InsertDone
  /\ UNCHANGED depth

(***************************************************************************)
(* rbt_remove.  The node to free carries the removed key all along.        *)
(***************************************************************************)
RemoveMissing(k) ==
  /\ pc = "idle" /\ Search(k) = Null
  /\ Return("not_found")
  /\ UNCHANGED <<t, root, depth, count, pool>>

(* The successor's place is where the removal starts; a red left child of  *)
(* that place is cut off at once.                                          *)
RemoveBegin(k) ==
  /\ pc = "idle" /\ Search(k) # Null
  /\ LET succ    == First(t.right[k])
         swapped == IF t.right[k] = Null THEN t ELSE Swap(t, k, succ)
         top     == IF t.right[k] # Null /\ root = k THEN succ ELSE root
         l       == swapped.left[k]
     IN IF k \in swapped.redlink
        THEN LET again == Swap(swapped, k, l)
             IN /\ t' = Free([SetBlackLink(again, l) EXCEPT !.left[l] = Null], k)
                /\ root' = IF top = k THEN l ELSE top
                /\ count' = count - 1
                /\ Return("ok")
                /\ UNCHANGED <<depth, pool>>
        ELSE /\ t' = swapped /\ root' = top
             /\ pc' = "remove" /\ node' = k /\ key' = k
             /\ UNCHANGED <<depth, count, pool, parent, answer>>

Bro == LET p == t.up[node] IN IF node = t.left[p] THEN t.right[p] ELSE t.left[p]

(* In the cases below p is the parent of node; after a Swap the place of   *)
(* node is named p, the place of p is named after who moved there.         *)
RemoveDone(s, top) ==
  /\ t' = Free(s, node)
  /\ root' = IF root = t.up[node] THEN top ELSE root
  /\ count' = count - 1
  /\ Return("ok")
  /\ UNCHANGED <<depth, pool>>

RemoveRoot ==
  /\ pc = "remove" /\ node \in t.isroot
  /\ t' = Free(ChangeRoot(t, node, t.left[node]), node)
  /\ root' = t.left[node] /\ depth' = depth - 1 /\ count' = count - 1
  /\ Return("ok")
  /\ UNCHANGED pool

Removing == pc = "remove" /\ node \notin t.isroot

RemoveRed ==
  /\ Removing /\ node \in t.red
  /\ LET p == t.up[node]  l == t.left[node]
         cut == SetBlackLink(LinkLeft(t, p, l), p)
     IN RemoveDone(IF l = Null THEN cut ELSE SetBlack(cut, l), p)

RemoveRedBroRedNephew ==
  /\ Removing /\ node \notin t.red /\ Bro \in t.red
  /\ LET p == t.up[node]  nephew == t.right[Bro]  gs == t.left[nephew]
         s == Swap(Swap(t, p, node), nephew, node)
         joined == LinkLeft(LinkRight(s, p, s.left[p]), p, s.right[node])
     IN /\ nephew \in t.redlink
        /\ RemoveDone(SetBlack(LinkRight(joined, Bro, gs), gs), nephew)

(* A plausible fault: the new red link of the parent is not recorded.      *)
RemoveRedBroNoLink ==
  /\ Removing /\ node \notin t.red /\ Bro \in t.red
  /\ LET p == t.up[node]  b == Bro  nephew == t.right[b]
         s == Swap(Swap(t, p, node), node, b)
         joined == LinkLeft(LinkRight(s, p, s.left[p]), b, s.left[node])
         below == SetBlackLink(LinkLeft(joined, p, nephew), b)
     IN /\ nephew \notin t.redlink
        /\ RemoveDone(SetRed(below, nephew), b)

RemoveRedBro ==
  /\ Removing /\ node \notin t.red /\ Bro \in t.red
  /\ LET p == t.up[node]  b == Bro  nephew == t.right[b]
         s == Swap(Swap(t, p, node), node, b)
         joined == LinkLeft(LinkRight(s, p, s.left[p]), b, s.left[node])
         below == SetBlackLink(LinkLeft(joined, p, nephew), b)
     IN /\ nephew \notin t.redlink
        /\ RemoveDone(SetRedLink(SetRed(below, nephew), p), b)

BlackBro == Removing /\ node \notin t.red /\ Bro \notin t.red

RemoveLeftBorrow ==
  /\ BlackBro /\ Bro \in t.redlink /\ node = t.left[t.up[node]]
  /\ LET p == t.up[node]  b == Bro  nephew == t.left[b]
         s == Swap(Swap(t, node, p), node, nephew)
         joined == LinkLeft(LinkRight(s, p, s.left[node]), b, s.right[node])
     IN RemoveDone(SetBlackLink(joined, b), nephew)

RemoveRightBorrow ==
  /\ BlackBro /\ Bro \in t.redlink /\ node # t.left[t.up[node]]
  /\ LET p == t.up[node]  b == Bro  nephew == t.left[b]
         s == Swap(Swap(t, b, p), node, p)
         joined == LinkLeft(LinkLeft(s, b, nephew), p, s.right[node])
     IN RemoveDone(SetBlack(joined, nephew), b)

(* Nothing to borrow: parent and brother become one 3-node and the hole    *)
(* moves up, its only child on its left.  node keeps the removed key.      *)
HoleUp(s) ==
  /\ t' = s
  /\ root' = IF root = t.up[node] THEN node ELSE root
  /\ UNCHANGED <<depth, count, pool, pc, node, parent, key, answer>>

RemoveLeftMerge ==
  /\ BlackBro /\ Bro \notin t.redlink /\ node = t.left[t.up[node]]
  /\ LET p == t.up[node]  b == Bro
         s == Swap(t, p, node)
         joined == LinkLeft(LinkLeft(LinkRight(s, p, s.left[b]), b, p), node, b)
     IN HoleUp(SetRedLink(SetRed(joined, p), b))

RemoveRightMerge ==
  /\ BlackBro /\ Bro \notin t.redlink /\ node # t.left[t.up[node]]
  /\ LET p == t.up[node]  b == Bro
         s == Swap(t, node, p)
         joined == LinkLeft(LinkLeft(s, p, b), node, p)
     IN HoleUp(SetRedLink(SetRed(joined, b), p))

-----------------------------------------------------------------------------
(* rbt_delete_tree, and a new tree in its place: delete_sub_tree frees the *)
(* nodes in the tree, those left in the pool are forgotten.                *)
DeleteTree ==
  /\ pc = "idle" /\ root # Null
  /\ t' = Empty /\ root' = Null /\ depth' = 0 /\ count' = 0 /\ pool' = PoolSize
  /\ Return("none")

InsertCall(k) ==
  InsertRoot(k) \/ InsertRootLost(k) \/ InsertExisting(k) \/ InsertNoMemory(k) \/ InsertBegin(k)
RemoveCall(k) == RemoveMissing(k) \/ RemoveBegin(k)

Step ==
  \/ InsertBelowLow \/ InsertAboveBoth \/ InsertBetween \/ InsertLeft \/ InsertRight
  \/ RemoveRoot \/ RemoveRed \/ RemoveRedBroRedNephew \/ RemoveRedBro
  \/ RemoveLeftBorrow \/ RemoveRightBorrow \/ RemoveLeftMerge \/ RemoveRightMerge

Next == (\E k \in Keys : InsertCall(k) \/ RemoveCall(k)) \/ Step \/ DeleteTree

Spec == Init /\ [][Next]_vars

-----------------------------------------------------------------------------
(* Properties.                                                             *)

(* The black nodes on the way from n up to the root.                       *)
CountUp == [x \in Ptr \X Nat |->
             IF x[1] = Null THEN x ELSE <<t.up[x[1]], x[2] + (IF x[1] \in t.red THEN 0 ELSE 1)>>]
Blacks(n) == Loop(CountUp, <<n, 0>>)[2]

Children(n) == {t.left[n], t.right[n]} \ {Null}

(* The rules the header of the tree lists (rbtree.h 6-18), which every     *)
(* rotation of rbt_insert and rbt_remove has to restore: the root is       *)
(* black, the tests of check_integrity hold at every node, only a left     *)
(* child is red, both children of a red node are black, and every way down *)
(* crosses depth black nodes.  And everything keeps its type.              *)
RulesHold ==
  /\ TypeOK
  /\ pc = "idle" =>
    /\ root # Null => root \notin t.red /\ t.isroot = {root}
    /\ \A n \in t.nodes :
         /\ CheckIntegrity(t, n)
         /\ t.right[n] \notin t.red
         /\ t.left[n] \in t.red <=> n \in t.redlink
         /\ n \in t.red => Children(n) \cap t.red = {}
         /\ Null \in {t.left[n], t.right[n]} => Blacks(n) = depth

(* Links agree both ways, and nothing still points at a freed node: the    *)
(* shortcuts of rbt_remove leave stale right links behind on the way up.   *)
LinksAgree ==
  \A n \in t.nodes :
    /\ Children(n) \subseteq t.nodes /\ \A c \in Children(n) : t.up[c] = n
    /\ n # root => n \in Children(t.up[n])
    /\ t.left[n] = t.right[n] => t.left[n] = Null

(* rbt_search finds the keys that are in the tree and no others, and       *)
(* rbt_first, rbt_next, rbt_last and rbt_prev visit them in order, over    *)
(* links that every removal has left in agreement.                         *)
WalksInOrder ==
  pc = "idle" =>
    /\ count = Cardinality(t.nodes) /\ LinksAgree
    /\ \A k \in Keys : Search(k) = IF k \in t.nodes THEN k ELSE Null
    /\ \A n \in t.nodes :
         LET above == {m \in t.nodes : m > n}  below == {m \in t.nodes : m < n}
         IN /\ IF above = {} THEN NextNode(n) = Null /\ Last(root) = n
               ELSE NextNode(n) \in above /\ \A m \in above : NextNode(n) <= m
            /\ IF below = {} THEN PrevNode(n) = Null /\ First(root) = n
               ELSE PrevNode(n) \in below /\ \A m \in below : PrevNode(n) >= m

(* The tree implements the dictionary: a key is in from the moment its     *)
(* insertion returns to the moment its removal returns, and a call that    *)
(* returns has done what it was asked, for the key it was given.           *)
Dict == INSTANCE Dictionary WITH
          keys <- IF pc = "insert" THEN t.nodes \ {key} ELSE t.nodes,
          answer <- answer, Lapses <- {"first_lost"}

Inserted(k) == pc' = "idle" /\ (InsertCall(k) \/ (pc = "insert" /\ key = k))
Removed(k)  == pc' = "idle" /\ (RemoveCall(k) \/ (pc = "remove" /\ key = k))

ImplementsDictionary ==
  /\ Dict!Spec
  /\ [][\A k \in Keys :
         /\ Inserted(k) => Dict!Insert(k) \/ Dict!Refuse(k) \/ Dict!LoseFirst(k)
         /\ Removed(k) => Dict!Remove(k)]_vars
=============================================================================
