----------------------------- MODULE RBTreeShape ----------------------------
(***************************************************************************)
(* The rules of the red-black tree, node by node, and that every rotation  *)
(* restores them; module RBTreeProofs shows that the code does these       *)
(* rotations.                                                              *)
(*                                                                         *)
(* The rules (Sound) are told by labels of the nodes: lo and hi, the       *)
(* interval the keys below a node lie in, and h, the number of black nodes *)
(* on every way down from it.  A rotation exchanges a part D of the tree,  *)
(* of top p, for a part E, of top q.  Replaced says once and for all what  *)
(* has to be shown of E: that its nodes fit, and that to the node above q  *)
(* looks like p did.  Each case of rbt_insert and rbt_remove has three     *)
(* definitions and two lemmas: what the part looks like, what replaces it, *)
(* and the nodes around it; these are apart, and the new part is sound.    *)
(***************************************************************************)
EXTENDS RBTree, FiniteSetTheorems, NaturalsInduction, WellFoundedInduction, TLAPS

-----------------------------------------------------------------------------
(* Numbers and finite sets.                                                *)

(* A set of natural numbers that is not empty has a least one.             *)
LEMMA LeastNatural ==
  ASSUME NEW T \in SUBSET Nat, T # {}
  PROVE  \E n \in T : \A m \in T : n <= m
<1>1. PICK n \in T : \A m \in T : ~ (<<m, n>> \in OpToRel(<, Nat))
  BY NatLessThanWellFounded, WFMin
<1>2. ASSUME NEW m \in Nat, m < n PROVE <<m, n>> \in OpToRel(<, Nat)
  BY <1>2, Zenon DEF OpToRel
<1>3. \A m \in T : m \in Nat /\ n \in Nat /\ ~ (m < n)
  BY <1>1, <1>2
<1> QED
  BY <1>3

(* A part that misses something is smaller.                                *)
LEMMA SmallerPart ==
  ASSUME NEW S, IsFiniteSet(S), NEW T \in SUBSET S, NEW x \in S \ T
  PROVE  Cardinality(T) \in Nat /\ Cardinality(S) \in Nat /\ Cardinality(T) < Cardinality(S)
<1>1. IsFiniteSet(T) /\ Cardinality(T) <= Cardinality(S)
        /\ (Cardinality(S) = Cardinality(T) => S = T)
  BY FS_Subset
<1>2. Cardinality(S) \in Nat /\ Cardinality(T) \in Nat
  BY <1>1, FS_CardinalityType
<1>3. Cardinality(S) # Cardinality(T)
  BY <1>1
<1> QED
  BY <1>1, <1>2, <1>3

(* Integers attached to the members of a finite set have a largest one.    *)
LEMMA LargestIsThere ==
  ASSUME NEW S, IsFiniteSet(S), S # {}, NEW f, \A x \in S : f[x] \in Int
  PROVE  \E x \in S : \A y \in S : f[y] <= f[x]
<1> DEFINE More(x) == {y \in S : f[y] > f[x]}
           C(x) == Cardinality(More(x))
           T == {C(x) : x \in S}
<1>1. \A x \in S : C(x) \in Nat /\ IsFiniteSet(More(x))
  BY FS_Subset, FS_CardinalityType
<1>2. T \in SUBSET Nat /\ T # {}
  BY <1>1
<1>3. PICK n \in T : \A m \in T : n <= m
  BY <1>2, LeastNatural
<1>4. PICK x \in S : n = C(x)
  BY <1>3
<1>5. SUFFICES ASSUME NEW y \in S, ~ (f[y] <= f[x]) PROVE FALSE
  OBVIOUS
<1>6. y \in More(x) \ More(y) /\ More(y) \subseteq More(x)
  BY <1>5
<1>7. IsFiniteSet(More(x))
  BY <1>1
<1>8. C(y) < C(x)
  <2> DEFINE A == More(x)  B == More(y)
  <2>1. IsFiniteSet(A) /\ B \in SUBSET A /\ y \in A \ B
    BY <1>6, <1>7
  <2> HIDE DEF A, B
  <2>2. Cardinality(B) < Cardinality(A)
    BY <2>1, SmallerPart
  <2> QED
    BY <2>2 DEF A, B
<1>9. C(y) \in T /\ C(y) \in Nat /\ C(x) \in Nat
  BY <1>1
<1>10. n <= C(y)
  BY <1>3, <1>9
<1> HIDE DEF C
<1> QED
  BY <1>4, <1>8, <1>9, <1>10

(* The keys are integers, and finitely many; Null is none of them.         *)
LEMMA KeysFinite ==
  IsFiniteSet(Keys) /\ Keys \subseteq Int /\ Null \notin Keys /\ Cardinality(Keys) \in Nat
BY RBTreeAssumption, FS_CardinalityType

-----------------------------------------------------------------------------
(* The shape of the tree, node by node.  lo and hi are the ends of the     *)
(* interval a node's subtree has its keys in, h the number of black nodes  *)
(* on every way down from it, itself included.  hole is the node that is   *)
(* to be freed (Null when none is): its key belongs nowhere, and its one   *)
(* child is on its left, and on its right.  hot is the node that is being  *)
(* attached: it weighs nothing, like a red node, and is not red yet.       *)

(* The structures the operators of RBTree are applied to.                  *)
Trees == [nodes : SUBSET Keys, up : [Keys -> Ptr], left : [Keys -> Ptr], right : [Keys -> Ptr],
          red : SUBSET Keys, redlink : SUBSET Keys, isroot : SUBSET Keys]

(* The labels of the nodes.                                                *)
Labels(lo, hi, h) == lo \in [Keys -> Int] /\ hi \in [Keys -> Int] /\ h \in [Keys -> Nat]

(* The children of a node, and the intervals they have their keys in.      *)
Placed(s, lo, hi, hole, n) ==
  /\ s.left[n] \in s.nodes \cup {Null} /\ s.right[n] \in s.nodes \cup {Null}
  /\ n = hole => s.right[n] = s.left[n] /\ s.left[n] # n
  /\ n # hole => lo[n] < n /\ n < hi[n]
  /\ s.left[n] # Null => /\ s.up[s.left[n]] = n /\ lo[s.left[n]] = lo[n]
                         /\ hi[s.left[n]] = IF n = hole THEN hi[n] ELSE n
  /\ s.right[n] # Null /\ n # hole => /\ s.up[s.right[n]] = n /\ lo[s.right[n]] = n
                                      /\ hi[s.right[n]] = hi[n]

(* The root hangs from nothing, every other node from a node it is a child *)
(* of.                                                                     *)
Hung(s, top, n) ==
  IF n = top THEN s.up[n] = Null
  ELSE s.up[n] \in s.nodes /\ (n = s.left[s.up[n]] \/ n = s.right[s.up[n]])

(* The number of black nodes on the way down from a child that may be      *)
(* missing.                                                                *)
Height(h, c) == IF c = Null THEN 0 ELSE h[c]

(* Both ways down from a node cross as many black nodes.                   *)
Weighed(s, h, hot, n) ==
  LET own == IF n \in s.red \/ n = hot THEN 0 ELSE 1
  IN h[n] = Height(h, s.left[n]) + own /\ h[n] = Height(h, s.right[n]) + own

(* Only a left child is red, its parent is black and has its red link.     *)
Coloured(s, n) ==
  /\ s.right[n] \notin s.red
  /\ s.left[n] \in s.red <=> n \in s.redlink
  /\ n \in s.red => s.left[n] \notin s.red

(* The rules of the tree, with a node to be freed and one that is being    *)
(* attached.                                                               *)
Sound(s, top, lo, hi, h, hole, hot) ==
  /\ top \in s.nodes \cup {Null} /\ (top = Null => s.nodes = {})
  /\ top # Null => top \notin s.red /\ top # hot /\ \A k \in Keys : lo[top] < k /\ k < hi[top]
  /\ \A n \in s.nodes : /\ Placed(s, lo, hi, hole, n) /\ Hung(s, top, n)
                        /\ Weighed(s, h, hot, n) /\ Coloured(s, n)

(* The part of it that is about order and links.                           *)
Tied(s, top, lo, hi, hole) ==
  /\ lo \in [Keys -> Int] /\ hi \in [Keys -> Int]
  /\ \A n \in s.nodes : Placed(s, lo, hi, hole, n) /\ Hung(s, top, n)

(* A set that holds the parents of its nodes, up to the root.              *)
ClosedUp(s, top, S) == \A n \in S : n = top \/ s.up[n] \in S

(* The way up from a node ends at the root: a set of nodes that holds the  *)
(* parent of each of its own holds the root.                               *)
LEMMA UpEndsAtTop ==
  ASSUME NEW s \in Trees, NEW top, NEW lo, NEW hi, NEW hole, Tied(s, top, lo, hi, hole),
         NEW S \in SUBSET s.nodes, S # {}, ClosedUp(s, top, S)
  PROVE  top \in S
<1> DEFINE f == [n \in Keys |-> 2 * (hi[n] - lo[n]) + (IF n = hole THEN 1 ELSE 0)]
<1>1. SUFFICES ASSUME top \notin S PROVE FALSE
  OBVIOUS
<1>2. S \in SUBSET Keys /\ s.nodes \in SUBSET Keys /\ IsFiniteSet(S) /\ Keys \subseteq Int
  BY KeysFinite, FS_Subset DEF Trees
<1>3. \A n \in S : f[n] \in Int
  BY <1>2 DEF Tied
<1>4. PICK x \in S : \A y \in S : f[y] <= f[x]
  <2> HIDE DEF f
  <2> QED
    BY <1>2, <1>3, LargestIsThere
<1> DEFINE u == s.up[x]
<1>5. u \in S /\ x # top
  BY <1>1, <1>4 DEF ClosedUp
<1>6. Placed(s, lo, hi, hole, u) /\ Placed(s, lo, hi, hole, x) /\ Hung(s, top, x)
  BY <1>5 DEF Tied
<1>7. x = s.left[u] \/ x = s.right[u]
  BY <1>5, <1>6 DEF Hung
<1>8. x \in Keys /\ u \in Keys /\ x \in Int /\ u \in Int /\ Null \notin Keys /\ x # Null
  BY <1>2, <1>5, KeysFinite
<1>9. /\ lo[x] \in Int /\ hi[x] \in Int /\ lo[u] \in Int /\ hi[u] \in Int
  BY <1>8 DEF Tied
<1>10. f[u] <= f[x]
  BY <1>4, <1>5
<1>11. f[u] = 2 * (hi[u] - lo[u]) + (IF u = hole THEN 1 ELSE 0)
  BY <1>8
<1>12. f[x] = 2 * (hi[x] - lo[x]) + (IF x = hole THEN 1 ELSE 0)
  BY <1>8
<1> HIDE DEF f
<1>13. CASE u = hole
  <2>1. x = s.left[u] /\ x # u
    BY <1>13, <1>6, <1>7 DEF Placed
  <2>2. lo[x] = lo[u] /\ hi[x] = hi[u] /\ x # hole
    BY <1>13, <1>6, <1>8, <2>1 DEF Placed
  <2> QED
    BY <1>13, <2>2, <1>9, <1>10, <1>11, <1>12
<1>14. CASE u # hole
  <2>1. lo[u] < u /\ u < hi[u]
    BY <1>14, <1>6 DEF Placed
  <2>2. \/ lo[x] = lo[u] /\ hi[x] = u
        \/ lo[x] = u /\ hi[x] = hi[u]
    <3> HIDE DEF u
    <3> QED
      BY <1>14, <1>6, <1>7, <1>8 DEF Placed
  <2> QED
    BY <1>14, <2>1, <2>2, <1>8, <1>9, <1>10, <1>11, <1>12
<1> QED
  BY <1>13, <1>14

-----------------------------------------------------------------------------
(* A part of the tree is exchanged for another.                            *)

(* A part D of the tree, hanging from p, is replaced by a part E, whose    *)
(* place in the tree is taken by q: by a node of E or one that hung from   *)
(* D, or by nothing.                                                       *)
Part(s, top, D, p) ==
  D \subseteq s.nodes /\ p \in D /\ \A d \in D : d # p => d # top /\ s.up[d] \in D

(* What is outside stays as it was, but for the pointer that led to p, and *)
(* what hung from D hangs from E.                                          *)
SameOutside(s, lo, hi, h, s2, lo2, hi2, h2, D, E, p, q) ==
  \A n \in s.nodes \ D :
    /\ s2.left[n] = (IF s.left[n] = p THEN q ELSE s.left[n])
    /\ s2.right[n] = (IF s.right[n] = p THEN q ELSE s.right[n])
    /\ lo2[n] = lo[n] /\ hi2[n] = hi[n] /\ h2[n] = h[n]
    /\ n \in s2.red <=> n \in s.red
    /\ n \in s2.redlink <=> n \in s.redlink
    /\ s.up[n] \notin D => s2.up[n] = s.up[n]
    /\ s.up[n] \in D =>
         n = q \/ (s2.up[n] \in E /\ (n = s2.left[s2.up[n]] \/ n = s2.right[s2.up[n]]))

(* To the node above, q looks like p did.                                  *)
SameAbove(s, top, lo, hi, h, s2, lo2, hi2, h2, p, q) ==
  /\ q # Null => s2.up[q] = s.up[p] /\ lo2[q] = lo[p] /\ hi2[q] = hi[p]
  /\ p # top => Height(h2, q) = h[p] /\ (q \in s2.red <=> p \in s.red)

(* What stands in E follows the rules.                                     *)
SoundInside(s2, lo2, hi2, h2, hole2, hot2, E, q) ==
  \A n \in E : /\ Placed(s2, lo2, hi2, hole2, n) /\ Weighed(s2, h2, hot2, n) /\ Coloured(s2, n)
               /\ \/ n = q
                  \/ s2.up[n] \in E /\ (n = s2.left[s2.up[n]] \/ n = s2.right[s2.up[n]])

(* D goes and E comes; neither the hole nor the hot node is outside.       *)
Exchange(s, top, hole, hot, s2, top2, hole2, hot2, D, E, p, q) ==
  /\ E \subseteq Keys /\ (s.nodes \ D) \cap E = {} /\ s2.nodes = (s.nodes \ D) \cup E
  /\ q \in s2.nodes \cup {Null} /\ top2 = (IF top = p THEN q ELSE top)
  /\ hole \notin s.nodes \ D /\ hot \notin s.nodes \ D
  /\ hole2 \notin s.nodes \ D /\ hot2 \notin s.nodes \ D

(* The tree with E in D's place follows the rules.                         *)
LEMMA Replaced ==
  ASSUME NEW s \in Trees, NEW top, NEW lo, NEW hi, NEW h, Labels(lo, hi, h), NEW hole, NEW hot,
         Sound(s, top, lo, hi, h, hole, hot),
         NEW s2 \in Trees, NEW top2, NEW lo2, NEW hi2, NEW h2, Labels(lo2, hi2, h2),
         NEW hole2, NEW hot2, NEW D, NEW E, NEW p, NEW q,
         Part(s, top, D, p), Exchange(s, top, hole, hot, s2, top2, hole2, hot2, D, E, p, q),
         SameOutside(s, lo, hi, h, s2, lo2, hi2, h2, D, E, p, q),
         SameAbove(s, top, lo, hi, h, s2, lo2, hi2, h2, p, q),
         SoundInside(s2, lo2, hi2, h2, hole2, hot2, E, q)
  PROVE  /\ \A n \in s2.nodes : /\ Placed(s2, lo2, hi2, hole2, n) /\ Hung(s2, top2, n)
                                /\ Weighed(s2, h2, hot2, n) /\ Coloured(s2, n)
         /\ top2 \in s2.nodes \cup {Null}
         /\ p # top \/ (q # Null /\ q \notin s2.red /\ q # hot2) =>
              Sound(s2, top2, lo2, hi2, h2, hole2, hot2)
<1> USE DEF Part, Exchange, SameOutside, SameAbove, SoundInside
<1> DEFINE O == s.nodes \ D
<1>1. /\ Null \notin Keys /\ s.nodes \in SUBSET Keys /\ s2.nodes \in SUBSET Keys
      /\ O \subseteq s.nodes /\ p \in s.nodes /\ p # Null
  BY KeysFinite DEF Trees
<1>2. \A n \in s.nodes : Placed(s, lo, hi, hole, n) /\ Hung(s, top, n) /\ Weighed(s, h, hot, n)
        /\ Coloured(s, n)
  BY DEF Sound
<1>3. p # top => s.up[p] \in O
  <2>1. SUFFICES ASSUME p # top, s.up[p] \in D PROVE FALSE
    <3>1. p # top => s.up[p] \in s.nodes
      BY <1>1, <1>2 DEF Hung
    <3> QED
      BY <3>1
  <2>2. \A n \in D : n # top /\ s.up[n] \in D
    BY <2>1
  <2>3. Tied(s, top, lo, hi, hole)
    BY <1>2 DEF Tied, Labels
  <2>4. ClosedUp(s, top, D) /\ D # {}
    BY <2>2 DEF ClosedUp
  <2>5. top \in D
    BY <2>3, <2>4, UpEndsAtTop
  <2> QED
    BY <2>2, <2>5
<1>4. ASSUME NEW n \in O, NEW c \in s.nodes, c = s.left[n] \/ c = s.right[n]
      PROVE  s.up[c] = n /\ (c = p \/ c \in O)
  <2>1. s.up[c] = n
    BY <1>1, <1>2, <1>4 DEF Placed
  <2> QED
    BY <2>1, <1>4
<1>5. \A n \in O : n \notin {hole, hot, hole2, hot2}
  OBVIOUS
<1>5a. \A n \in O : (s.left[n] = p \/ s.right[n] = p) => s.up[p] = n
  BY <1>1, <1>4
<1>6. ASSUME NEW n \in O PROVE Placed(s2, lo2, hi2, hole2, n)
  <2> DEFINE l == s.left[n]  r == s.right[n]
  <2>1. /\ l \in s.nodes \cup {Null} /\ r \in s.nodes \cup {Null} /\ lo[n] < n /\ n < hi[n]
        /\ l # Null => s.up[l] = n /\ lo[l] = lo[n] /\ hi[l] = n
        /\ r # Null => s.up[r] = n /\ lo[r] = n /\ hi[r] = hi[n]
    BY <1>1, <1>2, <1>5, <1>6 DEF Placed
  <2>2. /\ s2.left[n] = (IF l = p THEN q ELSE l) /\ s2.right[n] = (IF r = p THEN q ELSE r)
        /\ lo2[n] = lo[n] /\ hi2[n] = hi[n]
    BY <1>6
  <2>3. ASSUME NEW c \in s.nodes, c = l \/ c = r, c # p
        PROVE  s2.up[c] = n /\ lo2[c] = lo[c] /\ hi2[c] = hi[c] /\ c \in s2.nodes
    <3>1. c \in O /\ s.up[c] = n
      BY <1>4, <2>3
    <3>2. c # top
      <4>1. c = top => \A k \in Keys : lo[c] < k /\ k < hi[c]
        BY <1>1, <2>3 DEF Sound
      <4>2. n \in Keys /\ n \in Int /\ c # Null
        BY <2>3, <1>1, <1>6, KeysFinite
      <4>3. lo[c] = n \/ hi[c] = n
        BY <2>1, <2>3, <4>2
      <4> QED
        BY <4>1, <4>2, <4>3
    <3>3. s.up[c] \notin D
      BY <3>1
    <3> QED
      BY <3>1, <3>2, <3>3
  <2>4. ASSUME l = p \/ r = p
        PROVE  p # top /\ (q # Null => s2.up[q] = n /\ lo2[q] = lo[p] /\ hi2[q] = hi[p])
    <3>1. p # top
      <4>1. p = top => \A k \in Keys : lo[p] < k /\ k < hi[p]
        BY <1>1 DEF Sound
      <4>2. n \in Keys /\ (lo[p] = n \/ hi[p] = n) /\ n \in Int
        BY <2>1, <2>4, <1>1, <1>6, KeysFinite
      <4> QED
        BY <4>1, <4>2
    <3> QED
      BY <3>1, <1>5a, <2>4
  <2>5. s2.left[n] # Null => s2.up[s2.left[n]] = n /\ lo2[s2.left[n]] = lo2[n]
          /\ hi2[s2.left[n]] = n
    BY <2>1, <2>2, <2>3, <2>4, <1>1
  <2>6. s2.right[n] # Null => s2.up[s2.right[n]] = n /\ lo2[s2.right[n]] = n
          /\ hi2[s2.right[n]] = hi2[n]
    BY <2>1, <2>2, <2>3, <2>4, <1>1
  <2>7. s2.left[n] \in s2.nodes \cup {Null} /\ s2.right[n] \in s2.nodes \cup {Null}
    BY <2>1, <2>2, <2>3
  <2>8. n # hole2
    BY <1>5
  <2> QED
    BY <2>1, <2>2, <2>5, <2>6, <2>7, <2>8 DEF Placed
<1>7. \A n \in O : n # top /\ s.up[n] \notin D => s.up[n] \in O
  BY <1>1, <1>2 DEF Hung
<1>8. p # top => (q = s2.left[s.up[p]] \/ q = s2.right[s.up[p]])
  <2>1. p # top => p = s.left[s.up[p]] \/ p = s.right[s.up[p]]
    BY <1>1, <1>2 DEF Hung
  <2> QED
    BY <2>1, <1>3
<1>9. ASSUME NEW n \in s2.nodes, n = q PROVE Hung(s2, top2, n)
  <2>1. s2.up[n] = s.up[p] /\ q # Null
    BY <1>1, <1>9
  <2>2. CASE p = top
    <3>1. s.up[p] = Null
      BY <1>1, <1>2, <2>2 DEF Hung
    <3> QED
      BY <2>1, <2>2, <3>1, <1>9 DEF Hung
  <2>3. CASE p # top
    <3>1. top \in O /\ s.up[top] = Null /\ top2 = top /\ Null \notin D
      <4>1. top \in s.nodes /\ top \notin D
        BY <2>3, <1>1 DEF Sound
      <4> QED
        BY <4>1, <2>3, <1>1, <1>2 DEF Hung
    <3>2. s2.up[top] = Null
      BY <3>1
    <3>3. n # top2
      BY <2>1, <2>3, <3>1, <3>2, <1>1, <1>3, <1>9
    <3> QED
      BY <2>1, <2>3, <3>3, <1>3, <1>8, <1>9 DEF Hung
  <2> QED
    BY <2>2, <2>3
<1>10. ASSUME NEW n \in O, n # q PROVE Hung(s2, top2, n)
  <2>1. CASE n = top
    <3>1. s.up[n] = Null /\ Null \notin D /\ top2 = top
      BY <2>1, <1>1, <1>2 DEF Hung
    <3> QED
      BY <2>1, <3>1 DEF Hung
  <2>2. CASE n # top /\ s.up[n] \in D
    <3>1. n # top2
      BY <2>2, <1>10
    <3> QED
      BY <2>2, <3>1, <1>10 DEF Hung
  <2>3. CASE n # top /\ s.up[n] \notin D
    <3>1. s2.up[n] = s.up[n] /\ s.up[n] \in O /\ n # top2
      BY <2>3, <1>7, <1>10
    <3>2. n = s.left[s.up[n]] \/ n = s.right[s.up[n]]
      BY <1>1, <1>2, <2>3 DEF Hung
    <3>3. n # p
      OBVIOUS
    <3>4. n = s2.left[s.up[n]] \/ n = s2.right[s.up[n]]
      BY <3>1, <3>2, <3>3
    <3> QED
      BY <3>1, <3>4 DEF Hung
  <2> QED
    BY <2>1, <2>2, <2>3
<1>11. \A n \in s2.nodes : Hung(s2, top2, n)
  <2> TAKE n \in s2.nodes
  <2>1. CASE n \in O /\ n # q
    BY <2>1, <1>10
  <2>2. CASE n = q
    BY <2>2, <1>9
  <2>3. CASE n \in E /\ n # q
    <3>1. s2.up[n] \in E /\ (n = s2.left[s2.up[n]] \/ n = s2.right[s2.up[n]])
      BY <2>3
    <3>2. n # top2
      <4>1. top = p \/ top \in O
        BY <1>1 DEF Sound
      <4> QED
        BY <4>1, <2>3
    <3> QED
      BY <3>1, <3>2 DEF Hung
  <2> QED
    BY <2>1, <2>2, <2>3
<1>12. ASSUME NEW n \in O, NEW c, c = s.left[n] \/ c = s.right[n],
              NEW d, d = IF c = p THEN q ELSE c
       PROVE  Height(h2, d) = Height(h, c) /\ (d \in s2.red <=> c \in s.red)
  <2>1. CASE c = p
    <3>1. p # top
      <4>1. p = top => \A k \in Keys : lo[p] < k /\ k < hi[p]
        BY <1>1 DEF Sound
      <4>2. n \in Keys /\ n \in Int /\ Placed(s, lo, hi, hole, n) /\ n # hole
        BY <1>1, <1>2, <1>5, <1>12, KeysFinite
      <4>3. lo[p] = n \/ hi[p] = n
        BY <2>1, <4>2, <1>1, <1>12 DEF Placed
      <4> QED
        BY <4>1, <4>2, <4>3
    <3> QED
      BY <2>1, <3>1, <1>1, <1>12 DEF Height
  <2>2. CASE c = Null
    <3>1. d = Null /\ Null \notin s.red /\ Null \notin s2.red
      BY <2>2, <1>1, <1>12, KeysFinite DEF Trees
    <3> QED
      BY <3>1, <2>2 DEF Height
  <2>3. CASE c # p /\ c # Null
    <3>1. c \in s.nodes
      BY <2>3, <1>1, <1>2, <1>12 DEF Placed
    <3>2. c \in O /\ d = c
      BY <2>3, <3>1, <1>4, <1>12
    <3> QED
      BY <3>2 DEF Height
  <2> QED
    BY <2>1, <2>2, <2>3
<1>13. ASSUME NEW n \in O PROVE Weighed(s2, h2, hot2, n) /\ Coloured(s2, n)
  <2> DEFINE l == s.left[n]  r == s.right[n]  l2 == s2.left[n]  r2 == s2.right[n]
  <2>1. l2 = (IF l = p THEN q ELSE l) /\ r2 = (IF r = p THEN q ELSE r)
    OBVIOUS
  <2>2. Height(h2, l2) = Height(h, l) /\ Height(h2, r2) = Height(h, r)
    BY <1>12, <2>1
  <2>3. (l2 \in s2.red <=> l \in s.red) /\ (r2 \in s2.red <=> r \in s.red)
    BY <1>12, <2>1
  <2>4. h2[n] = h[n] /\ (n \in s2.red <=> n \in s.red) /\ (n \in s2.redlink <=> n \in s.redlink)
        /\ n # hot /\ n # hot2
    BY <1>5
  <2>5. Weighed(s, h, hot, n) /\ Coloured(s, n)
    BY <1>1, <1>2
  <2>6. Weighed(s2, h2, hot2, n)
    BY <2>2, <2>4, <2>5 DEF Weighed
  <2>7. Coloured(s2, n)
    BY <2>3, <2>4, <2>5 DEF Coloured
  <2> QED
    BY <2>6, <2>7
<1>14. \A n \in s2.nodes : Placed(s2, lo2, hi2, hole2, n) /\ Weighed(s2, h2, hot2, n)
         /\ Coloured(s2, n)
  BY <1>6, <1>13
<1>15. top2 \in s2.nodes \cup {Null}
  <2>1. top # p => top \notin D
    OBVIOUS
  <2>2. top \in s.nodes
    BY <1>1 DEF Sound
  <2> QED
    BY <2>1, <2>2
<1>16. ASSUME p # top PROVE Sound(s2, top2, lo2, hi2, h2, hole2, hot2)
  <2>1. top \in O /\ top2 = top /\ top # Null
    BY <1>16, <1>1 DEF Sound
  <2>2. top \notin s2.red /\ top # hot2 /\ \A k \in Keys : lo2[top] < k /\ k < hi2[top]
    BY <2>1, <1>5 DEF Sound
  <2> QED
    BY <1>11, <1>14, <1>15, <2>1, <2>2, KeysFinite DEF Sound
<1>17. ASSUME p = top, q # Null, q \notin s2.red, q # hot2
       PROVE  Sound(s2, top2, lo2, hi2, h2, hole2, hot2)
  <2>1. top2 = q /\ q \in s2.nodes
    BY <1>17
  <2>2. \A k \in Keys : lo2[q] < k /\ k < hi2[q]
    BY <1>17, <1>1 DEF Sound
  <2> QED
    BY <1>11, <1>14, <1>17, <2>1, <2>2 DEF Sound
<1> QED
  BY <1>11, <1>14, <1>15, <1>16, <1>17

(* The same, where the new root is asked for too.                          *)
LEMMA ReplacedSound ==
  ASSUME NEW s, NEW top, NEW lo, NEW hi, NEW h, s \in Trees, Labels(lo, hi, h), NEW hole,
         NEW hot,
         Sound(s, top, lo, hi, h, hole, hot),
         NEW s2, NEW top2, NEW lo2, NEW hi2, NEW h2, s2 \in Trees, Labels(lo2, hi2, h2),
         NEW hole2, NEW hot2, NEW D, NEW E, NEW p, NEW q,
         Part(s, top, D, p), Exchange(s, top, hole, hot, s2, top2, hole2, hot2, D, E, p, q),
         SameOutside(s, lo, hi, h, s2, lo2, hi2, h2, D, E, p, q),
         SameAbove(s, top, lo, hi, h, s2, lo2, hi2, h2, p, q),
         SoundInside(s2, lo2, hi2, h2, hole2, hot2, E, q),
         p # top \/ (q # Null /\ q \notin s2.red /\ q # hot2)
  PROVE  Sound(s2, top2, lo2, hi2, h2, hole2, hot2)
BY Replaced

(* What Sound says of a node, its parts unfolded as far as the cases below *)
(* need them.                                                              *)
LEMMA SoundNode ==
  ASSUME NEW s, NEW top, NEW lo, NEW hi, NEW h, NEW hole, NEW hot,
         s \in Trees, Labels(lo, hi, h), Sound(s, top, lo, hi, h, hole, hot), NEW n,
              n \in s.nodes
  PROVE  /\ n \in Keys /\ n \in Int /\ n # Null /\ lo[n] \in Int /\ hi[n] \in Int
            /\ h[n] \in Nat
         /\ Placed(s, lo, hi, hole, n) /\ Hung(s, top, n) /\ Weighed(s, h, hot, n)
            /\ Coloured(s, n)
         /\ s.left[n] # Null => s.left[n] \in s.nodes /\ s.left[n] # n
         /\ s.right[n] # Null => s.right[n] \in s.nodes /\ s.right[n] # n
         /\ n # hole /\ s.left[n] # Null => s.left[n] # s.right[n]
         /\ n = top \/ s.up[n] \in s.nodes
         /\ n = top <=> s.up[n] = Null
<1>1. n \in Keys /\ n \in Int /\ n # Null /\ Null \notin s.nodes
  BY KeysFinite DEF Trees
<1>2. lo[n] \in Int /\ hi[n] \in Int /\ h[n] \in Nat
  BY <1>1 DEF Labels
<1>3. Placed(s, lo, hi, hole, n) /\ Hung(s, top, n) /\ Weighed(s, h, hot, n) /\ Coloured(s, n)
  BY DEF Sound
<1>4. s.left[n] # Null => s.left[n] \in s.nodes /\ s.left[n] # n
  BY <1>1, <1>2, <1>3 DEF Placed
<1>5. s.right[n] # Null => s.right[n] \in s.nodes /\ s.right[n] # n
  BY <1>1, <1>2, <1>3 DEF Placed
<1>6. n # hole /\ s.left[n] # Null => s.left[n] # s.right[n]
  BY <1>1, <1>2, <1>3 DEF Placed
<1> QED
  BY <1>1, <1>2, <1>3, <1>4, <1>5, <1>6 DEF Hung

(* A node hangs from its parent.                                           *)
LEMMA SoundUp ==
  ASSUME NEW s, NEW top, NEW lo, NEW hi, NEW h, NEW hole, NEW hot,
         s \in Trees, Labels(lo, hi, h), Sound(s, top, lo, hi, h, hole, hot), NEW n,
              n \in s.nodes,
         NEW u, s.up[n] = u, u # Null
  PROVE  u \in s.nodes /\ (n = s.left[u] \/ n = s.right[u])
BY SoundNode DEF Hung

-----------------------------------------------------------------------------
(* The rotations: a part before, a part after, and the rules hold again.   *)

(* The part D, of top p, is turned into the part E of top q: seen from the *)
(* rest of the tree.                                                       *)
Turned(s, r, D, p, q) ==
  \A x \in s.nodes \ D :
    /\ r.left[x] = (IF s.left[x] = p THEN q ELSE s.left[x])
    /\ r.right[x] = (IF s.right[x] = p THEN q ELSE s.right[x])
    /\ x \in r.red <=> x \in s.red
    /\ x \in r.redlink <=> x \in s.redlink
    /\ s.up[x] \notin D => r.up[x] = s.up[x]

(* A height is a number.                                                   *)
LEMMA HeightIs ==
  ASSUME NEW lo, NEW hi, NEW h, Labels(lo, hi, h), NEW c, c \in Keys \/ c = Null
  PROVE  Height(h, c) \in Nat
BY DEF Labels, Height

(* A right child n to be joined to p, which has no red child.              *)
JoinRight(s, p, n) ==
  /\ p \in s.nodes /\ n \in s.nodes /\ s.right[p] = n /\ p \notin s.red /\ p \notin s.redlink
  /\ n \notin s.red /\ n \notin s.redlink

(* n in the place of p, with p as its red left child.                      *)
JoinedRight(s, r, p, n) ==
  /\ r \in Trees /\ r.nodes = s.nodes
  /\ Turned(s, r, {p, n}, p, n)
  /\ p \in r.red /\ p \notin r.redlink /\ n \notin r.red
  /\ n \in r.redlink
  /\ r.left[p] = s.left[p] /\ r.right[p] = s.left[n]
  /\ r.left[n] = p /\ r.right[n] = s.right[n]
  /\ r.up[n] = s.up[p] /\ r.up[p] = n
  /\ s.left[p] # Null => r.up[s.left[p]] = p
  /\ s.left[n] # Null => r.up[s.left[n]] = p
  /\ s.right[n] # Null => r.up[s.right[n]] = n

(* The nodes that hang from the part, and the intervals of all of them.    *)
JoinRightAround(s, top, lo, hi, h, p, n) ==
  LET D == {p, n}
      a == s.left[p]
      b == s.left[n]
      c == s.right[n]
  IN  /\ p \in Keys /\ p \in Int /\ p # Null /\ lo[p] \in Int /\ hi[p] \in Int /\ h[p] \in Nat
      /\ n \in Keys /\ n \in Int /\ n # Null /\ lo[n] \in Int /\ hi[n] \in Int /\ h[n] \in Nat
      /\ Null \notin Keys /\ s.nodes \subseteq Keys /\ Null \notin s.nodes /\ Null \notin s.red
      /\ lo[p] < p /\ p < hi[p]
      /\ lo[n] = p /\ hi[n] = hi[p] /\ p < n /\ n < hi[p] /\ s.up[n] = p
      /\ p # n /\ n # top
      /\ a \in s.nodes \cup {Null}
         /\ (a # Null => a \in s.nodes \ D /\ a \in Keys /\ s.up[a] = p /\ lo[a] = lo[p]
            /\ hi[a] = p)
      /\ b \in s.nodes \cup {Null}
         /\ (b # Null => b \in s.nodes \ D /\ b \in Keys /\ s.up[b] = n /\ lo[b] = p
            /\ hi[b] = n)
      /\ c \in s.nodes \cup {Null}
         /\ (c # Null => c \in s.nodes \ D /\ c \in Keys /\ s.up[c] = n /\ lo[c] = n
            /\ hi[c] = hi[p])
      /\ s.up[p] \notin D /\ (b # Null => b # c)

(* They are nodes of their own.                                            *)
LEMMA JoinRightApart ==
  ASSUME NEW s, NEW top, NEW lo, NEW hi, NEW h, s \in Trees, Labels(lo, hi, h),
         NEW p, NEW n, Sound(s, top, lo, hi, h, Null, n), JoinRight(s, p, n)
  PROVE  JoinRightAround(s, top, lo, hi, h, p, n)
<1> DEFINE D == {p, n}
           a == s.left[p]
           b == s.left[n]
           c == s.right[n]
<1>1. /\ p \in Keys /\ p \in Int /\ p # Null /\ lo[p] \in Int /\ hi[p] \in Int /\ h[p] \in Nat
      /\ n \in Keys /\ n \in Int /\ n # Null /\ lo[n] \in Int /\ hi[n] \in Int /\ h[n] \in Nat
      /\ Null \notin Keys /\ s.nodes \subseteq Keys /\ Null \notin s.nodes /\ Null \notin s.red
  BY SoundNode, KeysFinite DEF Trees, JoinRight
<1>2. /\ Placed(s, lo, hi, Null, p) /\ Hung(s, top, p) /\ Weighed(s, h, n, p) /\ Coloured(s, p)
      /\ Placed(s, lo, hi, Null, n) /\ Hung(s, top, n) /\ Weighed(s, h, n, n) /\ Coloured(s, n)
  BY SoundNode DEF JoinRight
<1>3. /\ lo[p] < p /\ p < hi[p]
      /\ lo[n] = p /\ hi[n] = hi[p] /\ p < n /\ n < hi[p] /\ s.up[n] = p
  <2>1. lo[p] < p /\ p < hi[p]
    BY <1>1, <1>2 DEF Placed, JoinRight
  <2>2. p < n /\ n < hi[p] /\ lo[n] = p /\ hi[n] = hi[p] /\ s.up[n] = p
    BY <1>1, <1>2, <2>1 DEF Placed, JoinRight
  <2> QED
    BY <2>1, <2>2
<1>4. /\ p # n /\ n # top
  <2>1. /\ p # n
    BY <1>1, <1>2, <1>3 DEF Placed, JoinRight
  <2>2. n # top
    BY <1>1, <1>2, <1>3 DEF Hung, JoinRight
  <2> QED
    BY <2>1, <2>2
<1>5. /\ a \in s.nodes \cup {Null}
         /\ (a # Null => a \in s.nodes \ D /\ a \in Keys /\ s.up[a] = p /\ lo[a] = lo[p]
            /\ hi[a] = p)
      /\ b \in s.nodes \cup {Null}
         /\ (b # Null => b \in s.nodes \ D /\ b \in Keys /\ s.up[b] = n /\ lo[b] = p
            /\ hi[b] = n)
      /\ c \in s.nodes \cup {Null}
         /\ (c # Null => c \in s.nodes \ D /\ c \in Keys /\ s.up[c] = n /\ lo[c] = n
            /\ hi[c] = hi[p])
  <2>1. a \in s.nodes \cup {Null} /\ (a # Null => s.up[a] = p /\ lo[a] = lo[p] /\ hi[a] = p)
    BY <1>1, <1>2, <1>3 DEF Placed, JoinRight
  <2>1a. a # Null => a \notin D
    BY <1>1, <1>3, <1>4, <2>1, <1>2 DEF Hung, JoinRight
  <2>2. b \in s.nodes \cup {Null} /\ (b # Null => s.up[b] = n /\ lo[b] = p /\ hi[b] = n)
    BY <1>1, <1>2, <1>3 DEF Placed, JoinRight
  <2>2a. b # Null => b \notin D
    BY <1>1, <1>3, <1>4, <2>2, <1>2 DEF Hung, JoinRight
  <2>3. c \in s.nodes \cup {Null} /\ (c # Null => s.up[c] = n /\ lo[c] = n /\ hi[c] = hi[p])
    BY <1>1, <1>2, <1>3 DEF Placed, JoinRight
  <2>3a. c # Null => c \notin D
    BY <1>1, <1>3, <1>4, <2>3, <1>2 DEF Hung, JoinRight
  <2> QED
    BY <1>1, <2>1, <2>1a, <2>2, <2>2a, <2>3, <2>3a
<1>6. /\ s.up[p] \notin D /\ (b # Null => b # c)
  <2>1. s.up[p] \notin D
    <3>1. s.up[p] = Null \/ p \in {s.left[s.up[p]], s.right[s.up[p]]}
      BY <1>1, <1>2 DEF Hung, JoinRight
    <3>2. \A x \in D : p # s.left[x] /\ p # s.right[x] /\ x # Null
      BY <1>1, <1>2, <1>4, <1>5 DEF Placed, JoinRight, JoinRight
    <3> QED
      BY <3>1, <3>2
  <2>2. b # Null => b # c
    BY <1>1, <1>3, <1>5
  <2> QED
    BY <2>1, <2>2
<1> QED
  BY <1>1, <1>3, <1>4, <1>5, <1>6 DEF JoinRightAround

(* The rules hold again once the part is replaced.                         *)
LEMMA JoinedRightSound ==
  ASSUME NEW s, NEW top, NEW lo, NEW hi, NEW h, s \in Trees, Labels(lo, hi, h),
         NEW p, NEW n, Sound(s, top, lo, hi, h, Null, n), JoinRight(s, p, n),
         NEW r, JoinedRight(s, r, p, n)
  PROVE  \E lo2, hi2, h2 : /\ Labels(lo2, hi2, h2)
                           /\ Sound(r, IF top = p THEN n ELSE top, lo2, hi2, h2, Null, Null)
                           /\ Height(h2, IF top = p THEN n ELSE top) = Height(h, top)
<1> DEFINE D == {p, n}
           top2 == IF top = p THEN n ELSE top
           a == s.left[p]
           b == s.left[n]
           c == s.right[n]
           B == h[n]
           lo2 == [lo EXCEPT ![n] = lo[p]]
           hi2 == [hi EXCEPT ![p] = n]
           h2 == [h EXCEPT ![p] = B, ![n] = B + 1]
<1>a. JoinRightAround(s, top, lo, hi, h, p, n)
  BY JoinRightApart
<1>1. /\ p \in Keys /\ p \in Int /\ p # Null /\ lo[p] \in Int /\ hi[p] \in Int /\ h[p] \in Nat
      /\ n \in Keys /\ n \in Int /\ n # Null /\ lo[n] \in Int /\ hi[n] \in Int /\ h[n] \in Nat
      /\ Null \notin Keys /\ s.nodes \subseteq Keys /\ Null \notin s.nodes /\ Null \notin s.red
  BY <1>a DEF JoinRightAround
<1>3. /\ lo[p] < p /\ p < hi[p]
      /\ lo[n] = p /\ hi[n] = hi[p] /\ p < n /\ n < hi[p] /\ s.up[n] = p
  BY <1>a DEF JoinRightAround
<1>4. /\ p # n /\ n # top
  BY <1>a DEF JoinRightAround
<1>5. /\ a \in s.nodes \cup {Null}
         /\ (a # Null => a \in s.nodes \ D /\ a \in Keys /\ s.up[a] = p /\ lo[a] = lo[p]
            /\ hi[a] = p)
      /\ b \in s.nodes \cup {Null}
         /\ (b # Null => b \in s.nodes \ D /\ b \in Keys /\ s.up[b] = n /\ lo[b] = p
            /\ hi[b] = n)
      /\ c \in s.nodes \cup {Null}
         /\ (c # Null => c \in s.nodes \ D /\ c \in Keys /\ s.up[c] = n /\ lo[c] = n
            /\ hi[c] = hi[p])
  BY <1>a DEF JoinRightAround
<1>2. /\ Placed(s, lo, hi, Null, p) /\ Hung(s, top, p) /\ Weighed(s, h, n, p) /\ Coloured(s, p)
      /\ Placed(s, lo, hi, Null, n) /\ Hung(s, top, n) /\ Weighed(s, h, n, n) /\ Coloured(s, n)
  BY SoundNode DEF JoinRight
<1>0. /\ p \in s.nodes /\ n \in s.nodes /\ s.right[p] = n /\ p \notin s.red
         /\ p \notin s.redlink
      /\ n \notin s.red /\ n \notin s.redlink
  BY DEF JoinRight
<1>6. /\ h[p] = B + 1 /\ h[n] = B /\ Height(h, a) = B /\ Height(h, b) = B
      /\ Height(h, c) = B /\ B \in Nat
  <2>1. Height(h, a) \in Nat /\ Height(h, b) \in Nat /\ Height(h, c) \in Nat
    BY <1>1, <1>5, HeightIs
  <2>2. Height(h, p) = h[p] /\ Height(h, n) = h[n]
    BY <1>1 DEF Height
  <2>3. h[p] = Height(h, a) + 1 /\ h[p] = h[n] + 1
    BY <1>0, <1>1, <1>2, <1>4, <2>2 DEF Weighed
  <2>4. h[n] = Height(h, b) + 0 /\ h[n] = Height(h, c) + 0
    BY <1>0, <1>1, <1>2, <1>4, <2>2 DEF Weighed
  <2>5. h[p] \in Nat /\ h[n] \in Nat
    BY <1>1
  <2> HIDE DEF a, b, c
  <2> QED
    BY <2>1, <2>3, <2>4, <2>5
<1>7. /\ n \notin s.red
      /\ (a \in s.red <=> p \in s.redlink) /\ (p \in s.red => a \notin s.red)
      /\ c \notin s.red
      /\ (b \in s.red <=> n \in s.redlink) /\ (n \in s.red => b \notin s.red)
  BY <1>0, <1>1, <1>2 DEF Coloured
<1>8. Labels(lo2, hi2, h2)
  BY <1>1, <1>6 DEF Labels
<1>9. /\ \A x \in Keys : (x # n => lo2[x] = lo[x]) /\ (x # p => hi2[x] = hi[x])
         /\ (x # p /\ x # n => h2[x] = h[x])
      /\ lo2[n] = lo[p] /\ hi2[p] = n /\ h2[p] = B /\ h2[n] = B + 1
  <2> HIDE DEF B
  <2> QED
    BY <1>1, <1>4 DEF Labels
<1> HIDE DEF lo2, hi2, h2, B
<1>10. /\ lo2[p] = lo[p] /\ hi2[p] = n /\ h2[p] = B
       /\ lo2[n] = lo[p] /\ hi2[n] = hi[p] /\ h2[n] = B + 1
  BY <1>1, <1>3, <1>4, <1>6, <1>9
<1>11. /\ a # Null => lo2[a] = lo[p] /\ hi2[a] = p
       /\ b # Null => lo2[b] = p /\ hi2[b] = n
       /\ c # Null => lo2[c] = n /\ hi2[c] = hi[p]
       /\ Height(h2, a) = B
       /\ Height(h2, b) = B
       /\ Height(h2, c) = B
  <2>1. (a # Null => a # p /\ a # n) /\ (b # Null => b # p /\ b # n)
          /\ (c # Null => c # p /\ c # n)
    BY <1>1, <1>5
  <2> HIDE DEF a, b, c
  <2>2. (a # Null => lo2[a] = lo[a] /\ hi2[a] = hi[a] /\ h2[a] = h[a])
          /\ (b # Null => lo2[b] = lo[b] /\ hi2[b] = hi[b] /\ h2[b] = h[b])
             /\ (c # Null => lo2[c] = lo[c] /\ hi2[c] = hi[c] /\ h2[c] = h[c])
    BY <1>5, <1>9, <2>1
  <2> QED
    BY <1>5, <1>6, <2>2 DEF Height
<1>12. Part(s, top, D, p)
  BY <1>0, <1>3, <1>4 DEF Part
<1>13. /\ r \in Trees /\ r.nodes = s.nodes /\ Turned(s, r, D, p, n)
       /\ p \in r.red /\ p \notin r.redlink /\ n \notin r.red
       /\ n \in r.redlink
       /\ r.left[p] = a /\ r.right[p] = b
       /\ r.left[n] = p /\ r.right[n] = c
       /\ r.up[n] = s.up[p] /\ r.up[p] = n
       /\ a # Null => r.up[a] = p
       /\ b # Null => r.up[b] = p
       /\ c # Null => r.up[c] = n
  BY DEF JoinedRight
<1>14. SameOutside(s, lo, hi, h, r, lo2, hi2, h2, D, D, p, n)
  <2> SUFFICES ASSUME NEW x \in s.nodes \ D
               PROVE  /\ lo2[x] = lo[x] /\ hi2[x] = hi[x] /\ h2[x] = h[x]
                      /\ s.up[x] \in D => r.up[x] \in D
                         /\ (x = r.left[r.up[x]] \/ x = r.right[r.up[x]])
    BY <1>13 DEF Turned, SameOutside
  <2>1. x \in Keys /\ x # Null /\ x # p /\ x # n
    BY <1>1
  <2>2. s.up[x] \in D => x \in {a, b, c}
    <3> SUFFICES ASSUME s.up[x] \in D PROVE x = s.left[s.up[x]] \/ x = s.right[s.up[x]]
      BY <1>0, <1>1, <2>1
    <3> QED
      BY <1>0, <1>1, SoundUp
  <2>3. (x = a => r.up[x] \in D /\ (x = r.left[r.up[x]] \/ x = r.right[r.up[x]]))
          /\ (x = b => r.up[x] \in D /\ (x = r.left[r.up[x]] \/ x = r.right[r.up[x]]))
             /\ (x = c => r.up[x] \in D /\ (x = r.left[r.up[x]] \/ x = r.right[r.up[x]]))
    BY <2>1, <1>13
  <2> QED
    BY <1>9, <2>1, <2>2, <2>3
<1>15. SameAbove(s, top, lo, hi, h, r, lo2, hi2, h2, p, n)
  BY <1>0, <1>1, <1>6, <1>7, <1>10, <1>13 DEF SameAbove, Height
<1>16. Exchange(s, top, Null, n, r, top2, Null, Null, D, D, p, n)
  BY <1>0, <1>1, <1>4, <1>13 DEF Exchange
<1>17. SoundInside(r, lo2, hi2, h2, Null, Null, D, n)
  <2>1. (a \in r.red <=> a \in s.red) /\ (b \in r.red <=> b \in s.red)
          /\ (c \in r.red <=> c \in s.red) /\ Null \notin r.red
    <3>1. \A x \in s.nodes \ D : x \in r.red <=> x \in s.red
      BY <1>13 DEF Turned
    <3>2. Null \notin r.red
      BY <1>1, <1>13 DEF Trees
    <3> HIDE DEF a, b, c
    <3> QED
      BY <1>1, <1>5, <3>1, <3>2
  <2>2. Height(h2, p) = h2[p] /\ Height(h2, n) = h2[n]
    BY <1>1 DEF Height
  <2>3. a \in r.nodes \cup {Null} /\ b \in r.nodes \cup {Null} /\ c \in r.nodes \cup {Null}
    BY <1>5, <1>13
  <2> HIDE DEF a, b, c, D
  <2>4. Placed(r, lo2, hi2, Null, p) /\ Weighed(r, h2, Null, p) /\ Coloured(r, p)
    <3>1. Placed(r, lo2, hi2, Null, p)
      BY <1>0, <1>1, <1>3, <1>4, <1>10, <1>11, <1>13, <2>3 DEF Placed
    <3>2. Weighed(r, h2, Null, p)
      <4>1. Height(h2, a) = B /\ Height(h2, b) = B /\ h2[p] = B /\ r.left[p] = a
              /\ r.right[p] = b
        BY <1>10, <1>11, <2>2, <1>13
      <4>2. p \in r.red /\ B \in Nat
        BY <1>6, <1>13
      <4> QED
        BY <4>1, <4>2 DEF Weighed
    <3>3. Coloured(r, p)
      BY <1>0, <1>7, <1>13, <2>1 DEF Coloured
    <3> QED
      BY <3>1, <3>2, <3>3
  <2>5. Placed(r, lo2, hi2, Null, n) /\ Weighed(r, h2, Null, n) /\ Coloured(r, n)
    <3>1. Placed(r, lo2, hi2, Null, n)
      BY <1>0, <1>1, <1>3, <1>4, <1>10, <1>11, <1>13, <2>3 DEF Placed
    <3>2. Weighed(r, h2, Null, n)
      <4>1. Height(h2, p) = B /\ Height(h2, c) = B /\ h2[n] = B + 1 /\ r.left[n] = p
              /\ r.right[n] = c
        BY <1>10, <1>11, <2>2, <1>13
      <4>2. n \notin r.red /\ n # Null /\ B \in Nat
        BY <1>1, <1>4, <1>6, <1>13
      <4> QED
        BY <4>1, <4>2 DEF Weighed
    <3>3. Coloured(r, n)
      BY <1>0, <1>7, <1>13, <2>1 DEF Coloured
    <3> QED
      BY <3>1, <3>2, <3>3
  <2>6. \A x \in D : x = n \/ (r.up[x] \in D /\ (x = r.left[r.up[x]] \/ x = r.right[r.up[x]]))
    BY <1>13 DEF D
  <2> QED
    BY <2>4, <2>5, <2>6 DEF SoundInside, D
<1>18. Sound(r, top2, lo2, hi2, h2, Null, Null)
  <2>1. p # top \/ (n # Null /\ n \notin r.red /\ n # Null)
    BY <1>0, <1>1, <1>4, <1>13 DEF Sound
  <2>2. r \in Trees
    BY <1>13
  <2> HIDE DEF D, top2
  <2> QED
    BY <1>8, <1>12, <1>14, <1>15, <1>16, <1>17, <2>1, <2>2, ReplacedSound
<1>19. Height(h2, top2) = Height(h, top)
  <2>1. top \in Keys /\ top # Null
    BY <1>0, <1>1 DEF Sound
  <2>2. top # p => h2[top] = h[top]
    BY <1>4, <1>9, <2>1
  <2>3. h2[n] = h[p]
    BY <1>1, <1>6, <1>10
  <2>4. h[top] \in Nat
    BY <2>1 DEF Labels
  <2> QED
    BY <1>1, <2>1, <2>2, <2>3, <2>4 DEF Height
<1> HIDE DEF top2, lo2, hi2, h2
<1>20. \E l2, i2, e2 : Labels(l2, i2, e2) /\ Sound(r, top2, l2, i2, e2, Null, Null)
         /\ Height(e2, top2) = Height(h, top)
  BY <1>8, <1>18, <1>19
<1> QED
  BY <1>20 DEF top2

(* A 4-node: n below the red left child l of p.                            *)
BelowLow(s, p, l, n) ==
  /\ p \in s.nodes /\ l \in s.nodes /\ n \in s.nodes /\ s.left[p] = l /\ s.left[l] = n
  /\ p \notin s.red /\ p \in s.redlink /\ l \in s.red /\ n \notin s.red /\ n \notin s.redlink

(* Split: l in the place of p, black, between n and p.                     *)
SplitBelow(s, r, p, l, n) ==
  /\ r \in Trees /\ r.nodes = s.nodes
  /\ Turned(s, r, {p, l, n}, p, l)
  /\ p \notin r.red /\ p \notin r.redlink /\ l \notin r.red
  /\ (l \in r.redlink <=> l \in s.redlink) /\ n \notin r.red /\ n \notin r.redlink
  /\ r.left[p] = s.right[l] /\ r.right[p] = s.right[p]
  /\ r.left[l] = n /\ r.right[l] = p
  /\ r.left[n] = s.left[n] /\ r.right[n] = s.right[n]
  /\ r.up[l] = s.up[p] /\ r.up[p] = l /\ r.up[n] = l
  /\ s.right[p] # Null => r.up[s.right[p]] = p
  /\ s.right[l] # Null => r.up[s.right[l]] = p
  /\ s.left[n] # Null => r.up[s.left[n]] = n
  /\ s.right[n] # Null => r.up[s.right[n]] = n

(* The nodes that hang from the part, and the intervals of all of them.    *)
BelowLowAround(s, top, lo, hi, h, p, l, n) ==
  LET D == {p, l, n}
      d == s.right[p]
      c == s.right[l]
      a == s.left[n]
      b == s.right[n]
  IN  /\ p \in Keys /\ p \in Int /\ p # Null /\ lo[p] \in Int /\ hi[p] \in Int /\ h[p] \in Nat
      /\ l \in Keys /\ l \in Int /\ l # Null /\ lo[l] \in Int /\ hi[l] \in Int /\ h[l] \in Nat
      /\ n \in Keys /\ n \in Int /\ n # Null /\ lo[n] \in Int /\ hi[n] \in Int /\ h[n] \in Nat
      /\ Null \notin Keys /\ s.nodes \subseteq Keys /\ Null \notin s.nodes /\ Null \notin s.red
      /\ lo[p] < p /\ p < hi[p]
      /\ lo[l] = lo[p] /\ hi[l] = p /\ lo[p] < l /\ l < p /\ s.up[l] = p
      /\ lo[n] = lo[p] /\ hi[n] = l /\ lo[p] < n /\ n < l /\ s.up[n] = l
      /\ p # l /\ p # n /\ l # n /\ l # top /\ n # top
      /\ d \in s.nodes \cup {Null}
         /\ (d # Null => d \in s.nodes \ D /\ d \in Keys /\ s.up[d] = p /\ lo[d] = p
            /\ hi[d] = hi[p])
      /\ c \in s.nodes \cup {Null}
         /\ (c # Null => c \in s.nodes \ D /\ c \in Keys /\ s.up[c] = l /\ lo[c] = l
            /\ hi[c] = p)
      /\ a \in s.nodes \cup {Null}
         /\ (a # Null => a \in s.nodes \ D /\ a \in Keys /\ s.up[a] = n /\ lo[a] = lo[p]
            /\ hi[a] = n)
      /\ b \in s.nodes \cup {Null}
         /\ (b # Null => b \in s.nodes \ D /\ b \in Keys /\ s.up[b] = n /\ lo[b] = n
            /\ hi[b] = l)
      /\ s.up[p] \notin D /\ (a # Null => a # b)

(* They are nodes of their own.                                            *)
LEMMA BelowLowApart ==
  ASSUME NEW s, NEW top, NEW lo, NEW hi, NEW h, s \in Trees, Labels(lo, hi, h),
         NEW p, NEW l, NEW n, Sound(s, top, lo, hi, h, Null, n), BelowLow(s, p, l, n)
  PROVE  BelowLowAround(s, top, lo, hi, h, p, l, n)
<1> DEFINE D == {p, l, n}
           d == s.right[p]
           c == s.right[l]
           a == s.left[n]
           b == s.right[n]
<1>1. /\ p \in Keys /\ p \in Int /\ p # Null /\ lo[p] \in Int /\ hi[p] \in Int /\ h[p] \in Nat
      /\ l \in Keys /\ l \in Int /\ l # Null /\ lo[l] \in Int /\ hi[l] \in Int /\ h[l] \in Nat
      /\ n \in Keys /\ n \in Int /\ n # Null /\ lo[n] \in Int /\ hi[n] \in Int /\ h[n] \in Nat
      /\ Null \notin Keys /\ s.nodes \subseteq Keys /\ Null \notin s.nodes /\ Null \notin s.red
  BY SoundNode, KeysFinite DEF Trees, BelowLow
<1>2. /\ Placed(s, lo, hi, Null, p) /\ Hung(s, top, p) /\ Weighed(s, h, n, p) /\ Coloured(s, p)
      /\ Placed(s, lo, hi, Null, l) /\ Hung(s, top, l) /\ Weighed(s, h, n, l) /\ Coloured(s, l)
      /\ Placed(s, lo, hi, Null, n) /\ Hung(s, top, n) /\ Weighed(s, h, n, n) /\ Coloured(s, n)
  BY SoundNode DEF BelowLow
<1>3. /\ lo[p] < p /\ p < hi[p]
      /\ lo[l] = lo[p] /\ hi[l] = p /\ lo[p] < l /\ l < p /\ s.up[l] = p
      /\ lo[n] = lo[p] /\ hi[n] = l /\ lo[p] < n /\ n < l /\ s.up[n] = l
  <2>1. lo[p] < p /\ p < hi[p]
    BY <1>1, <1>2 DEF Placed, BelowLow
  <2>2. lo[p] < l /\ l < p /\ lo[l] = lo[p] /\ hi[l] = p /\ s.up[l] = p
    BY <1>1, <1>2, <2>1 DEF Placed, BelowLow
  <2>3. lo[p] < n /\ n < l /\ lo[n] = lo[p] /\ hi[n] = l /\ s.up[n] = l
    BY <1>1, <1>2, <2>1, <2>2 DEF Placed, BelowLow
  <2> QED
    BY <2>1, <2>2, <2>3
<1>4. /\ p # l /\ p # n /\ l # n /\ l # top /\ n # top
  <2>1. /\ p # l /\ p # n /\ l # n
    BY <1>1, <1>2, <1>3 DEF Placed, BelowLow
  <2>2. l # top /\ n # top
    BY <1>1, <1>2, <1>3 DEF Hung, BelowLow
  <2> QED
    BY <2>1, <2>2
<1>5. /\ d \in s.nodes \cup {Null}
         /\ (d # Null => d \in s.nodes \ D /\ d \in Keys /\ s.up[d] = p /\ lo[d] = p
            /\ hi[d] = hi[p])
      /\ c \in s.nodes \cup {Null}
         /\ (c # Null => c \in s.nodes \ D /\ c \in Keys /\ s.up[c] = l /\ lo[c] = l
            /\ hi[c] = p)
      /\ a \in s.nodes \cup {Null}
         /\ (a # Null => a \in s.nodes \ D /\ a \in Keys /\ s.up[a] = n /\ lo[a] = lo[p]
            /\ hi[a] = n)
      /\ b \in s.nodes \cup {Null}
         /\ (b # Null => b \in s.nodes \ D /\ b \in Keys /\ s.up[b] = n /\ lo[b] = n
            /\ hi[b] = l)
  <2>1. d \in s.nodes \cup {Null} /\ (d # Null => s.up[d] = p /\ lo[d] = p /\ hi[d] = hi[p])
    BY <1>1, <1>2, <1>3 DEF Placed, BelowLow
  <2>1a. d # Null => d \notin D
    BY <1>1, <1>3, <1>4, <2>1, <1>2 DEF Hung, BelowLow
  <2>2. c \in s.nodes \cup {Null} /\ (c # Null => s.up[c] = l /\ lo[c] = l /\ hi[c] = p)
    BY <1>1, <1>2, <1>3 DEF Placed, BelowLow
  <2>2a. c # Null => c \notin D
    BY <1>1, <1>3, <1>4, <2>2, <1>2 DEF Hung, BelowLow
  <2>3. a \in s.nodes \cup {Null} /\ (a # Null => s.up[a] = n /\ lo[a] = lo[p] /\ hi[a] = n)
    BY <1>1, <1>2, <1>3 DEF Placed, BelowLow
  <2>3a. a # Null => a \notin D
    BY <1>1, <1>3, <1>4, <2>3, <1>2 DEF Hung, BelowLow
  <2>4. b \in s.nodes \cup {Null} /\ (b # Null => s.up[b] = n /\ lo[b] = n /\ hi[b] = l)
    BY <1>1, <1>2, <1>3 DEF Placed, BelowLow
  <2>4a. b # Null => b \notin D
    BY <1>1, <1>3, <1>4, <2>4, <1>2 DEF Hung, BelowLow
  <2> QED
    BY <1>1, <2>1, <2>1a, <2>2, <2>2a, <2>3, <2>3a, <2>4, <2>4a
<1>6. /\ s.up[p] \notin D /\ (a # Null => a # b)
  <2>1. s.up[p] \notin D
    <3>1. s.up[p] = Null \/ p \in {s.left[s.up[p]], s.right[s.up[p]]}
      BY <1>1, <1>2 DEF Hung, BelowLow
    <3>2. \A x \in D : p # s.left[x] /\ p # s.right[x] /\ x # Null
      BY <1>1, <1>2, <1>4, <1>5 DEF Placed, BelowLow, BelowLow
    <3> QED
      BY <3>1, <3>2
  <2>2. a # Null => a # b
    BY <1>1, <1>3, <1>5
  <2> QED
    BY <2>1, <2>2
<1> QED
  BY <1>1, <1>3, <1>4, <1>5, <1>6 DEF BelowLowAround

(* The rules hold again once the part is replaced.                         *)
LEMMA SplitBelowSound ==
  ASSUME NEW s, NEW top, NEW lo, NEW hi, NEW h, s \in Trees, Labels(lo, hi, h),
         NEW p, NEW l, NEW n, Sound(s, top, lo, hi, h, Null, n), BelowLow(s, p, l, n),
         NEW grown, NEW hot2, grown \in {0, 1},
         (p = top /\ grown = 1 /\ hot2 = Null) \/ (p # top /\ grown = 0 /\ hot2 = l),
         NEW r, SplitBelow(s, r, p, l, n)
  PROVE  \E lo2, hi2, h2 : /\ Labels(lo2, hi2, h2)
                           /\ Sound(r, IF top = p THEN l ELSE top, lo2, hi2, h2, Null, hot2)
                           /\ Height(h2, IF top = p THEN l ELSE top) = Height(h, top) + grown
<1> DEFINE D == {p, l, n}
           top2 == IF top = p THEN l ELSE top
           d == s.right[p]
           c == s.right[l]
           a == s.left[n]
           b == s.right[n]
           B == h[n]
           lo2 == [lo EXCEPT ![p] = l]
           hi2 == [hi EXCEPT ![l] = hi[p]]
           h2 == [h EXCEPT ![l] = B + 1 + grown, ![n] = B + 1]
<1>a. BelowLowAround(s, top, lo, hi, h, p, l, n)
  BY BelowLowApart
<1>1. /\ p \in Keys /\ p \in Int /\ p # Null /\ lo[p] \in Int /\ hi[p] \in Int /\ h[p] \in Nat
      /\ l \in Keys /\ l \in Int /\ l # Null /\ lo[l] \in Int /\ hi[l] \in Int /\ h[l] \in Nat
      /\ n \in Keys /\ n \in Int /\ n # Null /\ lo[n] \in Int /\ hi[n] \in Int /\ h[n] \in Nat
      /\ Null \notin Keys /\ s.nodes \subseteq Keys /\ Null \notin s.nodes /\ Null \notin s.red
  BY <1>a DEF BelowLowAround
<1>3. /\ lo[p] < p /\ p < hi[p]
      /\ lo[l] = lo[p] /\ hi[l] = p /\ lo[p] < l /\ l < p /\ s.up[l] = p
      /\ lo[n] = lo[p] /\ hi[n] = l /\ lo[p] < n /\ n < l /\ s.up[n] = l
  BY <1>a DEF BelowLowAround
<1>4. /\ p # l /\ p # n /\ l # n /\ l # top /\ n # top
  BY <1>a DEF BelowLowAround
<1>5. /\ d \in s.nodes \cup {Null}
         /\ (d # Null => d \in s.nodes \ D /\ d \in Keys /\ s.up[d] = p /\ lo[d] = p
            /\ hi[d] = hi[p])
      /\ c \in s.nodes \cup {Null}
         /\ (c # Null => c \in s.nodes \ D /\ c \in Keys /\ s.up[c] = l /\ lo[c] = l
            /\ hi[c] = p)
      /\ a \in s.nodes \cup {Null}
         /\ (a # Null => a \in s.nodes \ D /\ a \in Keys /\ s.up[a] = n /\ lo[a] = lo[p]
            /\ hi[a] = n)
      /\ b \in s.nodes \cup {Null}
         /\ (b # Null => b \in s.nodes \ D /\ b \in Keys /\ s.up[b] = n /\ lo[b] = n
            /\ hi[b] = l)
  BY <1>a DEF BelowLowAround
<1>2. /\ Placed(s, lo, hi, Null, p) /\ Hung(s, top, p) /\ Weighed(s, h, n, p) /\ Coloured(s, p)
      /\ Placed(s, lo, hi, Null, l) /\ Hung(s, top, l) /\ Weighed(s, h, n, l) /\ Coloured(s, l)
      /\ Placed(s, lo, hi, Null, n) /\ Hung(s, top, n) /\ Weighed(s, h, n, n) /\ Coloured(s, n)
  BY SoundNode DEF BelowLow
<1>0. /\ p \in s.nodes /\ l \in s.nodes /\ n \in s.nodes /\ s.left[p] = l /\ s.left[l] = n
      /\ p \notin s.red /\ p \in s.redlink /\ l \in s.red /\ n \notin s.red
         /\ n \notin s.redlink
  BY DEF BelowLow
<1>6. /\ h[p] = B + 1 /\ h[l] = B /\ h[n] = B /\ Height(h, d) = B
      /\ Height(h, c) = B /\ Height(h, a) = B /\ Height(h, b) = B /\ B \in Nat
  <2>1. Height(h, d) \in Nat /\ Height(h, c) \in Nat /\ Height(h, a) \in Nat
          /\ Height(h, b) \in Nat
    BY <1>1, <1>5, HeightIs
  <2>2. Height(h, p) = h[p] /\ Height(h, l) = h[l] /\ Height(h, n) = h[n]
    BY <1>1 DEF Height
  <2>3. h[p] = h[l] + 1 /\ h[p] = Height(h, d) + 1
    BY <1>0, <1>1, <1>2, <1>4, <2>2 DEF Weighed
  <2>4. h[l] = h[n] + 0 /\ h[l] = Height(h, c) + 0
    BY <1>0, <1>1, <1>2, <1>4, <2>2 DEF Weighed
  <2>5. h[n] = Height(h, a) + 0 /\ h[n] = Height(h, b) + 0
    BY <1>0, <1>1, <1>2, <1>4, <2>2 DEF Weighed
  <2>6. h[p] \in Nat /\ h[l] \in Nat /\ h[n] \in Nat
    BY <1>1
  <2> HIDE DEF d, c, a, b
  <2> QED
    BY <2>1, <2>3, <2>4, <2>5, <2>6
<1>7. /\ d \notin s.red
      /\ (l \in s.red <=> p \in s.redlink) /\ (p \in s.red => l \notin s.red)
      /\ c \notin s.red
      /\ (n \in s.red <=> l \in s.redlink) /\ (l \in s.red => n \notin s.red)
      /\ b \notin s.red
      /\ (a \in s.red <=> n \in s.redlink) /\ (n \in s.red => a \notin s.red)
  BY <1>0, <1>1, <1>2 DEF Coloured
<1>8. Labels(lo2, hi2, h2)
  BY <1>1, <1>6 DEF Labels
<1>9. /\ \A x \in Keys : (x # p => lo2[x] = lo[x]) /\ (x # l => hi2[x] = hi[x])
         /\ (x # l /\ x # n => h2[x] = h[x])
      /\ lo2[p] = l /\ hi2[l] = hi[p] /\ h2[l] = B + 1 + grown /\ h2[n] = B + 1
  <2> HIDE DEF B
  <2> QED
    BY <1>1, <1>4 DEF Labels
<1> HIDE DEF lo2, hi2, h2, B
<1>10. /\ lo2[p] = l /\ hi2[p] = hi[p] /\ h2[p] = B + 1
       /\ lo2[l] = lo[p] /\ hi2[l] = hi[p] /\ h2[l] = B + 1 + grown
       /\ lo2[n] = lo[p] /\ hi2[n] = l /\ h2[n] = B + 1
  BY <1>1, <1>3, <1>4, <1>6, <1>9
<1>11. /\ d # Null => lo2[d] = p /\ hi2[d] = hi[p]
       /\ c # Null => lo2[c] = l /\ hi2[c] = p
       /\ a # Null => lo2[a] = lo[p] /\ hi2[a] = n
       /\ b # Null => lo2[b] = n /\ hi2[b] = l
       /\ Height(h2, d) = B
       /\ Height(h2, c) = B
       /\ Height(h2, a) = B
       /\ Height(h2, b) = B
  <2>1. (d # Null => d # p /\ d # l /\ d # n) /\ (c # Null => c # p /\ c # l /\ c # n)
          /\ (a # Null => a # p /\ a # l /\ a # n) /\ (b # Null => b # p /\ b # l /\ b # n)
    BY <1>1, <1>5
  <2> HIDE DEF d, c, a, b
  <2>2. (d # Null => lo2[d] = lo[d] /\ hi2[d] = hi[d] /\ h2[d] = h[d])
          /\ (c # Null => lo2[c] = lo[c] /\ hi2[c] = hi[c] /\ h2[c] = h[c])
             /\ (a # Null => lo2[a] = lo[a] /\ hi2[a] = hi[a] /\ h2[a] = h[a])
                /\ (b # Null => lo2[b] = lo[b] /\ hi2[b] = hi[b] /\ h2[b] = h[b])
    BY <1>5, <1>9, <2>1
  <2> QED
    BY <1>5, <1>6, <2>2 DEF Height
<1>12. Part(s, top, D, p)
  BY <1>0, <1>3, <1>4 DEF Part
<1>13. /\ r \in Trees /\ r.nodes = s.nodes /\ Turned(s, r, D, p, l)
       /\ p \notin r.red /\ p \notin r.redlink /\ l \notin r.red
       /\ (l \in r.redlink <=> l \in s.redlink) /\ n \notin r.red /\ n \notin r.redlink
       /\ r.left[p] = c /\ r.right[p] = d
       /\ r.left[l] = n /\ r.right[l] = p
       /\ r.left[n] = a /\ r.right[n] = b
       /\ r.up[l] = s.up[p] /\ r.up[p] = l /\ r.up[n] = l
       /\ d # Null => r.up[d] = p
       /\ c # Null => r.up[c] = p
       /\ a # Null => r.up[a] = n
       /\ b # Null => r.up[b] = n
  BY DEF SplitBelow
<1>14. SameOutside(s, lo, hi, h, r, lo2, hi2, h2, D, D, p, l)
  <2> SUFFICES ASSUME NEW x \in s.nodes \ D
               PROVE  /\ lo2[x] = lo[x] /\ hi2[x] = hi[x] /\ h2[x] = h[x]
                      /\ s.up[x] \in D => r.up[x] \in D
                         /\ (x = r.left[r.up[x]] \/ x = r.right[r.up[x]])
    BY <1>13 DEF Turned, SameOutside
  <2>1. x \in Keys /\ x # Null /\ x # p /\ x # l /\ x # n
    BY <1>1
  <2>2. s.up[x] \in D => x \in {d, c, a, b}
    <3> SUFFICES ASSUME s.up[x] \in D PROVE x = s.left[s.up[x]] \/ x = s.right[s.up[x]]
      BY <1>0, <1>1, <2>1
    <3> QED
      BY <1>0, <1>1, SoundUp
  <2>3. (x = d => r.up[x] \in D /\ (x = r.left[r.up[x]] \/ x = r.right[r.up[x]]))
          /\ (x = c => r.up[x] \in D /\ (x = r.left[r.up[x]] \/ x = r.right[r.up[x]]))
             /\ (x = a => r.up[x] \in D /\ (x = r.left[r.up[x]] \/ x = r.right[r.up[x]]))
                /\ (x = b => r.up[x] \in D /\ (x = r.left[r.up[x]] \/ x = r.right[r.up[x]]))
    BY <2>1, <1>13
  <2> QED
    BY <1>9, <2>1, <2>2, <2>3
<1>15. SameAbove(s, top, lo, hi, h, r, lo2, hi2, h2, p, l)
  BY <1>0, <1>1, <1>6, <1>7, <1>10, <1>13 DEF SameAbove, Height
<1>16. Exchange(s, top, Null, n, r, top2, Null, hot2, D, D, p, l)
  BY <1>0, <1>1, <1>4, <1>13 DEF Exchange
<1>17. SoundInside(r, lo2, hi2, h2, Null, hot2, D, l)
  <2>1. (d \in r.red <=> d \in s.red) /\ (c \in r.red <=> c \in s.red)
          /\ (a \in r.red <=> a \in s.red) /\ (b \in r.red <=> b \in s.red) /\ Null \notin r.red
    <3>1. \A x \in s.nodes \ D : x \in r.red <=> x \in s.red
      BY <1>13 DEF Turned
    <3>2. Null \notin r.red
      BY <1>1, <1>13 DEF Trees
    <3> HIDE DEF d, c, a, b
    <3> QED
      BY <1>1, <1>5, <3>1, <3>2
  <2>2. Height(h2, p) = h2[p] /\ Height(h2, l) = h2[l] /\ Height(h2, n) = h2[n]
    BY <1>1 DEF Height
  <2>3. d \in r.nodes \cup {Null} /\ c \in r.nodes \cup {Null} /\ a \in r.nodes \cup {Null}
          /\ b \in r.nodes \cup {Null}
    BY <1>5, <1>13
  <2> HIDE DEF d, c, a, b, D
  <2>4. Placed(r, lo2, hi2, Null, p) /\ Weighed(r, h2, hot2, p) /\ Coloured(r, p)
    <3>1. Placed(r, lo2, hi2, Null, p)
      BY <1>0, <1>1, <1>3, <1>4, <1>10, <1>11, <1>13, <2>3 DEF Placed
    <3>2. Weighed(r, h2, hot2, p)
      <4>1. Height(h2, c) = B /\ Height(h2, d) = B /\ h2[p] = B + 1 /\ r.left[p] = c
              /\ r.right[p] = d
        BY <1>10, <1>11, <2>2, <1>13
      <4>2. p \notin r.red /\ p # hot2 /\ B \in Nat
        BY <1>1, <1>4, <1>6, <1>13
      <4> QED
        BY <4>1, <4>2 DEF Weighed
    <3>3. Coloured(r, p)
      BY <1>0, <1>7, <1>13, <2>1 DEF Coloured
    <3> QED
      BY <3>1, <3>2, <3>3
  <2>5. Placed(r, lo2, hi2, Null, l) /\ Weighed(r, h2, hot2, l) /\ Coloured(r, l)
    <3>1. Placed(r, lo2, hi2, Null, l)
      BY <1>0, <1>1, <1>3, <1>4, <1>10, <1>11, <1>13, <2>3 DEF Placed
    <3>2. Weighed(r, h2, hot2, l)
      <4>1. Height(h2, n) = B + 1 /\ Height(h2, p) = B + 1 /\ h2[l] = B + 1 + grown
              /\ r.left[l] = n /\ r.right[l] = p
        BY <1>10, <1>11, <2>2, <1>13
      <4>2. l \notin r.red /\ (l = hot2 <=> grown = 0) /\ grown \in {0, 1} /\ B \in Nat
        BY <1>1, <1>4, <1>6, <1>13
      <4> QED
        BY <4>1, <4>2 DEF Weighed
    <3>3. Coloured(r, l)
      BY <1>0, <1>7, <1>13, <2>1 DEF Coloured
    <3> QED
      BY <3>1, <3>2, <3>3
  <2>6. Placed(r, lo2, hi2, Null, n) /\ Weighed(r, h2, hot2, n) /\ Coloured(r, n)
    <3>1. Placed(r, lo2, hi2, Null, n)
      BY <1>0, <1>1, <1>3, <1>4, <1>10, <1>11, <1>13, <2>3 DEF Placed
    <3>2. Weighed(r, h2, hot2, n)
      <4>1. Height(h2, a) = B /\ Height(h2, b) = B /\ h2[n] = B + 1 /\ r.left[n] = a
              /\ r.right[n] = b
        BY <1>10, <1>11, <2>2, <1>13
      <4>2. n \notin r.red /\ n # hot2 /\ B \in Nat
        BY <1>1, <1>4, <1>6, <1>13
      <4> QED
        BY <4>1, <4>2 DEF Weighed
    <3>3. Coloured(r, n)
      BY <1>0, <1>7, <1>13, <2>1 DEF Coloured
    <3> QED
      BY <3>1, <3>2, <3>3
  <2>7. \A x \in D : x = l \/ (r.up[x] \in D /\ (x = r.left[r.up[x]] \/ x = r.right[r.up[x]]))
    BY <1>13 DEF D
  <2> QED
    BY <2>4, <2>5, <2>6, <2>7 DEF SoundInside, D
<1>18. Sound(r, top2, lo2, hi2, h2, Null, hot2)
  <2>1. p # top \/ (l # Null /\ l \notin r.red /\ l # hot2)
    BY <1>0, <1>1, <1>4, <1>13 DEF Sound
  <2>2. r \in Trees
    BY <1>13
  <2> HIDE DEF D, top2
  <2> QED
    BY <1>8, <1>12, <1>14, <1>15, <1>16, <1>17, <2>1, <2>2, ReplacedSound
<1>19. Height(h2, top2) = Height(h, top) + grown
  <2>1. top \in Keys /\ top # Null
    BY <1>0, <1>1 DEF Sound
  <2>2. top # p => h2[top] = h[top]
    BY <1>4, <1>9, <2>1
  <2>3. h2[l] = h[p] + grown \/ p # top
    BY <1>1, <1>6, <1>10
  <2>4. h[top] \in Nat
    BY <2>1 DEF Labels
  <2> QED
    BY <1>1, <2>1, <2>2, <2>3, <2>4 DEF Height
<1> HIDE DEF top2, lo2, hi2, h2
<1>20. \E l2, i2, e2 : Labels(l2, i2, e2) /\ Sound(r, top2, l2, i2, e2, Null, hot2)
         /\ Height(e2, top2) = Height(h, top) + grown
  BY <1>8, <1>18, <1>19
<1> QED
  BY <1>20 DEF top2

(* A 4-node: l and n on either side of p.                                  *)
AboveBoth(s, p, l, n) ==
  /\ p \in s.nodes /\ l \in s.nodes /\ n \in s.nodes /\ s.left[p] = l /\ s.right[p] = n
  /\ p \notin s.red /\ p \in s.redlink /\ l \in s.red /\ n \notin s.red /\ n \notin s.redlink

(* Split: all three black where they are.                                  *)
SplitAbove(s, r, p, l, n) ==
  /\ r \in Trees /\ r.nodes = s.nodes
  /\ Turned(s, r, {p, l, n}, p, p)
  /\ p \notin r.red /\ p \notin r.redlink /\ l \notin r.red
  /\ (l \in r.redlink <=> l \in s.redlink) /\ n \notin r.red /\ n \notin r.redlink
  /\ r.left[p] = l /\ r.right[p] = n
  /\ r.left[l] = s.left[l] /\ r.right[l] = s.right[l]
  /\ r.left[n] = s.left[n] /\ r.right[n] = s.right[n]
  /\ r.up[p] = s.up[p] /\ r.up[l] = p /\ r.up[n] = p
  /\ s.left[l] # Null => r.up[s.left[l]] = l
  /\ s.right[l] # Null => r.up[s.right[l]] = l
  /\ s.left[n] # Null => r.up[s.left[n]] = n
  /\ s.right[n] # Null => r.up[s.right[n]] = n

(* The nodes that hang from the part, and the intervals of all of them.    *)
AboveBothAround(s, top, lo, hi, h, p, l, n) ==
  LET D == {p, l, n}
      a == s.left[l]
      b == s.right[l]
      c == s.left[n]
      d == s.right[n]
  IN  /\ p \in Keys /\ p \in Int /\ p # Null /\ lo[p] \in Int /\ hi[p] \in Int /\ h[p] \in Nat
      /\ l \in Keys /\ l \in Int /\ l # Null /\ lo[l] \in Int /\ hi[l] \in Int /\ h[l] \in Nat
      /\ n \in Keys /\ n \in Int /\ n # Null /\ lo[n] \in Int /\ hi[n] \in Int /\ h[n] \in Nat
      /\ Null \notin Keys /\ s.nodes \subseteq Keys /\ Null \notin s.nodes /\ Null \notin s.red
      /\ lo[p] < p /\ p < hi[p]
      /\ lo[l] = lo[p] /\ hi[l] = p /\ lo[p] < l /\ l < p /\ s.up[l] = p
      /\ lo[n] = p /\ hi[n] = hi[p] /\ p < n /\ n < hi[p] /\ s.up[n] = p
      /\ p # l /\ p # n /\ l # n /\ l # top /\ n # top
      /\ a \in s.nodes \cup {Null}
         /\ (a # Null => a \in s.nodes \ D /\ a \in Keys /\ s.up[a] = l /\ lo[a] = lo[p]
            /\ hi[a] = l)
      /\ b \in s.nodes \cup {Null}
         /\ (b # Null => b \in s.nodes \ D /\ b \in Keys /\ s.up[b] = l /\ lo[b] = l
            /\ hi[b] = p)
      /\ c \in s.nodes \cup {Null}
         /\ (c # Null => c \in s.nodes \ D /\ c \in Keys /\ s.up[c] = n /\ lo[c] = p
            /\ hi[c] = n)
      /\ d \in s.nodes \cup {Null}
         /\ (d # Null => d \in s.nodes \ D /\ d \in Keys /\ s.up[d] = n /\ lo[d] = n
            /\ hi[d] = hi[p])
      /\ s.up[p] \notin D /\ (a # Null => a # b) /\ (c # Null => c # d)

(* They are nodes of their own.                                            *)
LEMMA AboveBothApart ==
  ASSUME NEW s, NEW top, NEW lo, NEW hi, NEW h, s \in Trees, Labels(lo, hi, h),
         NEW p, NEW l, NEW n, Sound(s, top, lo, hi, h, Null, n), AboveBoth(s, p, l, n)
  PROVE  AboveBothAround(s, top, lo, hi, h, p, l, n)
<1> DEFINE D == {p, l, n}
           a == s.left[l]
           b == s.right[l]
           c == s.left[n]
           d == s.right[n]
<1>1. /\ p \in Keys /\ p \in Int /\ p # Null /\ lo[p] \in Int /\ hi[p] \in Int /\ h[p] \in Nat
      /\ l \in Keys /\ l \in Int /\ l # Null /\ lo[l] \in Int /\ hi[l] \in Int /\ h[l] \in Nat
      /\ n \in Keys /\ n \in Int /\ n # Null /\ lo[n] \in Int /\ hi[n] \in Int /\ h[n] \in Nat
      /\ Null \notin Keys /\ s.nodes \subseteq Keys /\ Null \notin s.nodes /\ Null \notin s.red
  BY SoundNode, KeysFinite DEF Trees, AboveBoth
<1>2. /\ Placed(s, lo, hi, Null, p) /\ Hung(s, top, p) /\ Weighed(s, h, n, p) /\ Coloured(s, p)
      /\ Placed(s, lo, hi, Null, l) /\ Hung(s, top, l) /\ Weighed(s, h, n, l) /\ Coloured(s, l)
      /\ Placed(s, lo, hi, Null, n) /\ Hung(s, top, n) /\ Weighed(s, h, n, n) /\ Coloured(s, n)
  BY SoundNode DEF AboveBoth
<1>3. /\ lo[p] < p /\ p < hi[p]
      /\ lo[l] = lo[p] /\ hi[l] = p /\ lo[p] < l /\ l < p /\ s.up[l] = p
      /\ lo[n] = p /\ hi[n] = hi[p] /\ p < n /\ n < hi[p] /\ s.up[n] = p
  <2>1. lo[p] < p /\ p < hi[p]
    BY <1>1, <1>2 DEF Placed, AboveBoth
  <2>2. lo[p] < l /\ l < p /\ lo[l] = lo[p] /\ hi[l] = p /\ s.up[l] = p
    BY <1>1, <1>2, <2>1 DEF Placed, AboveBoth
  <2>3. p < n /\ n < hi[p] /\ lo[n] = p /\ hi[n] = hi[p] /\ s.up[n] = p
    BY <1>1, <1>2, <2>1, <2>2 DEF Placed, AboveBoth
  <2> QED
    BY <2>1, <2>2, <2>3
<1>4. /\ p # l /\ p # n /\ l # n /\ l # top /\ n # top
  <2>1. /\ p # l /\ p # n /\ l # n
    BY <1>1, <1>2, <1>3 DEF Placed, AboveBoth
  <2>2. l # top /\ n # top
    BY <1>1, <1>2, <1>3 DEF Hung, AboveBoth
  <2> QED
    BY <2>1, <2>2
<1>5. /\ a \in s.nodes \cup {Null}
         /\ (a # Null => a \in s.nodes \ D /\ a \in Keys /\ s.up[a] = l /\ lo[a] = lo[p]
            /\ hi[a] = l)
      /\ b \in s.nodes \cup {Null}
         /\ (b # Null => b \in s.nodes \ D /\ b \in Keys /\ s.up[b] = l /\ lo[b] = l
            /\ hi[b] = p)
      /\ c \in s.nodes \cup {Null}
         /\ (c # Null => c \in s.nodes \ D /\ c \in Keys /\ s.up[c] = n /\ lo[c] = p
            /\ hi[c] = n)
      /\ d \in s.nodes \cup {Null}
         /\ (d # Null => d \in s.nodes \ D /\ d \in Keys /\ s.up[d] = n /\ lo[d] = n
            /\ hi[d] = hi[p])
  <2>1. a \in s.nodes \cup {Null} /\ (a # Null => s.up[a] = l /\ lo[a] = lo[p] /\ hi[a] = l)
    BY <1>1, <1>2, <1>3 DEF Placed, AboveBoth
  <2>1a. a # Null => a \notin D
    BY <1>1, <1>3, <1>4, <2>1, <1>2 DEF Hung, AboveBoth
  <2>2. b \in s.nodes \cup {Null} /\ (b # Null => s.up[b] = l /\ lo[b] = l /\ hi[b] = p)
    BY <1>1, <1>2, <1>3 DEF Placed, AboveBoth
  <2>2a. b # Null => b \notin D
    BY <1>1, <1>3, <1>4, <2>2, <1>2 DEF Hung, AboveBoth
  <2>3. c \in s.nodes \cup {Null} /\ (c # Null => s.up[c] = n /\ lo[c] = p /\ hi[c] = n)
    BY <1>1, <1>2, <1>3 DEF Placed, AboveBoth
  <2>3a. c # Null => c \notin D
    BY <1>1, <1>3, <1>4, <2>3, <1>2 DEF Hung, AboveBoth
  <2>4. d \in s.nodes \cup {Null} /\ (d # Null => s.up[d] = n /\ lo[d] = n /\ hi[d] = hi[p])
    BY <1>1, <1>2, <1>3 DEF Placed, AboveBoth
  <2>4a. d # Null => d \notin D
    BY <1>1, <1>3, <1>4, <2>4, <1>2 DEF Hung, AboveBoth
  <2> QED
    BY <1>1, <2>1, <2>1a, <2>2, <2>2a, <2>3, <2>3a, <2>4, <2>4a
<1>6. /\ s.up[p] \notin D /\ (a # Null => a # b) /\ (c # Null => c # d)
  <2>1. s.up[p] \notin D
    <3>1. s.up[p] = Null \/ p \in {s.left[s.up[p]], s.right[s.up[p]]}
      BY <1>1, <1>2 DEF Hung, AboveBoth
    <3>2. \A x \in D : p # s.left[x] /\ p # s.right[x] /\ x # Null
      BY <1>1, <1>2, <1>4, <1>5 DEF Placed, AboveBoth, AboveBoth
    <3> QED
      BY <3>1, <3>2
  <2>2. a # Null => a # b
    BY <1>1, <1>3, <1>5
  <2>3. c # Null => c # d
    BY <1>1, <1>3, <1>5
  <2> QED
    BY <2>1, <2>2, <2>3
<1> QED
  BY <1>1, <1>3, <1>4, <1>5, <1>6 DEF AboveBothAround

(* The rules hold again once the part is replaced.                         *)
LEMMA SplitAboveSound ==
  ASSUME NEW s, NEW top, NEW lo, NEW hi, NEW h, s \in Trees, Labels(lo, hi, h),
         NEW p, NEW l, NEW n, Sound(s, top, lo, hi, h, Null, n), AboveBoth(s, p, l, n),
         NEW grown, NEW hot2, grown \in {0, 1},
         (p = top /\ grown = 1 /\ hot2 = Null) \/ (p # top /\ grown = 0 /\ hot2 = p),
         NEW r, SplitAbove(s, r, p, l, n)
  PROVE  \E lo2, hi2, h2 : /\ Labels(lo2, hi2, h2)
                           /\ Sound(r, top, lo2, hi2, h2, Null, hot2)
                           /\ Height(h2, top) = Height(h, top) + grown
<1> DEFINE D == {p, l, n}
           top2 == top
           a == s.left[l]
           b == s.right[l]
           c == s.left[n]
           d == s.right[n]
           B == h[n]
           lo2 == lo
           hi2 == hi
           h2 == [h EXCEPT ![p] = B + 1 + grown, ![l] = B + 1, ![n] = B + 1]
<1>a. AboveBothAround(s, top, lo, hi, h, p, l, n)
  BY AboveBothApart
<1>1. /\ p \in Keys /\ p \in Int /\ p # Null /\ lo[p] \in Int /\ hi[p] \in Int /\ h[p] \in Nat
      /\ l \in Keys /\ l \in Int /\ l # Null /\ lo[l] \in Int /\ hi[l] \in Int /\ h[l] \in Nat
      /\ n \in Keys /\ n \in Int /\ n # Null /\ lo[n] \in Int /\ hi[n] \in Int /\ h[n] \in Nat
      /\ Null \notin Keys /\ s.nodes \subseteq Keys /\ Null \notin s.nodes /\ Null \notin s.red
  BY <1>a DEF AboveBothAround
<1>3. /\ lo[p] < p /\ p < hi[p]
      /\ lo[l] = lo[p] /\ hi[l] = p /\ lo[p] < l /\ l < p /\ s.up[l] = p
      /\ lo[n] = p /\ hi[n] = hi[p] /\ p < n /\ n < hi[p] /\ s.up[n] = p
  BY <1>a DEF AboveBothAround
<1>4. /\ p # l /\ p # n /\ l # n /\ l # top /\ n # top
  BY <1>a DEF AboveBothAround
<1>5. /\ a \in s.nodes \cup {Null}
         /\ (a # Null => a \in s.nodes \ D /\ a \in Keys /\ s.up[a] = l /\ lo[a] = lo[p]
            /\ hi[a] = l)
      /\ b \in s.nodes \cup {Null}
         /\ (b # Null => b \in s.nodes \ D /\ b \in Keys /\ s.up[b] = l /\ lo[b] = l
            /\ hi[b] = p)
      /\ c \in s.nodes \cup {Null}
         /\ (c # Null => c \in s.nodes \ D /\ c \in Keys /\ s.up[c] = n /\ lo[c] = p
            /\ hi[c] = n)
      /\ d \in s.nodes \cup {Null}
         /\ (d # Null => d \in s.nodes \ D /\ d \in Keys /\ s.up[d] = n /\ lo[d] = n
            /\ hi[d] = hi[p])
  BY <1>a DEF AboveBothAround
<1>2. /\ Placed(s, lo, hi, Null, p) /\ Hung(s, top, p) /\ Weighed(s, h, n, p) /\ Coloured(s, p)
      /\ Placed(s, lo, hi, Null, l) /\ Hung(s, top, l) /\ Weighed(s, h, n, l) /\ Coloured(s, l)
      /\ Placed(s, lo, hi, Null, n) /\ Hung(s, top, n) /\ Weighed(s, h, n, n) /\ Coloured(s, n)
  BY SoundNode DEF AboveBoth
<1>0. /\ p \in s.nodes /\ l \in s.nodes /\ n \in s.nodes /\ s.left[p] = l /\ s.right[p] = n
      /\ p \notin s.red /\ p \in s.redlink /\ l \in s.red /\ n \notin s.red
         /\ n \notin s.redlink
  BY DEF AboveBoth
<1>6. /\ h[p] = B + 1 /\ h[l] = B /\ h[n] = B /\ Height(h, a) = B
      /\ Height(h, b) = B /\ Height(h, c) = B /\ Height(h, d) = B /\ B \in Nat
  <2>1. Height(h, a) \in Nat /\ Height(h, b) \in Nat /\ Height(h, c) \in Nat
          /\ Height(h, d) \in Nat
    BY <1>1, <1>5, HeightIs
  <2>2. Height(h, p) = h[p] /\ Height(h, l) = h[l] /\ Height(h, n) = h[n]
    BY <1>1 DEF Height
  <2>3. h[p] = h[l] + 1 /\ h[p] = h[n] + 1
    BY <1>0, <1>1, <1>2, <1>4, <2>2 DEF Weighed
  <2>4. h[l] = Height(h, a) + 0 /\ h[l] = Height(h, b) + 0
    BY <1>0, <1>1, <1>2, <1>4, <2>2 DEF Weighed
  <2>5. h[n] = Height(h, c) + 0 /\ h[n] = Height(h, d) + 0
    BY <1>0, <1>1, <1>2, <1>4, <2>2 DEF Weighed
  <2>6. h[p] \in Nat /\ h[l] \in Nat /\ h[n] \in Nat
    BY <1>1
  <2> HIDE DEF a, b, c, d
  <2> QED
    BY <2>1, <2>3, <2>4, <2>5, <2>6
<1>7. /\ n \notin s.red
      /\ (l \in s.red <=> p \in s.redlink) /\ (p \in s.red => l \notin s.red)
      /\ b \notin s.red
      /\ (a \in s.red <=> l \in s.redlink) /\ (l \in s.red => a \notin s.red)
      /\ d \notin s.red
      /\ (c \in s.red <=> n \in s.redlink) /\ (n \in s.red => c \notin s.red)
  BY <1>0, <1>1, <1>2 DEF Coloured
<1>8. Labels(lo2, hi2, h2)
  BY <1>1, <1>6 DEF Labels
<1>9. /\ \A x \in Keys : lo2[x] = lo[x] /\ hi2[x] = hi[x]
         /\ (x # p /\ x # l /\ x # n => h2[x] = h[x])
      /\ h2[p] = B + 1 + grown /\ h2[l] = B + 1 /\ h2[n] = B + 1
  <2> HIDE DEF B
  <2> QED
    BY <1>1, <1>4 DEF Labels
<1> HIDE DEF lo2, hi2, h2, B
<1>10. /\ lo2[p] = lo[p] /\ hi2[p] = hi[p] /\ h2[p] = B + 1 + grown
       /\ lo2[l] = lo[p] /\ hi2[l] = p /\ h2[l] = B + 1
       /\ lo2[n] = p /\ hi2[n] = hi[p] /\ h2[n] = B + 1
  BY <1>1, <1>3, <1>4, <1>6, <1>9
<1>11. /\ a # Null => lo2[a] = lo[p] /\ hi2[a] = l
       /\ b # Null => lo2[b] = l /\ hi2[b] = p
       /\ c # Null => lo2[c] = p /\ hi2[c] = n
       /\ d # Null => lo2[d] = n /\ hi2[d] = hi[p]
       /\ Height(h2, a) = B
       /\ Height(h2, b) = B
       /\ Height(h2, c) = B
       /\ Height(h2, d) = B
  <2>1. (a # Null => a # p /\ a # l /\ a # n) /\ (b # Null => b # p /\ b # l /\ b # n)
          /\ (c # Null => c # p /\ c # l /\ c # n) /\ (d # Null => d # p /\ d # l /\ d # n)
    BY <1>1, <1>5
  <2> HIDE DEF a, b, c, d
  <2>2. (a # Null => lo2[a] = lo[a] /\ hi2[a] = hi[a] /\ h2[a] = h[a])
          /\ (b # Null => lo2[b] = lo[b] /\ hi2[b] = hi[b] /\ h2[b] = h[b])
             /\ (c # Null => lo2[c] = lo[c] /\ hi2[c] = hi[c] /\ h2[c] = h[c])
                /\ (d # Null => lo2[d] = lo[d] /\ hi2[d] = hi[d] /\ h2[d] = h[d])
    BY <1>5, <1>9, <2>1
  <2> QED
    BY <1>5, <1>6, <2>2 DEF Height
<1>12. Part(s, top, D, p)
  BY <1>0, <1>3, <1>4 DEF Part
<1>13. /\ r \in Trees /\ r.nodes = s.nodes /\ Turned(s, r, D, p, p)
       /\ p \notin r.red /\ p \notin r.redlink /\ l \notin r.red
       /\ (l \in r.redlink <=> l \in s.redlink) /\ n \notin r.red /\ n \notin r.redlink
       /\ r.left[p] = l /\ r.right[p] = n
       /\ r.left[l] = a /\ r.right[l] = b
       /\ r.left[n] = c /\ r.right[n] = d
       /\ r.up[p] = s.up[p] /\ r.up[l] = p /\ r.up[n] = p
       /\ a # Null => r.up[a] = l
       /\ b # Null => r.up[b] = l
       /\ c # Null => r.up[c] = n
       /\ d # Null => r.up[d] = n
  BY DEF SplitAbove
<1>14. SameOutside(s, lo, hi, h, r, lo2, hi2, h2, D, D, p, p)
  <2> SUFFICES ASSUME NEW x \in s.nodes \ D
               PROVE  /\ lo2[x] = lo[x] /\ hi2[x] = hi[x] /\ h2[x] = h[x]
                      /\ s.up[x] \in D => r.up[x] \in D
                         /\ (x = r.left[r.up[x]] \/ x = r.right[r.up[x]])
    BY <1>13 DEF Turned, SameOutside
  <2>1. x \in Keys /\ x # Null /\ x # p /\ x # l /\ x # n
    BY <1>1
  <2>2. s.up[x] \in D => x \in {a, b, c, d}
    <3> SUFFICES ASSUME s.up[x] \in D PROVE x = s.left[s.up[x]] \/ x = s.right[s.up[x]]
      BY <1>0, <1>1, <2>1
    <3> QED
      BY <1>0, <1>1, SoundUp
  <2>3. (x = a => r.up[x] \in D /\ (x = r.left[r.up[x]] \/ x = r.right[r.up[x]]))
          /\ (x = b => r.up[x] \in D /\ (x = r.left[r.up[x]] \/ x = r.right[r.up[x]]))
             /\ (x = c => r.up[x] \in D /\ (x = r.left[r.up[x]] \/ x = r.right[r.up[x]]))
                /\ (x = d => r.up[x] \in D /\ (x = r.left[r.up[x]] \/ x = r.right[r.up[x]]))
    BY <2>1, <1>13
  <2> QED
    BY <1>9, <2>1, <2>2, <2>3
<1>15. SameAbove(s, top, lo, hi, h, r, lo2, hi2, h2, p, p)
  BY <1>0, <1>1, <1>6, <1>7, <1>10, <1>13 DEF SameAbove, Height
<1>16. Exchange(s, top, Null, n, r, top2, Null, hot2, D, D, p, p)
  BY <1>0, <1>1, <1>4, <1>13 DEF Exchange
<1>17. SoundInside(r, lo2, hi2, h2, Null, hot2, D, p)
  <2>1. (a \in r.red <=> a \in s.red) /\ (b \in r.red <=> b \in s.red)
          /\ (c \in r.red <=> c \in s.red) /\ (d \in r.red <=> d \in s.red) /\ Null \notin r.red
    <3>1. \A x \in s.nodes \ D : x \in r.red <=> x \in s.red
      BY <1>13 DEF Turned
    <3>2. Null \notin r.red
      BY <1>1, <1>13 DEF Trees
    <3> HIDE DEF a, b, c, d
    <3> QED
      BY <1>1, <1>5, <3>1, <3>2
  <2>2. Height(h2, p) = h2[p] /\ Height(h2, l) = h2[l] /\ Height(h2, n) = h2[n]
    BY <1>1 DEF Height
  <2>3. a \in r.nodes \cup {Null} /\ b \in r.nodes \cup {Null} /\ c \in r.nodes \cup {Null}
          /\ d \in r.nodes \cup {Null}
    BY <1>5, <1>13
  <2> HIDE DEF a, b, c, d, D
  <2>4. Placed(r, lo2, hi2, Null, p) /\ Weighed(r, h2, hot2, p) /\ Coloured(r, p)
    <3>1. Placed(r, lo2, hi2, Null, p)
      BY <1>0, <1>1, <1>3, <1>4, <1>10, <1>11, <1>13, <2>3 DEF Placed
    <3>2. Weighed(r, h2, hot2, p)
      <4>1. Height(h2, l) = B + 1 /\ Height(h2, n) = B + 1 /\ h2[p] = B + 1 + grown
              /\ r.left[p] = l /\ r.right[p] = n
        BY <1>10, <1>11, <2>2, <1>13
      <4>2. p \notin r.red /\ (p = hot2 <=> grown = 0) /\ grown \in {0, 1} /\ B \in Nat
        BY <1>1, <1>4, <1>6, <1>13
      <4> QED
        BY <4>1, <4>2 DEF Weighed
    <3>3. Coloured(r, p)
      BY <1>0, <1>7, <1>13, <2>1 DEF Coloured
    <3> QED
      BY <3>1, <3>2, <3>3
  <2>5. Placed(r, lo2, hi2, Null, l) /\ Weighed(r, h2, hot2, l) /\ Coloured(r, l)
    <3>1. Placed(r, lo2, hi2, Null, l)
      BY <1>0, <1>1, <1>3, <1>4, <1>10, <1>11, <1>13, <2>3 DEF Placed
    <3>2. Weighed(r, h2, hot2, l)
      <4>1. Height(h2, a) = B /\ Height(h2, b) = B /\ h2[l] = B + 1 /\ r.left[l] = a
              /\ r.right[l] = b
        BY <1>10, <1>11, <2>2, <1>13
      <4>2. l \notin r.red /\ l # hot2 /\ B \in Nat
        BY <1>1, <1>4, <1>6, <1>13
      <4> QED
        BY <4>1, <4>2 DEF Weighed
    <3>3. Coloured(r, l)
      BY <1>0, <1>7, <1>13, <2>1 DEF Coloured
    <3> QED
      BY <3>1, <3>2, <3>3
  <2>6. Placed(r, lo2, hi2, Null, n) /\ Weighed(r, h2, hot2, n) /\ Coloured(r, n)
    <3>1. Placed(r, lo2, hi2, Null, n)
      BY <1>0, <1>1, <1>3, <1>4, <1>10, <1>11, <1>13, <2>3 DEF Placed
    <3>2. Weighed(r, h2, hot2, n)
      <4>1. Height(h2, c) = B /\ Height(h2, d) = B /\ h2[n] = B + 1 /\ r.left[n] = c
              /\ r.right[n] = d
        BY <1>10, <1>11, <2>2, <1>13
      <4>2. n \notin r.red /\ n # hot2 /\ B \in Nat
        BY <1>1, <1>4, <1>6, <1>13
      <4> QED
        BY <4>1, <4>2 DEF Weighed
    <3>3. Coloured(r, n)
      BY <1>0, <1>7, <1>13, <2>1 DEF Coloured
    <3> QED
      BY <3>1, <3>2, <3>3
  <2>7. \A x \in D : x = p \/ (r.up[x] \in D /\ (x = r.left[r.up[x]] \/ x = r.right[r.up[x]]))
    BY <1>13 DEF D
  <2> QED
    BY <2>4, <2>5, <2>6, <2>7 DEF SoundInside, D
<1>18. Sound(r, top2, lo2, hi2, h2, Null, hot2)
  <2>1. p # top \/ (p # Null /\ p \notin r.red /\ p # hot2)
    BY <1>0, <1>1, <1>4, <1>13 DEF Sound
  <2>2. r \in Trees
    BY <1>13
  <2> HIDE DEF D, top2
  <2> QED
    BY <1>8, <1>12, <1>14, <1>15, <1>16, <1>17, <2>1, <2>2, ReplacedSound
<1>19. Height(h2, top2) = Height(h, top) + grown
  <2>1. top \in Keys /\ top # Null
    BY <1>0, <1>1 DEF Sound
  <2>2. top # p => h2[top] = h[top]
    BY <1>4, <1>9, <2>1
  <2>3. h2[p] = h[p] + grown \/ p # top
    BY <1>1, <1>6, <1>10
  <2>4. h[top] \in Nat
    BY <2>1 DEF Labels
  <2> QED
    BY <1>1, <2>1, <2>2, <2>3, <2>4 DEF Height
<1> HIDE DEF top2, lo2, hi2, h2
<1>20. \E l2, i2, e2 : Labels(l2, i2, e2) /\ Sound(r, top2, l2, i2, e2, Null, hot2)
         /\ Height(e2, top2) = Height(h, top) + grown
  BY <1>8, <1>18, <1>19
<1> QED
  BY <1>20 DEF top2

(* A 4-node: n to the right of l, the red left child of p.                 *)
Between(s, p, l, n) ==
  /\ p \in s.nodes /\ l \in s.nodes /\ n \in s.nodes /\ s.left[p] = l /\ s.right[l] = n
  /\ p \notin s.red /\ p \in s.redlink /\ l \in s.red /\ n \notin s.red /\ n \notin s.redlink

(* Split: n in the place of p, between l and p.                            *)
SplitBetween(s, r, p, l, n) ==
  /\ r \in Trees /\ r.nodes = s.nodes
  /\ Turned(s, r, {p, l, n}, p, n)
  /\ p \notin r.red /\ p \notin r.redlink /\ l \notin r.red
  /\ (l \in r.redlink <=> l \in s.redlink) /\ n \notin r.red /\ n \notin r.redlink
  /\ r.left[p] = s.right[n] /\ r.right[p] = s.right[p]
  /\ r.left[l] = s.left[l] /\ r.right[l] = s.left[n]
  /\ r.left[n] = l /\ r.right[n] = p
  /\ r.up[n] = s.up[p] /\ r.up[p] = n /\ r.up[l] = n
  /\ s.right[p] # Null => r.up[s.right[p]] = p
  /\ s.left[l] # Null => r.up[s.left[l]] = l
  /\ s.left[n] # Null => r.up[s.left[n]] = l
  /\ s.right[n] # Null => r.up[s.right[n]] = p

(* The nodes that hang from the part, and the intervals of all of them.    *)
BetweenAround(s, top, lo, hi, h, p, l, n) ==
  LET D == {p, l, n}
      d == s.right[p]
      a == s.left[l]
      b == s.left[n]
      c == s.right[n]
  IN  /\ p \in Keys /\ p \in Int /\ p # Null /\ lo[p] \in Int /\ hi[p] \in Int /\ h[p] \in Nat
      /\ l \in Keys /\ l \in Int /\ l # Null /\ lo[l] \in Int /\ hi[l] \in Int /\ h[l] \in Nat
      /\ n \in Keys /\ n \in Int /\ n # Null /\ lo[n] \in Int /\ hi[n] \in Int /\ h[n] \in Nat
      /\ Null \notin Keys /\ s.nodes \subseteq Keys /\ Null \notin s.nodes /\ Null \notin s.red
      /\ lo[p] < p /\ p < hi[p]
      /\ lo[l] = lo[p] /\ hi[l] = p /\ lo[p] < l /\ l < p /\ s.up[l] = p
      /\ lo[n] = l /\ hi[n] = p /\ l < n /\ n < p /\ s.up[n] = l
      /\ p # l /\ p # n /\ l # n /\ l # top /\ n # top
      /\ d \in s.nodes \cup {Null}
         /\ (d # Null => d \in s.nodes \ D /\ d \in Keys /\ s.up[d] = p /\ lo[d] = p
            /\ hi[d] = hi[p])
      /\ a \in s.nodes \cup {Null}
         /\ (a # Null => a \in s.nodes \ D /\ a \in Keys /\ s.up[a] = l /\ lo[a] = lo[p]
            /\ hi[a] = l)
      /\ b \in s.nodes \cup {Null}
         /\ (b # Null => b \in s.nodes \ D /\ b \in Keys /\ s.up[b] = n /\ lo[b] = l
            /\ hi[b] = n)
      /\ c \in s.nodes \cup {Null}
         /\ (c # Null => c \in s.nodes \ D /\ c \in Keys /\ s.up[c] = n /\ lo[c] = n
            /\ hi[c] = p)
      /\ s.up[p] \notin D /\ (b # Null => b # c)

(* They are nodes of their own.                                            *)
LEMMA BetweenApart ==
  ASSUME NEW s, NEW top, NEW lo, NEW hi, NEW h, s \in Trees, Labels(lo, hi, h),
         NEW p, NEW l, NEW n, Sound(s, top, lo, hi, h, Null, n), Between(s, p, l, n)
  PROVE  BetweenAround(s, top, lo, hi, h, p, l, n)
<1> DEFINE D == {p, l, n}
           d == s.right[p]
           a == s.left[l]
           b == s.left[n]
           c == s.right[n]
<1>1. /\ p \in Keys /\ p \in Int /\ p # Null /\ lo[p] \in Int /\ hi[p] \in Int /\ h[p] \in Nat
      /\ l \in Keys /\ l \in Int /\ l # Null /\ lo[l] \in Int /\ hi[l] \in Int /\ h[l] \in Nat
      /\ n \in Keys /\ n \in Int /\ n # Null /\ lo[n] \in Int /\ hi[n] \in Int /\ h[n] \in Nat
      /\ Null \notin Keys /\ s.nodes \subseteq Keys /\ Null \notin s.nodes /\ Null \notin s.red
  BY SoundNode, KeysFinite DEF Trees, Between
<1>2. /\ Placed(s, lo, hi, Null, p) /\ Hung(s, top, p) /\ Weighed(s, h, n, p) /\ Coloured(s, p)
      /\ Placed(s, lo, hi, Null, l) /\ Hung(s, top, l) /\ Weighed(s, h, n, l) /\ Coloured(s, l)
      /\ Placed(s, lo, hi, Null, n) /\ Hung(s, top, n) /\ Weighed(s, h, n, n) /\ Coloured(s, n)
  BY SoundNode DEF Between
<1>3. /\ lo[p] < p /\ p < hi[p]
      /\ lo[l] = lo[p] /\ hi[l] = p /\ lo[p] < l /\ l < p /\ s.up[l] = p
      /\ lo[n] = l /\ hi[n] = p /\ l < n /\ n < p /\ s.up[n] = l
  <2>1. lo[p] < p /\ p < hi[p]
    BY <1>1, <1>2 DEF Placed, Between
  <2>2. lo[p] < l /\ l < p /\ lo[l] = lo[p] /\ hi[l] = p /\ s.up[l] = p
    BY <1>1, <1>2, <2>1 DEF Placed, Between
  <2>3. l < n /\ n < p /\ lo[n] = l /\ hi[n] = p /\ s.up[n] = l
    BY <1>1, <1>2, <2>1, <2>2 DEF Placed, Between
  <2> QED
    BY <2>1, <2>2, <2>3
<1>4. /\ p # l /\ p # n /\ l # n /\ l # top /\ n # top
  <2>1. /\ p # l /\ p # n /\ l # n
    BY <1>1, <1>2, <1>3 DEF Placed, Between
  <2>2. l # top /\ n # top
    BY <1>1, <1>2, <1>3 DEF Hung, Between
  <2> QED
    BY <2>1, <2>2
<1>5. /\ d \in s.nodes \cup {Null}
         /\ (d # Null => d \in s.nodes \ D /\ d \in Keys /\ s.up[d] = p /\ lo[d] = p
            /\ hi[d] = hi[p])
      /\ a \in s.nodes \cup {Null}
         /\ (a # Null => a \in s.nodes \ D /\ a \in Keys /\ s.up[a] = l /\ lo[a] = lo[p]
            /\ hi[a] = l)
      /\ b \in s.nodes \cup {Null}
         /\ (b # Null => b \in s.nodes \ D /\ b \in Keys /\ s.up[b] = n /\ lo[b] = l
            /\ hi[b] = n)
      /\ c \in s.nodes \cup {Null}
         /\ (c # Null => c \in s.nodes \ D /\ c \in Keys /\ s.up[c] = n /\ lo[c] = n
            /\ hi[c] = p)
  <2>1. d \in s.nodes \cup {Null} /\ (d # Null => s.up[d] = p /\ lo[d] = p /\ hi[d] = hi[p])
    BY <1>1, <1>2, <1>3 DEF Placed, Between
  <2>1a. d # Null => d \notin D
    BY <1>1, <1>3, <1>4, <2>1, <1>2 DEF Hung, Between
  <2>2. a \in s.nodes \cup {Null} /\ (a # Null => s.up[a] = l /\ lo[a] = lo[p] /\ hi[a] = l)
    BY <1>1, <1>2, <1>3 DEF Placed, Between
  <2>2a. a # Null => a \notin D
    BY <1>1, <1>3, <1>4, <2>2, <1>2 DEF Hung, Between
  <2>3. b \in s.nodes \cup {Null} /\ (b # Null => s.up[b] = n /\ lo[b] = l /\ hi[b] = n)
    BY <1>1, <1>2, <1>3 DEF Placed, Between
  <2>3a. b # Null => b \notin D
    BY <1>1, <1>3, <1>4, <2>3, <1>2 DEF Hung, Between
  <2>4. c \in s.nodes \cup {Null} /\ (c # Null => s.up[c] = n /\ lo[c] = n /\ hi[c] = p)
    BY <1>1, <1>2, <1>3 DEF Placed, Between
  <2>4a. c # Null => c \notin D
    BY <1>1, <1>3, <1>4, <2>4, <1>2 DEF Hung, Between
  <2> QED
    BY <1>1, <2>1, <2>1a, <2>2, <2>2a, <2>3, <2>3a, <2>4, <2>4a
<1>6. /\ s.up[p] \notin D /\ (b # Null => b # c)
  <2>1. s.up[p] \notin D
    <3>1. s.up[p] = Null \/ p \in {s.left[s.up[p]], s.right[s.up[p]]}
      BY <1>1, <1>2 DEF Hung, Between
    <3>2. \A x \in D : p # s.left[x] /\ p # s.right[x] /\ x # Null
      BY <1>1, <1>2, <1>4, <1>5 DEF Placed, Between, Between
    <3> QED
      BY <3>1, <3>2
  <2>2. b # Null => b # c
    BY <1>1, <1>3, <1>5
  <2> QED
    BY <2>1, <2>2
<1> QED
  BY <1>1, <1>3, <1>4, <1>5, <1>6 DEF BetweenAround

(* The rules hold again once the part is replaced.                         *)
LEMMA SplitBetweenSound ==
  ASSUME NEW s, NEW top, NEW lo, NEW hi, NEW h, s \in Trees, Labels(lo, hi, h),
         NEW p, NEW l, NEW n, Sound(s, top, lo, hi, h, Null, n), Between(s, p, l, n),
         NEW grown, NEW hot2, grown \in {0, 1},
         (p = top /\ grown = 1 /\ hot2 = Null) \/ (p # top /\ grown = 0 /\ hot2 = n),
         NEW r, SplitBetween(s, r, p, l, n)
  PROVE  \E lo2, hi2, h2 : /\ Labels(lo2, hi2, h2)
                           /\ Sound(r, IF top = p THEN n ELSE top, lo2, hi2, h2, Null, hot2)
                           /\ Height(h2, IF top = p THEN n ELSE top) = Height(h, top) + grown
<1> DEFINE D == {p, l, n}
           top2 == IF top = p THEN n ELSE top
           d == s.right[p]
           a == s.left[l]
           b == s.left[n]
           c == s.right[n]
           B == h[n]
           lo2 == [lo EXCEPT ![p] = n, ![n] = lo[p]]
           hi2 == [hi EXCEPT ![l] = n, ![n] = hi[p]]
           h2 == [h EXCEPT ![l] = B + 1, ![n] = B + 1 + grown]
<1>a. BetweenAround(s, top, lo, hi, h, p, l, n)
  BY BetweenApart
<1>1. /\ p \in Keys /\ p \in Int /\ p # Null /\ lo[p] \in Int /\ hi[p] \in Int /\ h[p] \in Nat
      /\ l \in Keys /\ l \in Int /\ l # Null /\ lo[l] \in Int /\ hi[l] \in Int /\ h[l] \in Nat
      /\ n \in Keys /\ n \in Int /\ n # Null /\ lo[n] \in Int /\ hi[n] \in Int /\ h[n] \in Nat
      /\ Null \notin Keys /\ s.nodes \subseteq Keys /\ Null \notin s.nodes /\ Null \notin s.red
  BY <1>a DEF BetweenAround
<1>3. /\ lo[p] < p /\ p < hi[p]
      /\ lo[l] = lo[p] /\ hi[l] = p /\ lo[p] < l /\ l < p /\ s.up[l] = p
      /\ lo[n] = l /\ hi[n] = p /\ l < n /\ n < p /\ s.up[n] = l
  BY <1>a DEF BetweenAround
<1>4. /\ p # l /\ p # n /\ l # n /\ l # top /\ n # top
  BY <1>a DEF BetweenAround
<1>5. /\ d \in s.nodes \cup {Null}
         /\ (d # Null => d \in s.nodes \ D /\ d \in Keys /\ s.up[d] = p /\ lo[d] = p
            /\ hi[d] = hi[p])
      /\ a \in s.nodes \cup {Null}
         /\ (a # Null => a \in s.nodes \ D /\ a \in Keys /\ s.up[a] = l /\ lo[a] = lo[p]
            /\ hi[a] = l)
      /\ b \in s.nodes \cup {Null}
         /\ (b # Null => b \in s.nodes \ D /\ b \in Keys /\ s.up[b] = n /\ lo[b] = l
            /\ hi[b] = n)
      /\ c \in s.nodes \cup {Null}
         /\ (c # Null => c \in s.nodes \ D /\ c \in Keys /\ s.up[c] = n /\ lo[c] = n
            /\ hi[c] = p)
  BY <1>a DEF BetweenAround
<1>2. /\ Placed(s, lo, hi, Null, p) /\ Hung(s, top, p) /\ Weighed(s, h, n, p) /\ Coloured(s, p)
      /\ Placed(s, lo, hi, Null, l) /\ Hung(s, top, l) /\ Weighed(s, h, n, l) /\ Coloured(s, l)
      /\ Placed(s, lo, hi, Null, n) /\ Hung(s, top, n) /\ Weighed(s, h, n, n) /\ Coloured(s, n)
  BY SoundNode DEF Between
<1>0. /\ p \in s.nodes /\ l \in s.nodes /\ n \in s.nodes /\ s.left[p] = l /\ s.right[l] = n
      /\ p \notin s.red /\ p \in s.redlink /\ l \in s.red /\ n \notin s.red
         /\ n \notin s.redlink
  BY DEF Between
<1>6. /\ h[p] = B + 1 /\ h[l] = B /\ h[n] = B /\ Height(h, d) = B
      /\ Height(h, a) = B /\ Height(h, b) = B /\ Height(h, c) = B /\ B \in Nat
  <2>1. Height(h, d) \in Nat /\ Height(h, a) \in Nat /\ Height(h, b) \in Nat
          /\ Height(h, c) \in Nat
    BY <1>1, <1>5, HeightIs
  <2>2. Height(h, p) = h[p] /\ Height(h, l) = h[l] /\ Height(h, n) = h[n]
    BY <1>1 DEF Height
  <2>3. h[p] = h[l] + 1 /\ h[p] = Height(h, d) + 1
    BY <1>0, <1>1, <1>2, <1>4, <2>2 DEF Weighed
  <2>4. h[l] = Height(h, a) + 0 /\ h[l] = h[n] + 0
    BY <1>0, <1>1, <1>2, <1>4, <2>2 DEF Weighed
  <2>5. h[n] = Height(h, b) + 0 /\ h[n] = Height(h, c) + 0
    BY <1>0, <1>1, <1>2, <1>4, <2>2 DEF Weighed
  <2>6. h[p] \in Nat /\ h[l] \in Nat /\ h[n] \in Nat
    BY <1>1
  <2> HIDE DEF d, a, b, c
  <2> QED
    BY <2>1, <2>3, <2>4, <2>5, <2>6
<1>7. /\ d \notin s.red
      /\ (l \in s.red <=> p \in s.redlink) /\ (p \in s.red => l \notin s.red)
      /\ n \notin s.red
      /\ (a \in s.red <=> l \in s.redlink) /\ (l \in s.red => a \notin s.red)
      /\ c \notin s.red
      /\ (b \in s.red <=> n \in s.redlink) /\ (n \in s.red => b \notin s.red)
  BY <1>0, <1>1, <1>2 DEF Coloured
<1>8. Labels(lo2, hi2, h2)
  BY <1>1, <1>6 DEF Labels
<1>9. /\ \A x \in Keys : (x # p /\ x # n => lo2[x] = lo[x])
         /\ (x # l /\ x # n => hi2[x] = hi[x]) /\ (x # l /\ x # n => h2[x] = h[x])
      /\ lo2[p] = n /\ lo2[n] = lo[p] /\ hi2[l] = n /\ hi2[n] = hi[p] /\ h2[l] = B + 1
         /\ h2[n] = B + 1 + grown
  <2> HIDE DEF B
  <2> QED
    BY <1>1, <1>4 DEF Labels
<1> HIDE DEF lo2, hi2, h2, B
<1>10. /\ lo2[p] = n /\ hi2[p] = hi[p] /\ h2[p] = B + 1
       /\ lo2[l] = lo[p] /\ hi2[l] = n /\ h2[l] = B + 1
       /\ lo2[n] = lo[p] /\ hi2[n] = hi[p] /\ h2[n] = B + 1 + grown
  BY <1>1, <1>3, <1>4, <1>6, <1>9
<1>11. /\ d # Null => lo2[d] = p /\ hi2[d] = hi[p]
       /\ a # Null => lo2[a] = lo[p] /\ hi2[a] = l
       /\ b # Null => lo2[b] = l /\ hi2[b] = n
       /\ c # Null => lo2[c] = n /\ hi2[c] = p
       /\ Height(h2, d) = B
       /\ Height(h2, a) = B
       /\ Height(h2, b) = B
       /\ Height(h2, c) = B
  <2>1. (d # Null => d # p /\ d # l /\ d # n) /\ (a # Null => a # p /\ a # l /\ a # n)
          /\ (b # Null => b # p /\ b # l /\ b # n) /\ (c # Null => c # p /\ c # l /\ c # n)
    BY <1>1, <1>5
  <2> HIDE DEF d, a, b, c
  <2>2. (d # Null => lo2[d] = lo[d] /\ hi2[d] = hi[d] /\ h2[d] = h[d])
          /\ (a # Null => lo2[a] = lo[a] /\ hi2[a] = hi[a] /\ h2[a] = h[a])
             /\ (b # Null => lo2[b] = lo[b] /\ hi2[b] = hi[b] /\ h2[b] = h[b])
                /\ (c # Null => lo2[c] = lo[c] /\ hi2[c] = hi[c] /\ h2[c] = h[c])
    BY <1>5, <1>9, <2>1
  <2> QED
    BY <1>5, <1>6, <2>2 DEF Height
<1>12. Part(s, top, D, p)
  BY <1>0, <1>3, <1>4 DEF Part
<1>13. /\ r \in Trees /\ r.nodes = s.nodes /\ Turned(s, r, D, p, n)
       /\ p \notin r.red /\ p \notin r.redlink /\ l \notin r.red
       /\ (l \in r.redlink <=> l \in s.redlink) /\ n \notin r.red /\ n \notin r.redlink
       /\ r.left[p] = c /\ r.right[p] = d
       /\ r.left[l] = a /\ r.right[l] = b
       /\ r.left[n] = l /\ r.right[n] = p
       /\ r.up[n] = s.up[p] /\ r.up[p] = n /\ r.up[l] = n
       /\ d # Null => r.up[d] = p
       /\ a # Null => r.up[a] = l
       /\ b # Null => r.up[b] = l
       /\ c # Null => r.up[c] = p
  BY DEF SplitBetween
<1>14. SameOutside(s, lo, hi, h, r, lo2, hi2, h2, D, D, p, n)
  <2> SUFFICES ASSUME NEW x \in s.nodes \ D
               PROVE  /\ lo2[x] = lo[x] /\ hi2[x] = hi[x] /\ h2[x] = h[x]
                      /\ s.up[x] \in D => r.up[x] \in D
                         /\ (x = r.left[r.up[x]] \/ x = r.right[r.up[x]])
    BY <1>13 DEF Turned, SameOutside
  <2>1. x \in Keys /\ x # Null /\ x # p /\ x # l /\ x # n
    BY <1>1
  <2>2. s.up[x] \in D => x \in {d, a, b, c}
    <3> SUFFICES ASSUME s.up[x] \in D PROVE x = s.left[s.up[x]] \/ x = s.right[s.up[x]]
      BY <1>0, <1>1, <2>1
    <3> QED
      BY <1>0, <1>1, SoundUp
  <2>3. (x = d => r.up[x] \in D /\ (x = r.left[r.up[x]] \/ x = r.right[r.up[x]]))
          /\ (x = a => r.up[x] \in D /\ (x = r.left[r.up[x]] \/ x = r.right[r.up[x]]))
             /\ (x = b => r.up[x] \in D /\ (x = r.left[r.up[x]] \/ x = r.right[r.up[x]]))
                /\ (x = c => r.up[x] \in D /\ (x = r.left[r.up[x]] \/ x = r.right[r.up[x]]))
    BY <2>1, <1>13
  <2> QED
    BY <1>9, <2>1, <2>2, <2>3
<1>15. SameAbove(s, top, lo, hi, h, r, lo2, hi2, h2, p, n)
  BY <1>0, <1>1, <1>6, <1>7, <1>10, <1>13 DEF SameAbove, Height
<1>16. Exchange(s, top, Null, n, r, top2, Null, hot2, D, D, p, n)
  BY <1>0, <1>1, <1>4, <1>13 DEF Exchange
<1>17. SoundInside(r, lo2, hi2, h2, Null, hot2, D, n)
  <2>1. (d \in r.red <=> d \in s.red) /\ (a \in r.red <=> a \in s.red)
          /\ (b \in r.red <=> b \in s.red) /\ (c \in r.red <=> c \in s.red) /\ Null \notin r.red
    <3>1. \A x \in s.nodes \ D : x \in r.red <=> x \in s.red
      BY <1>13 DEF Turned
    <3>2. Null \notin r.red
      BY <1>1, <1>13 DEF Trees
    <3> HIDE DEF d, a, b, c
    <3> QED
      BY <1>1, <1>5, <3>1, <3>2
  <2>2. Height(h2, p) = h2[p] /\ Height(h2, l) = h2[l] /\ Height(h2, n) = h2[n]
    BY <1>1 DEF Height
  <2>3. d \in r.nodes \cup {Null} /\ a \in r.nodes \cup {Null} /\ b \in r.nodes \cup {Null}
          /\ c \in r.nodes \cup {Null}
    BY <1>5, <1>13
  <2> HIDE DEF d, a, b, c, D
  <2>4. Placed(r, lo2, hi2, Null, p) /\ Weighed(r, h2, hot2, p) /\ Coloured(r, p)
    <3>1. Placed(r, lo2, hi2, Null, p)
      BY <1>0, <1>1, <1>3, <1>4, <1>10, <1>11, <1>13, <2>3 DEF Placed
    <3>2. Weighed(r, h2, hot2, p)
      <4>1. Height(h2, c) = B /\ Height(h2, d) = B /\ h2[p] = B + 1 /\ r.left[p] = c
              /\ r.right[p] = d
        BY <1>10, <1>11, <2>2, <1>13
      <4>2. p \notin r.red /\ p # hot2 /\ B \in Nat
        BY <1>1, <1>4, <1>6, <1>13
      <4> QED
        BY <4>1, <4>2 DEF Weighed
    <3>3. Coloured(r, p)
      BY <1>0, <1>7, <1>13, <2>1 DEF Coloured
    <3> QED
      BY <3>1, <3>2, <3>3
  <2>5. Placed(r, lo2, hi2, Null, l) /\ Weighed(r, h2, hot2, l) /\ Coloured(r, l)
    <3>1. Placed(r, lo2, hi2, Null, l)
      BY <1>0, <1>1, <1>3, <1>4, <1>10, <1>11, <1>13, <2>3 DEF Placed
    <3>2. Weighed(r, h2, hot2, l)
      <4>1. Height(h2, a) = B /\ Height(h2, b) = B /\ h2[l] = B + 1 /\ r.left[l] = a
              /\ r.right[l] = b
        BY <1>10, <1>11, <2>2, <1>13
      <4>2. l \notin r.red /\ l # hot2 /\ B \in Nat
        BY <1>1, <1>4, <1>6, <1>13
      <4> QED
        BY <4>1, <4>2 DEF Weighed
    <3>3. Coloured(r, l)
      BY <1>0, <1>7, <1>13, <2>1 DEF Coloured
    <3> QED
      BY <3>1, <3>2, <3>3
  <2>6. Placed(r, lo2, hi2, Null, n) /\ Weighed(r, h2, hot2, n) /\ Coloured(r, n)
    <3>1. Placed(r, lo2, hi2, Null, n)
      BY <1>0, <1>1, <1>3, <1>4, <1>10, <1>11, <1>13, <2>3 DEF Placed
    <3>2. Weighed(r, h2, hot2, n)
      <4>1. Height(h2, l) = B + 1 /\ Height(h2, p) = B + 1 /\ h2[n] = B + 1 + grown
              /\ r.left[n] = l /\ r.right[n] = p
        BY <1>10, <1>11, <2>2, <1>13
      <4>2. n \notin r.red /\ (n = hot2 <=> grown = 0) /\ grown \in {0, 1} /\ B \in Nat
        BY <1>1, <1>4, <1>6, <1>13
      <4> QED
        BY <4>1, <4>2 DEF Weighed
    <3>3. Coloured(r, n)
      BY <1>0, <1>7, <1>13, <2>1 DEF Coloured
    <3> QED
      BY <3>1, <3>2, <3>3
  <2>7. \A x \in D : x = n \/ (r.up[x] \in D /\ (x = r.left[r.up[x]] \/ x = r.right[r.up[x]]))
    BY <1>13 DEF D
  <2> QED
    BY <2>4, <2>5, <2>6, <2>7 DEF SoundInside, D
<1>18. Sound(r, top2, lo2, hi2, h2, Null, hot2)
  <2>1. p # top \/ (n # Null /\ n \notin r.red /\ n # hot2)
    BY <1>0, <1>1, <1>4, <1>13 DEF Sound
  <2>2. r \in Trees
    BY <1>13
  <2> HIDE DEF D, top2
  <2> QED
    BY <1>8, <1>12, <1>14, <1>15, <1>16, <1>17, <2>1, <2>2, ReplacedSound
<1>19. Height(h2, top2) = Height(h, top) + grown
  <2>1. top \in Keys /\ top # Null
    BY <1>0, <1>1 DEF Sound
  <2>2. top # p => h2[top] = h[top]
    BY <1>4, <1>9, <2>1
  <2>3. h2[n] = h[p] + grown \/ p # top
    BY <1>1, <1>6, <1>10
  <2>4. h[top] \in Nat
    BY <2>1 DEF Labels
  <2> QED
    BY <1>1, <2>1, <2>2, <2>3, <2>4 DEF Height
<1> HIDE DEF top2, lo2, hi2, h2
<1>20. \E l2, i2, e2 : Labels(l2, i2, e2) /\ Sound(r, top2, l2, i2, e2, Null, hot2)
         /\ Height(e2, top2) = Height(h, top) + grown
  BY <1>8, <1>18, <1>19
<1> QED
  BY <1>20 DEF top2

(* The hole n is the red left child of p.                                  *)
RedOne(s, p, n) ==
  /\ p \in s.nodes /\ n \in s.nodes /\ s.left[p] = n /\ p \notin s.red /\ n \in s.red

(* n is gone, its child black in its place.                                *)
CutRed(s, r, p, n) ==
  /\ r \in Trees /\ r.nodes = s.nodes \ {n}
  /\ Turned(s, r, {p, n}, p, p)
  /\ p \notin r.red /\ p \notin r.redlink
  /\ r.left[p] = s.left[n] /\ r.right[p] = s.right[p]
  /\ r.up[p] = s.up[p]
  /\ s.right[p] # Null => r.up[s.right[p]] = p
  /\ s.left[n] # Null => r.up[s.left[n]] = p

(* The nodes that hang from the part, and the intervals of all of them.    *)
RedOneAround(s, top, lo, hi, h, p, n) ==
  LET D == {p, n}
      b == s.right[p]
      c == s.left[n]
  IN  /\ p \in Keys /\ p \in Int /\ p # Null /\ lo[p] \in Int /\ hi[p] \in Int /\ h[p] \in Nat
      /\ n \in Keys /\ n \in Int /\ n # Null /\ lo[n] \in Int /\ hi[n] \in Int /\ h[n] \in Nat
      /\ Null \notin Keys /\ s.nodes \subseteq Keys /\ Null \notin s.nodes /\ Null \notin s.red
      /\ lo[p] < p /\ p < hi[p]
      /\ lo[n] = lo[p] /\ hi[n] = p /\ s.up[n] = p
      /\ p # n /\ n # top
      /\ b \in s.nodes \cup {Null}
         /\ (b # Null => b \in s.nodes \ D /\ b \in Keys /\ s.up[b] = p /\ lo[b] = p
            /\ hi[b] = hi[p])
      /\ c \in s.nodes \cup {Null}
         /\ (c # Null => c \in s.nodes \ D /\ c \in Keys /\ s.up[c] = n /\ lo[c] = lo[p]
            /\ hi[c] = p)
      /\ s.up[p] \notin D

(* They are nodes of their own.                                            *)
LEMMA RedOneApart ==
  ASSUME NEW s, NEW top, NEW lo, NEW hi, NEW h, s \in Trees, Labels(lo, hi, h),
         NEW p, NEW n, Sound(s, top, lo, hi, h, n, Null), RedOne(s, p, n)
  PROVE  RedOneAround(s, top, lo, hi, h, p, n)
<1> DEFINE D == {p, n}
           b == s.right[p]
           c == s.left[n]
<1>1. /\ p \in Keys /\ p \in Int /\ p # Null /\ lo[p] \in Int /\ hi[p] \in Int /\ h[p] \in Nat
      /\ n \in Keys /\ n \in Int /\ n # Null /\ lo[n] \in Int /\ hi[n] \in Int /\ h[n] \in Nat
      /\ Null \notin Keys /\ s.nodes \subseteq Keys /\ Null \notin s.nodes /\ Null \notin s.red
  BY SoundNode, KeysFinite DEF Trees, RedOne
<1>2. /\ Placed(s, lo, hi, n, p) /\ Hung(s, top, p) /\ Weighed(s, h, Null, p) /\ Coloured(s, p)
      /\ Placed(s, lo, hi, n, n) /\ Hung(s, top, n) /\ Weighed(s, h, Null, n) /\ Coloured(s, n)
  BY SoundNode DEF RedOne
<1>3. /\ lo[p] < p /\ p < hi[p]
      /\ lo[n] = lo[p] /\ hi[n] = p /\ s.up[n] = p
  <2>1. lo[p] < p /\ p < hi[p]
    BY <1>1, <1>2 DEF Placed, RedOne
  <2>2. lo[n] = lo[p] /\ hi[n] = p /\ s.up[n] = p
    BY <1>1, <1>2, <2>1 DEF Placed, RedOne
  <2> QED
    BY <2>1, <2>2
<1>4. /\ p # n /\ n # top
  <2>1. /\ p # n
    BY <1>1, <1>2, <1>3 DEF Placed, RedOne
  <2>2. n # top
    BY <1>1, <1>2, <1>3 DEF Hung, RedOne
  <2> QED
    BY <2>1, <2>2
<1>5. /\ b \in s.nodes \cup {Null}
         /\ (b # Null => b \in s.nodes \ D /\ b \in Keys /\ s.up[b] = p /\ lo[b] = p
            /\ hi[b] = hi[p])
      /\ c \in s.nodes \cup {Null}
         /\ (c # Null => c \in s.nodes \ D /\ c \in Keys /\ s.up[c] = n /\ lo[c] = lo[p]
            /\ hi[c] = p)
  <2>1. b \in s.nodes \cup {Null} /\ (b # Null => s.up[b] = p /\ lo[b] = p /\ hi[b] = hi[p])
    BY <1>1, <1>2, <1>3 DEF Placed, RedOne
  <2>1a. b # Null => b \notin D
    BY <1>1, <1>3, <1>4, <2>1, <1>2 DEF Hung, RedOne
  <2>2. c \in s.nodes \cup {Null} /\ (c # Null => s.up[c] = n /\ lo[c] = lo[p] /\ hi[c] = p)
    BY <1>1, <1>2, <1>3 DEF Placed, RedOne
  <2>2a. c # Null => c \notin D
    BY <1>1, <1>3, <1>4, <2>2, <1>2 DEF Hung, RedOne
  <2> QED
    BY <1>1, <2>1, <2>1a, <2>2, <2>2a
<1>6. /\ s.up[p] \notin D
  <2>1. s.up[p] \notin D
    <3>1. s.up[p] = Null \/ p \in {s.left[s.up[p]], s.right[s.up[p]]}
      BY <1>1, <1>2 DEF Hung, RedOne
    <3>2. \A x \in D : p # s.left[x] /\ p # s.right[x] /\ x # Null
      BY <1>1, <1>2, <1>4, <1>5 DEF Placed, RedOne, RedOne
    <3> QED
      BY <3>1, <3>2
  <2> QED
    BY <2>1
<1> QED
  BY <1>1, <1>3, <1>4, <1>5, <1>6 DEF RedOneAround

(* The rules hold again once the part is replaced.                         *)
LEMMA CutRedSound ==
  ASSUME NEW s, NEW top, NEW lo, NEW hi, NEW h, s \in Trees, Labels(lo, hi, h),
         NEW p, NEW n, Sound(s, top, lo, hi, h, n, Null), RedOne(s, p, n),
         NEW r, CutRed(s, r, p, n)
  PROVE  \E lo2, hi2, h2 : /\ Labels(lo2, hi2, h2)
                           /\ Sound(r, top, lo2, hi2, h2, Null, Null)
                           /\ Height(h2, top) = Height(h, top)
<1> DEFINE D == {p, n}
           E == {p}
           top2 == top
           b == s.right[p]
           c == s.left[n]
           B == Height(h, c)
           lo2 == lo
           hi2 == hi
           h2 == h
<1>a. RedOneAround(s, top, lo, hi, h, p, n)
  BY RedOneApart
<1>1. /\ p \in Keys /\ p \in Int /\ p # Null /\ lo[p] \in Int /\ hi[p] \in Int /\ h[p] \in Nat
      /\ n \in Keys /\ n \in Int /\ n # Null /\ lo[n] \in Int /\ hi[n] \in Int /\ h[n] \in Nat
      /\ Null \notin Keys /\ s.nodes \subseteq Keys /\ Null \notin s.nodes /\ Null \notin s.red
  BY <1>a DEF RedOneAround
<1>3. /\ lo[p] < p /\ p < hi[p]
      /\ lo[n] = lo[p] /\ hi[n] = p /\ s.up[n] = p
  BY <1>a DEF RedOneAround
<1>4. /\ p # n /\ n # top
  BY <1>a DEF RedOneAround
<1>5. /\ b \in s.nodes \cup {Null}
         /\ (b # Null => b \in s.nodes \ D /\ b \in Keys /\ s.up[b] = p /\ lo[b] = p
            /\ hi[b] = hi[p])
      /\ c \in s.nodes \cup {Null}
         /\ (c # Null => c \in s.nodes \ D /\ c \in Keys /\ s.up[c] = n /\ lo[c] = lo[p]
            /\ hi[c] = p)
  BY <1>a DEF RedOneAround
<1>2. /\ Placed(s, lo, hi, n, p) /\ Hung(s, top, p) /\ Weighed(s, h, Null, p) /\ Coloured(s, p)
      /\ Placed(s, lo, hi, n, n) /\ Hung(s, top, n) /\ Weighed(s, h, Null, n) /\ Coloured(s, n)
  BY SoundNode DEF RedOne
<1>0. /\ p \in s.nodes /\ n \in s.nodes /\ s.left[p] = n /\ p \notin s.red /\ n \in s.red
  BY DEF RedOne
<1>6. /\ h[p] = B + 1 /\ h[n] = B /\ Height(h, b) = B /\ Height(h, c) = B
      /\ B \in Nat
  <2>1. Height(h, b) \in Nat /\ Height(h, c) \in Nat
    BY <1>1, <1>5, HeightIs
  <2>2. Height(h, p) = h[p] /\ Height(h, n) = h[n]
    BY <1>1 DEF Height
  <2>3. h[p] = h[n] + 1 /\ h[p] = Height(h, b) + 1
    BY <1>0, <1>1, <1>2, <1>4, <2>2 DEF Weighed
  <2>4. h[n] = Height(h, c) + 0
    BY <1>0, <1>1, <1>2, <1>4, <2>2 DEF Weighed, Placed
  <2>5. h[p] \in Nat /\ h[n] \in Nat
    BY <1>1
  <2> HIDE DEF b, c
  <2> QED
    BY <2>1, <2>3, <2>4, <2>5
<1>7. /\ b \notin s.red
      /\ (n \in s.red <=> p \in s.redlink) /\ (p \in s.red => n \notin s.red)
      /\ c \notin s.red
      /\ (c \in s.red <=> n \in s.redlink) /\ (n \in s.red => c \notin s.red)
  BY <1>0, <1>1, <1>2 DEF Coloured, Placed
<1>8. Labels(lo2, hi2, h2)
  BY <1>1, <1>6 DEF Labels
<1>9. /\ \A x \in Keys : lo2[x] = lo[x] /\ hi2[x] = hi[x] /\ h2[x] = h[x]
  <2> HIDE DEF B
  <2> QED
    BY <1>1, <1>4 DEF Labels
<1> HIDE DEF lo2, hi2, h2, B
<1>10. /\ lo2[p] = lo[p] /\ hi2[p] = hi[p] /\ h2[p] = B + 1
  BY <1>1, <1>3, <1>4, <1>6, <1>9
<1>11. /\ b # Null => lo2[b] = p /\ hi2[b] = hi[p]
       /\ c # Null => lo2[c] = lo[p] /\ hi2[c] = p
       /\ Height(h2, b) = B
       /\ Height(h2, c) = B
  <2>1. (b # Null => b # p /\ b # n) /\ (c # Null => c # p /\ c # n)
    BY <1>1, <1>5
  <2> HIDE DEF b, c
  <2>2. (b # Null => lo2[b] = lo[b] /\ hi2[b] = hi[b] /\ h2[b] = h[b])
          /\ (c # Null => lo2[c] = lo[c] /\ hi2[c] = hi[c] /\ h2[c] = h[c])
    BY <1>5, <1>9, <2>1
  <2> QED
    BY <1>5, <1>6, <2>2 DEF Height
<1>12. Part(s, top, D, p)
  BY <1>0, <1>3, <1>4 DEF Part
<1>13. /\ r \in Trees /\ r.nodes = s.nodes \ {n} /\ Turned(s, r, D, p, p)
       /\ p \notin r.red /\ p \notin r.redlink
       /\ r.left[p] = c /\ r.right[p] = b
       /\ r.up[p] = s.up[p]
       /\ b # Null => r.up[b] = p
       /\ c # Null => r.up[c] = p
  BY DEF CutRed
<1>14. SameOutside(s, lo, hi, h, r, lo2, hi2, h2, D, E, p, p)
  <2> SUFFICES ASSUME NEW x \in s.nodes \ D
               PROVE  /\ lo2[x] = lo[x] /\ hi2[x] = hi[x] /\ h2[x] = h[x]
                      /\ s.up[x] \in D => r.up[x] \in E
                         /\ (x = r.left[r.up[x]] \/ x = r.right[r.up[x]])
    BY <1>13 DEF Turned, SameOutside
  <2>1. x \in Keys /\ x # Null /\ x # p /\ x # n
    BY <1>1
  <2>2. s.up[x] \in D => x \in {b, c}
    <3> SUFFICES ASSUME s.up[x] \in D PROVE x = s.left[s.up[x]] \/ x = s.right[s.up[x]]
      BY <1>0, <1>1, <2>1, <1>2 DEF Placed
    <3> QED
      BY <1>0, <1>1, SoundUp
  <2>3. (x = b => r.up[x] \in E /\ (x = r.left[r.up[x]] \/ x = r.right[r.up[x]]))
          /\ (x = c => r.up[x] \in E /\ (x = r.left[r.up[x]] \/ x = r.right[r.up[x]]))
    BY <2>1, <1>13
  <2> QED
    BY <1>9, <2>1, <2>2, <2>3
<1>15. SameAbove(s, top, lo, hi, h, r, lo2, hi2, h2, p, p)
  BY <1>0, <1>1, <1>6, <1>7, <1>10, <1>13 DEF SameAbove, Height
<1>16. Exchange(s, top, n, Null, r, top2, Null, Null, D, E, p, p)
  BY <1>0, <1>1, <1>4, <1>13 DEF Exchange
<1>17. SoundInside(r, lo2, hi2, h2, Null, Null, E, p)
  <2>1. (b \in r.red <=> b \in s.red) /\ (c \in r.red <=> c \in s.red) /\ Null \notin r.red
    <3>1. \A x \in s.nodes \ D : x \in r.red <=> x \in s.red
      BY <1>13 DEF Turned
    <3>2. Null \notin r.red
      BY <1>1, <1>13 DEF Trees
    <3> HIDE DEF b, c
    <3> QED
      BY <1>1, <1>5, <3>1, <3>2
  <2>2. Height(h2, p) = h2[p]
    BY <1>1 DEF Height
  <2>3. b \in r.nodes \cup {Null} /\ c \in r.nodes \cup {Null}
    BY <1>5, <1>13
  <2> HIDE DEF b, c, D, E
  <2>4. Placed(r, lo2, hi2, Null, p) /\ Weighed(r, h2, Null, p) /\ Coloured(r, p)
    <3>1. Placed(r, lo2, hi2, Null, p)
      BY <1>0, <1>1, <1>3, <1>4, <1>10, <1>11, <1>13, <2>3 DEF Placed
    <3>2. Weighed(r, h2, Null, p)
      <4>1. Height(h2, c) = B /\ Height(h2, b) = B /\ h2[p] = B + 1 /\ r.left[p] = c
              /\ r.right[p] = b
        BY <1>10, <1>11, <2>2, <1>13
      <4>2. p \notin r.red /\ p # Null /\ B \in Nat
        BY <1>1, <1>4, <1>6, <1>13
      <4> QED
        BY <4>1, <4>2 DEF Weighed
    <3>3. Coloured(r, p)
      BY <1>0, <1>7, <1>13, <2>1 DEF Coloured
    <3> QED
      BY <3>1, <3>2, <3>3
  <2>5. \A x \in E : x = p \/ (r.up[x] \in E /\ (x = r.left[r.up[x]] \/ x = r.right[r.up[x]]))
    BY <1>13 DEF D, E
  <2> QED
    BY <2>4, <2>5 DEF SoundInside, D, E
<1>18. Sound(r, top2, lo2, hi2, h2, Null, Null)
  <2>1. p # top \/ (p # Null /\ p \notin r.red /\ p # Null)
    BY <1>0, <1>1, <1>4, <1>13 DEF Sound
  <2>2. r \in Trees
    BY <1>13
  <2> HIDE DEF D, top2, E
  <2> QED
    BY <1>8, <1>12, <1>14, <1>15, <1>16, <1>17, <2>1, <2>2, ReplacedSound
<1>19. Height(h2, top2) = Height(h, top)
  <2>1. top \in Keys /\ top # Null
    BY <1>0, <1>1 DEF Sound
  <2>2. top # p => h2[top] = h[top]
    BY <1>4, <1>9, <2>1
  <2>3. h2[p] = h[p]
    BY <1>1, <1>6, <1>10
  <2>4. h[top] \in Nat
    BY <2>1 DEF Labels
  <2> QED
    BY <1>1, <2>1, <2>2, <2>3, <2>4 DEF Height
<1> HIDE DEF top2, lo2, hi2, h2
<1>20. \E l2, i2, e2 : Labels(l2, i2, e2) /\ Sound(r, top2, l2, i2, e2, Null, Null)
         /\ Height(e2, top2) = Height(h, top)
  BY <1>8, <1>18, <1>19
<1> QED
  BY <1>20 DEF top2

(* The hole n is right of p; its brother b is red, the nephew m has a red  *)
(* child g.                                                                *)
RedBroRedNephew(s, p, n, b, m, g) ==
  /\ p \in s.nodes /\ n \in s.nodes /\ b \in s.nodes /\ m \in s.nodes /\ g \in s.nodes
  /\ s.left[p] = b /\ s.right[p] = n /\ s.right[b] = m /\ s.left[m] = g /\ p \notin s.red
  /\ n \notin s.red /\ b \in s.red /\ m \notin s.red /\ m \in s.redlink /\ g \in s.red

(* n is gone, m in the place of p, and what was g's is below b.            *)
TakenFromNephew(s, r, p, n, b, m, g) ==
  /\ r \in Trees /\ r.nodes = s.nodes \ {n}
  /\ Turned(s, r, {p, n, b, m, g}, p, m)
  /\ p \notin r.red /\ (p \in r.redlink <=> n \in s.redlink) /\ b \in r.red
  /\ (b \in r.redlink <=> b \in s.redlink) /\ m \notin r.red /\ m \in r.redlink
  /\ g \notin r.red /\ (g \in r.redlink <=> g \in s.redlink)
  /\ r.left[p] = s.right[m] /\ r.right[p] = s.left[n]
  /\ r.left[b] = s.left[b] /\ r.right[b] = g
  /\ r.left[m] = b /\ r.right[m] = p
  /\ r.left[g] = s.left[g] /\ r.right[g] = s.right[g]
  /\ r.up[m] = s.up[p] /\ r.up[p] = m /\ r.up[b] = m /\ r.up[g] = b
  /\ s.left[b] # Null => r.up[s.left[b]] = b
  /\ s.left[n] # Null => r.up[s.left[n]] = p
  /\ s.right[m] # Null => r.up[s.right[m]] = p
  /\ s.left[g] # Null => r.up[s.left[g]] = g
  /\ s.right[g] # Null => r.up[s.right[g]] = g

(* The nodes that hang from the part, and the intervals of all of them.    *)
RedBroRedNephewAround(s, top, lo, hi, h, p, n, b, m, g) ==
  LET D == {p, n, b, m, g}
      a == s.left[b]
      c == s.left[n]
      d == s.right[m]
      e == s.left[g]
      f == s.right[g]
  IN  /\ p \in Keys /\ p \in Int /\ p # Null /\ lo[p] \in Int /\ hi[p] \in Int /\ h[p] \in Nat
      /\ n \in Keys /\ n \in Int /\ n # Null /\ lo[n] \in Int /\ hi[n] \in Int /\ h[n] \in Nat
      /\ b \in Keys /\ b \in Int /\ b # Null /\ lo[b] \in Int /\ hi[b] \in Int /\ h[b] \in Nat
      /\ m \in Keys /\ m \in Int /\ m # Null /\ lo[m] \in Int /\ hi[m] \in Int /\ h[m] \in Nat
      /\ g \in Keys /\ g \in Int /\ g # Null /\ lo[g] \in Int /\ hi[g] \in Int /\ h[g] \in Nat
      /\ Null \notin Keys /\ s.nodes \subseteq Keys /\ Null \notin s.nodes /\ Null \notin s.red
      /\ lo[p] < p /\ p < hi[p]
      /\ lo[b] = lo[p] /\ hi[b] = p /\ lo[p] < b /\ b < p /\ s.up[b] = p
      /\ lo[n] = p /\ hi[n] = hi[p] /\ s.up[n] = p
      /\ lo[m] = b /\ hi[m] = p /\ b < m /\ m < p /\ s.up[m] = b
      /\ lo[g] = b /\ hi[g] = m /\ b < g /\ g < m /\ s.up[g] = m
      /\ p # n /\ p # b /\ p # m /\ p # g /\ n # b /\ n # m
      /\ n # g /\ b # m /\ b # g /\ m # g /\ n # top /\ b # top
      /\ m # top /\ g # top
      /\ a \in s.nodes \cup {Null}
         /\ (a # Null => a \in s.nodes \ D /\ a \in Keys /\ s.up[a] = b /\ lo[a] = lo[p]
            /\ hi[a] = b)
      /\ c \in s.nodes \cup {Null}
         /\ (c # Null => c \in s.nodes \ D /\ c \in Keys /\ s.up[c] = n /\ lo[c] = p
            /\ hi[c] = hi[p])
      /\ d \in s.nodes \cup {Null}
         /\ (d # Null => d \in s.nodes \ D /\ d \in Keys /\ s.up[d] = m /\ lo[d] = m
            /\ hi[d] = p)
      /\ e \in s.nodes \cup {Null}
         /\ (e # Null => e \in s.nodes \ D /\ e \in Keys /\ s.up[e] = g /\ lo[e] = b
            /\ hi[e] = g)
      /\ f \in s.nodes \cup {Null}
         /\ (f # Null => f \in s.nodes \ D /\ f \in Keys /\ s.up[f] = g /\ lo[f] = g
            /\ hi[f] = m)
      /\ s.up[p] \notin D /\ (e # Null => e # f)

(* They are nodes of their own.                                            *)
LEMMA RedBroRedNephewApart ==
  ASSUME NEW s, NEW top, NEW lo, NEW hi, NEW h, s \in Trees, Labels(lo, hi, h),
         NEW p, NEW n, NEW b, NEW m, NEW g, Sound(s, top, lo, hi, h, n, Null),
         RedBroRedNephew(s, p, n, b, m, g)
  PROVE  RedBroRedNephewAround(s, top, lo, hi, h, p, n, b, m, g)
<1> DEFINE D == {p, n, b, m, g}
           a == s.left[b]
           c == s.left[n]
           d == s.right[m]
           e == s.left[g]
           f == s.right[g]
<1>1. /\ p \in Keys /\ p \in Int /\ p # Null /\ lo[p] \in Int /\ hi[p] \in Int /\ h[p] \in Nat
      /\ n \in Keys /\ n \in Int /\ n # Null /\ lo[n] \in Int /\ hi[n] \in Int /\ h[n] \in Nat
      /\ b \in Keys /\ b \in Int /\ b # Null /\ lo[b] \in Int /\ hi[b] \in Int /\ h[b] \in Nat
      /\ m \in Keys /\ m \in Int /\ m # Null /\ lo[m] \in Int /\ hi[m] \in Int /\ h[m] \in Nat
      /\ g \in Keys /\ g \in Int /\ g # Null /\ lo[g] \in Int /\ hi[g] \in Int /\ h[g] \in Nat
      /\ Null \notin Keys /\ s.nodes \subseteq Keys /\ Null \notin s.nodes /\ Null \notin s.red
  BY SoundNode, KeysFinite DEF Trees, RedBroRedNephew
<1>2. /\ Placed(s, lo, hi, n, p) /\ Hung(s, top, p) /\ Weighed(s, h, Null, p) /\ Coloured(s, p)
      /\ Placed(s, lo, hi, n, n) /\ Hung(s, top, n) /\ Weighed(s, h, Null, n) /\ Coloured(s, n)
      /\ Placed(s, lo, hi, n, b) /\ Hung(s, top, b) /\ Weighed(s, h, Null, b) /\ Coloured(s, b)
      /\ Placed(s, lo, hi, n, m) /\ Hung(s, top, m) /\ Weighed(s, h, Null, m) /\ Coloured(s, m)
      /\ Placed(s, lo, hi, n, g) /\ Hung(s, top, g) /\ Weighed(s, h, Null, g) /\ Coloured(s, g)
  BY SoundNode DEF RedBroRedNephew
<1>3. /\ lo[p] < p /\ p < hi[p]
      /\ lo[b] = lo[p] /\ hi[b] = p /\ lo[p] < b /\ b < p /\ s.up[b] = p
      /\ lo[n] = p /\ hi[n] = hi[p] /\ s.up[n] = p
      /\ lo[m] = b /\ hi[m] = p /\ b < m /\ m < p /\ s.up[m] = b
      /\ lo[g] = b /\ hi[g] = m /\ b < g /\ g < m /\ s.up[g] = m
  <2>1. lo[p] < p /\ p < hi[p]
    BY <1>1, <1>2 DEF Placed, RedBroRedNephew
  <2>2. lo[p] < b /\ b < p /\ lo[b] = lo[p] /\ hi[b] = p /\ s.up[b] = p
    BY <1>1, <1>2, <2>1 DEF Placed, RedBroRedNephew
  <2>3. lo[n] = p /\ hi[n] = hi[p] /\ s.up[n] = p
    BY <1>1, <1>2, <2>1, <2>2 DEF Placed, RedBroRedNephew
  <2>4. b < m /\ m < p /\ lo[m] = b /\ hi[m] = p /\ s.up[m] = b
    BY <1>1, <1>2, <2>1, <2>2, <2>3 DEF Placed, RedBroRedNephew
  <2>5. b < g /\ g < m /\ lo[g] = b /\ hi[g] = m /\ s.up[g] = m
    BY <1>1, <1>2, <2>1, <2>2, <2>3, <2>4 DEF Placed, RedBroRedNephew
  <2> QED
    BY <2>1, <2>2, <2>3, <2>4, <2>5
<1>4. /\ p # n /\ p # b /\ p # m /\ p # g /\ n # b /\ n # m
      /\ n # g /\ b # m /\ b # g /\ m # g /\ n # top /\ b # top
      /\ m # top /\ g # top
  <2>1. /\ p # n /\ p # b /\ p # m /\ p # g /\ n # b /\ n # m
        /\ n # g /\ b # m /\ b # g /\ m # g
    BY <1>1, <1>2, <1>3 DEF Placed, RedBroRedNephew
  <2>2. n # top /\ b # top /\ m # top /\ g # top
    BY <1>1, <1>2, <1>3 DEF Hung, RedBroRedNephew
  <2> QED
    BY <2>1, <2>2
<1>5. /\ a \in s.nodes \cup {Null}
         /\ (a # Null => a \in s.nodes \ D /\ a \in Keys /\ s.up[a] = b /\ lo[a] = lo[p]
            /\ hi[a] = b)
      /\ c \in s.nodes \cup {Null}
         /\ (c # Null => c \in s.nodes \ D /\ c \in Keys /\ s.up[c] = n /\ lo[c] = p
            /\ hi[c] = hi[p])
      /\ d \in s.nodes \cup {Null}
         /\ (d # Null => d \in s.nodes \ D /\ d \in Keys /\ s.up[d] = m /\ lo[d] = m
            /\ hi[d] = p)
      /\ e \in s.nodes \cup {Null}
         /\ (e # Null => e \in s.nodes \ D /\ e \in Keys /\ s.up[e] = g /\ lo[e] = b
            /\ hi[e] = g)
      /\ f \in s.nodes \cup {Null}
         /\ (f # Null => f \in s.nodes \ D /\ f \in Keys /\ s.up[f] = g /\ lo[f] = g
            /\ hi[f] = m)
  <2>1. a \in s.nodes \cup {Null} /\ (a # Null => s.up[a] = b /\ lo[a] = lo[p] /\ hi[a] = b)
    BY <1>1, <1>2, <1>3 DEF Placed, RedBroRedNephew
  <2>1a. a # Null => a \notin D
    BY <1>1, <1>3, <1>4, <2>1, <1>2 DEF Hung, RedBroRedNephew
  <2>2. c \in s.nodes \cup {Null} /\ (c # Null => s.up[c] = n /\ lo[c] = p /\ hi[c] = hi[p])
    BY <1>1, <1>2, <1>3 DEF Placed, RedBroRedNephew
  <2>2a. c # Null => c \notin D
    BY <1>1, <1>3, <1>4, <2>2, <1>2 DEF Hung, RedBroRedNephew
  <2>3. d \in s.nodes \cup {Null} /\ (d # Null => s.up[d] = m /\ lo[d] = m /\ hi[d] = p)
    BY <1>1, <1>2, <1>3 DEF Placed, RedBroRedNephew
  <2>3a. d # Null => d \notin D
    BY <1>1, <1>3, <1>4, <2>3, <1>2 DEF Hung, RedBroRedNephew
  <2>4. e \in s.nodes \cup {Null} /\ (e # Null => s.up[e] = g /\ lo[e] = b /\ hi[e] = g)
    BY <1>1, <1>2, <1>3 DEF Placed, RedBroRedNephew
  <2>4a. e # Null => e \notin D
    BY <1>1, <1>3, <1>4, <2>4, <1>2 DEF Hung, RedBroRedNephew
  <2>5. f \in s.nodes \cup {Null} /\ (f # Null => s.up[f] = g /\ lo[f] = g /\ hi[f] = m)
    BY <1>1, <1>2, <1>3 DEF Placed, RedBroRedNephew
  <2>5a. f # Null => f \notin D
    BY <1>1, <1>3, <1>4, <2>5, <1>2 DEF Hung, RedBroRedNephew
  <2> QED
    BY <1>1, <2>1, <2>1a, <2>2, <2>2a, <2>3, <2>3a, <2>4, <2>4a, <2>5, <2>5a
<1>6. /\ s.up[p] \notin D /\ (e # Null => e # f)
  <2>1. s.up[p] \notin D
    <3>1. s.up[p] = Null \/ p \in {s.left[s.up[p]], s.right[s.up[p]]}
      BY <1>1, <1>2 DEF Hung, RedBroRedNephew
    <3>2. \A x \in D : p # s.left[x] /\ p # s.right[x] /\ x # Null
      BY <1>1, <1>2, <1>4, <1>5 DEF Placed, RedBroRedNephew, RedBroRedNephew
    <3> QED
      BY <3>1, <3>2
  <2>2. e # Null => e # f
    BY <1>1, <1>3, <1>5
  <2> QED
    BY <2>1, <2>2
<1> QED
  BY <1>1, <1>3, <1>4, <1>5, <1>6 DEF RedBroRedNephewAround

(* The rules hold again once the part is replaced.                         *)
LEMMA TakenFromNephewSound ==
  ASSUME NEW s, NEW top, NEW lo, NEW hi, NEW h, s \in Trees, Labels(lo, hi, h),
         NEW p, NEW n, NEW b, NEW m, NEW g, Sound(s, top, lo, hi, h, n, Null),
         RedBroRedNephew(s, p, n, b, m, g),
         NEW r, TakenFromNephew(s, r, p, n, b, m, g)
  PROVE  \E lo2, hi2, h2 : /\ Labels(lo2, hi2, h2)
                           /\ Sound(r, IF top = p THEN m ELSE top, lo2, hi2, h2, Null, Null)
                           /\ Height(h2, IF top = p THEN m ELSE top) = Height(h, top)
<1> DEFINE D == {p, n, b, m, g}
           E == {p, b, m, g}
           top2 == IF top = p THEN m ELSE top
           a == s.left[b]
           c == s.left[n]
           d == s.right[m]
           e == s.left[g]
           f == s.right[g]
           B == Height(h, c)
           lo2 == [lo EXCEPT ![p] = m, ![m] = lo[p]]
           hi2 == [hi EXCEPT ![b] = m, ![m] = hi[p]]
           h2 == [h EXCEPT ![p] = B + 1, ![m] = B + 2, ![g] = B + 1]
<1>a. RedBroRedNephewAround(s, top, lo, hi, h, p, n, b, m, g)
  BY RedBroRedNephewApart
<1>1. /\ p \in Keys /\ p \in Int /\ p # Null /\ lo[p] \in Int /\ hi[p] \in Int /\ h[p] \in Nat
      /\ n \in Keys /\ n \in Int /\ n # Null /\ lo[n] \in Int /\ hi[n] \in Int /\ h[n] \in Nat
      /\ b \in Keys /\ b \in Int /\ b # Null /\ lo[b] \in Int /\ hi[b] \in Int /\ h[b] \in Nat
      /\ m \in Keys /\ m \in Int /\ m # Null /\ lo[m] \in Int /\ hi[m] \in Int /\ h[m] \in Nat
      /\ g \in Keys /\ g \in Int /\ g # Null /\ lo[g] \in Int /\ hi[g] \in Int /\ h[g] \in Nat
      /\ Null \notin Keys /\ s.nodes \subseteq Keys /\ Null \notin s.nodes /\ Null \notin s.red
  BY <1>a DEF RedBroRedNephewAround
<1>3. /\ lo[p] < p /\ p < hi[p]
      /\ lo[b] = lo[p] /\ hi[b] = p /\ lo[p] < b /\ b < p /\ s.up[b] = p
      /\ lo[n] = p /\ hi[n] = hi[p] /\ s.up[n] = p
      /\ lo[m] = b /\ hi[m] = p /\ b < m /\ m < p /\ s.up[m] = b
      /\ lo[g] = b /\ hi[g] = m /\ b < g /\ g < m /\ s.up[g] = m
  BY <1>a DEF RedBroRedNephewAround
<1>4. /\ p # n /\ p # b /\ p # m /\ p # g /\ n # b /\ n # m
      /\ n # g /\ b # m /\ b # g /\ m # g /\ n # top /\ b # top
      /\ m # top /\ g # top
  BY <1>a DEF RedBroRedNephewAround
<1>5. /\ a \in s.nodes \cup {Null}
         /\ (a # Null => a \in s.nodes \ D /\ a \in Keys /\ s.up[a] = b /\ lo[a] = lo[p]
            /\ hi[a] = b)
      /\ c \in s.nodes \cup {Null}
         /\ (c # Null => c \in s.nodes \ D /\ c \in Keys /\ s.up[c] = n /\ lo[c] = p
            /\ hi[c] = hi[p])
      /\ d \in s.nodes \cup {Null}
         /\ (d # Null => d \in s.nodes \ D /\ d \in Keys /\ s.up[d] = m /\ lo[d] = m
            /\ hi[d] = p)
      /\ e \in s.nodes \cup {Null}
         /\ (e # Null => e \in s.nodes \ D /\ e \in Keys /\ s.up[e] = g /\ lo[e] = b
            /\ hi[e] = g)
      /\ f \in s.nodes \cup {Null}
         /\ (f # Null => f \in s.nodes \ D /\ f \in Keys /\ s.up[f] = g /\ lo[f] = g
            /\ hi[f] = m)
  BY <1>a DEF RedBroRedNephewAround
<1>2. /\ Placed(s, lo, hi, n, p) /\ Hung(s, top, p) /\ Weighed(s, h, Null, p) /\ Coloured(s, p)
      /\ Placed(s, lo, hi, n, n) /\ Hung(s, top, n) /\ Weighed(s, h, Null, n) /\ Coloured(s, n)
      /\ Placed(s, lo, hi, n, b) /\ Hung(s, top, b) /\ Weighed(s, h, Null, b) /\ Coloured(s, b)
      /\ Placed(s, lo, hi, n, m) /\ Hung(s, top, m) /\ Weighed(s, h, Null, m) /\ Coloured(s, m)
      /\ Placed(s, lo, hi, n, g) /\ Hung(s, top, g) /\ Weighed(s, h, Null, g) /\ Coloured(s, g)
  BY SoundNode DEF RedBroRedNephew
<1>0. /\ p \in s.nodes /\ n \in s.nodes /\ b \in s.nodes /\ m \in s.nodes /\ g \in s.nodes
      /\ s.left[p] = b /\ s.right[p] = n /\ s.right[b] = m /\ s.left[m] = g /\ p \notin s.red
      /\ n \notin s.red /\ b \in s.red /\ m \notin s.red /\ m \in s.redlink /\ g \in s.red
  BY DEF RedBroRedNephew
<1>6. /\ h[p] = B + 2 /\ h[n] = B + 1 /\ h[b] = B + 1 /\ h[m] = B + 1
      /\ h[g] = B /\ Height(h, a) = B + 1 /\ Height(h, c) = B /\ Height(h, d) = B
      /\ Height(h, e) = B /\ Height(h, f) = B /\ B \in Nat
  <2>1. Height(h, a) \in Nat /\ Height(h, c) \in Nat /\ Height(h, d) \in Nat
          /\ Height(h, e) \in Nat /\ Height(h, f) \in Nat
    BY <1>1, <1>5, HeightIs
  <2>2. Height(h, p) = h[p] /\ Height(h, n) = h[n] /\ Height(h, b) = h[b]
          /\ Height(h, m) = h[m] /\ Height(h, g) = h[g]
    BY <1>1 DEF Height
  <2>3. h[p] = h[b] + 1 /\ h[p] = h[n] + 1
    BY <1>0, <1>1, <1>2, <1>4, <2>2 DEF Weighed
  <2>4. h[n] = Height(h, c) + 1
    BY <1>0, <1>1, <1>2, <1>4, <2>2 DEF Weighed, Placed
  <2>5. h[b] = Height(h, a) + 0 /\ h[b] = h[m] + 0
    BY <1>0, <1>1, <1>2, <1>4, <2>2 DEF Weighed
  <2>6. h[m] = h[g] + 1 /\ h[m] = Height(h, d) + 1
    BY <1>0, <1>1, <1>2, <1>4, <2>2 DEF Weighed
  <2>7. h[g] = Height(h, e) + 0 /\ h[g] = Height(h, f) + 0
    BY <1>0, <1>1, <1>2, <1>4, <2>2 DEF Weighed
  <2>8. h[p] \in Nat /\ h[n] \in Nat /\ h[b] \in Nat /\ h[m] \in Nat /\ h[g] \in Nat
    BY <1>1
  <2> HIDE DEF a, c, d, e, f
  <2> QED
    BY <2>1, <2>3, <2>4, <2>5, <2>6, <2>7, <2>8
<1>7. /\ n \notin s.red
      /\ (b \in s.red <=> p \in s.redlink) /\ (p \in s.red => b \notin s.red)
      /\ c \notin s.red
      /\ (c \in s.red <=> n \in s.redlink) /\ (n \in s.red => c \notin s.red)
      /\ m \notin s.red
      /\ (a \in s.red <=> b \in s.redlink) /\ (b \in s.red => a \notin s.red)
      /\ d \notin s.red
      /\ (g \in s.red <=> m \in s.redlink) /\ (m \in s.red => g \notin s.red)
      /\ f \notin s.red
      /\ (e \in s.red <=> g \in s.redlink) /\ (g \in s.red => e \notin s.red)
  BY <1>0, <1>1, <1>2 DEF Coloured, Placed
<1>8. Labels(lo2, hi2, h2)
  BY <1>1, <1>6 DEF Labels
<1>9. /\ \A x \in Keys : (x # p /\ x # m => lo2[x] = lo[x])
         /\ (x # b /\ x # m => hi2[x] = hi[x]) /\ (x # p /\ x # m /\ x # g => h2[x] = h[x])
      /\ lo2[p] = m /\ lo2[m] = lo[p] /\ hi2[b] = m /\ hi2[m] = hi[p] /\ h2[p] = B + 1
         /\ h2[m] = B + 2 /\ h2[g] = B + 1
  <2> HIDE DEF B
  <2> QED
    BY <1>1, <1>4 DEF Labels
<1> HIDE DEF lo2, hi2, h2, B
<1>10. /\ lo2[p] = m /\ hi2[p] = hi[p] /\ h2[p] = B + 1
       /\ lo2[b] = lo[p] /\ hi2[b] = m /\ h2[b] = B + 1
       /\ lo2[m] = lo[p] /\ hi2[m] = hi[p] /\ h2[m] = B + 2
       /\ lo2[g] = b /\ hi2[g] = m /\ h2[g] = B + 1
  BY <1>1, <1>3, <1>4, <1>6, <1>9
<1>11. /\ a # Null => lo2[a] = lo[p] /\ hi2[a] = b
       /\ c # Null => lo2[c] = p /\ hi2[c] = hi[p]
       /\ d # Null => lo2[d] = m /\ hi2[d] = p
       /\ e # Null => lo2[e] = b /\ hi2[e] = g
       /\ f # Null => lo2[f] = g /\ hi2[f] = m
       /\ Height(h2, a) = B + 1
       /\ Height(h2, c) = B
       /\ Height(h2, d) = B
       /\ Height(h2, e) = B
       /\ Height(h2, f) = B
  <2>1. (a # Null => a # p /\ a # n /\ a # b /\ a # m /\ a # g)
          /\ (c # Null => c # p /\ c # n /\ c # b /\ c # m /\ c # g)
             /\ (d # Null => d # p /\ d # n /\ d # b /\ d # m /\ d # g)
                /\ (e # Null => e # p /\ e # n /\ e # b /\ e # m /\ e # g)
                   /\ (f # Null => f # p /\ f # n /\ f # b /\ f # m /\ f # g)
    BY <1>1, <1>5
  <2> HIDE DEF a, c, d, e, f
  <2>2. (a # Null => lo2[a] = lo[a] /\ hi2[a] = hi[a] /\ h2[a] = h[a])
          /\ (c # Null => lo2[c] = lo[c] /\ hi2[c] = hi[c] /\ h2[c] = h[c])
             /\ (d # Null => lo2[d] = lo[d] /\ hi2[d] = hi[d] /\ h2[d] = h[d])
                /\ (e # Null => lo2[e] = lo[e] /\ hi2[e] = hi[e] /\ h2[e] = h[e])
                   /\ (f # Null => lo2[f] = lo[f] /\ hi2[f] = hi[f] /\ h2[f] = h[f])
    BY <1>5, <1>9, <2>1
  <2> QED
    BY <1>5, <1>6, <2>2 DEF Height
<1>12. Part(s, top, D, p)
  BY <1>0, <1>3, <1>4 DEF Part
<1>13. /\ r \in Trees /\ r.nodes = s.nodes \ {n} /\ Turned(s, r, D, p, m)
       /\ p \notin r.red /\ (p \in r.redlink <=> n \in s.redlink) /\ b \in r.red
       /\ (b \in r.redlink <=> b \in s.redlink) /\ m \notin r.red /\ m \in r.redlink
       /\ g \notin r.red /\ (g \in r.redlink <=> g \in s.redlink)
       /\ r.left[p] = d /\ r.right[p] = c
       /\ r.left[b] = a /\ r.right[b] = g
       /\ r.left[m] = b /\ r.right[m] = p
       /\ r.left[g] = e /\ r.right[g] = f
       /\ r.up[m] = s.up[p] /\ r.up[p] = m /\ r.up[b] = m /\ r.up[g] = b
       /\ a # Null => r.up[a] = b
       /\ c # Null => r.up[c] = p
       /\ d # Null => r.up[d] = p
       /\ e # Null => r.up[e] = g
       /\ f # Null => r.up[f] = g
  BY DEF TakenFromNephew
<1>14. SameOutside(s, lo, hi, h, r, lo2, hi2, h2, D, E, p, m)
  <2> SUFFICES ASSUME NEW x \in s.nodes \ D
               PROVE  /\ lo2[x] = lo[x] /\ hi2[x] = hi[x] /\ h2[x] = h[x]
                      /\ s.up[x] \in D => r.up[x] \in E
                         /\ (x = r.left[r.up[x]] \/ x = r.right[r.up[x]])
    BY <1>13 DEF Turned, SameOutside
  <2>1. x \in Keys /\ x # Null /\ x # p /\ x # n /\ x # b /\ x # m /\ x # g
    BY <1>1
  <2>2. s.up[x] \in D => x \in {a, c, d, e, f}
    <3> SUFFICES ASSUME s.up[x] \in D PROVE x = s.left[s.up[x]] \/ x = s.right[s.up[x]]
      BY <1>0, <1>1, <2>1, <1>2 DEF Placed
    <3> QED
      BY <1>0, <1>1, SoundUp
  <2>3. (x = a => r.up[x] \in E /\ (x = r.left[r.up[x]] \/ x = r.right[r.up[x]]))
          /\ (x = c => r.up[x] \in E /\ (x = r.left[r.up[x]] \/ x = r.right[r.up[x]]))
             /\ (x = d => r.up[x] \in E /\ (x = r.left[r.up[x]] \/ x = r.right[r.up[x]]))
                /\ (x = e => r.up[x] \in E /\ (x = r.left[r.up[x]] \/ x = r.right[r.up[x]]))
                   /\ (x = f => r.up[x] \in E /\ (x = r.left[r.up[x]] \/ x = r.right[r.up[x]]))
    BY <2>1, <1>13
  <2> QED
    BY <1>9, <2>1, <2>2, <2>3
<1>15. SameAbove(s, top, lo, hi, h, r, lo2, hi2, h2, p, m)
  BY <1>0, <1>1, <1>6, <1>7, <1>10, <1>13 DEF SameAbove, Height
<1>16. Exchange(s, top, n, Null, r, top2, Null, Null, D, E, p, m)
  BY <1>0, <1>1, <1>4, <1>13 DEF Exchange
<1>17. SoundInside(r, lo2, hi2, h2, Null, Null, E, m)
  <2>1. (a \in r.red <=> a \in s.red) /\ (c \in r.red <=> c \in s.red)
          /\ (d \in r.red <=> d \in s.red) /\ (e \in r.red <=> e \in s.red)
             /\ (f \in r.red <=> f \in s.red) /\ Null \notin r.red
    <3>1. \A x \in s.nodes \ D : x \in r.red <=> x \in s.red
      BY <1>13 DEF Turned
    <3>2. Null \notin r.red
      BY <1>1, <1>13 DEF Trees
    <3> HIDE DEF a, c, d, e, f
    <3> QED
      BY <1>1, <1>5, <3>1, <3>2
  <2>2. Height(h2, p) = h2[p] /\ Height(h2, b) = h2[b] /\ Height(h2, m) = h2[m]
          /\ Height(h2, g) = h2[g]
    BY <1>1 DEF Height
  <2>3. a \in r.nodes \cup {Null} /\ c \in r.nodes \cup {Null} /\ d \in r.nodes \cup {Null}
          /\ e \in r.nodes \cup {Null} /\ f \in r.nodes \cup {Null}
    BY <1>5, <1>13
  <2> HIDE DEF a, c, d, e, f, D, E
  <2>4. Placed(r, lo2, hi2, Null, p) /\ Weighed(r, h2, Null, p) /\ Coloured(r, p)
    <3>1. Placed(r, lo2, hi2, Null, p)
      BY <1>0, <1>1, <1>3, <1>4, <1>10, <1>11, <1>13, <2>3 DEF Placed
    <3>2. Weighed(r, h2, Null, p)
      <4>1. Height(h2, d) = B /\ Height(h2, c) = B /\ h2[p] = B + 1 /\ r.left[p] = d
              /\ r.right[p] = c
        BY <1>10, <1>11, <2>2, <1>13
      <4>2. p \notin r.red /\ p # Null /\ B \in Nat
        BY <1>1, <1>4, <1>6, <1>13
      <4> QED
        BY <4>1, <4>2 DEF Weighed
    <3>3. Coloured(r, p)
      BY <1>0, <1>7, <1>13, <2>1 DEF Coloured
    <3> QED
      BY <3>1, <3>2, <3>3
  <2>5. Placed(r, lo2, hi2, Null, b) /\ Weighed(r, h2, Null, b) /\ Coloured(r, b)
    <3>1. Placed(r, lo2, hi2, Null, b)
      BY <1>0, <1>1, <1>3, <1>4, <1>10, <1>11, <1>13, <2>3 DEF Placed
    <3>2. Weighed(r, h2, Null, b)
      <4>1. Height(h2, a) = B + 1 /\ Height(h2, g) = B + 1 /\ h2[b] = B + 1 /\ r.left[b] = a
              /\ r.right[b] = g
        BY <1>10, <1>11, <2>2, <1>13
      <4>2. b \in r.red /\ B \in Nat
        BY <1>6, <1>13
      <4> QED
        BY <4>1, <4>2 DEF Weighed
    <3>3. Coloured(r, b)
      BY <1>0, <1>7, <1>13, <2>1 DEF Coloured
    <3> QED
      BY <3>1, <3>2, <3>3
  <2>6. Placed(r, lo2, hi2, Null, m) /\ Weighed(r, h2, Null, m) /\ Coloured(r, m)
    <3>1. Placed(r, lo2, hi2, Null, m)
      BY <1>0, <1>1, <1>3, <1>4, <1>10, <1>11, <1>13, <2>3 DEF Placed
    <3>2. Weighed(r, h2, Null, m)
      <4>1. Height(h2, b) = B + 1 /\ Height(h2, p) = B + 1 /\ h2[m] = B + 2 /\ r.left[m] = b
              /\ r.right[m] = p
        BY <1>10, <1>11, <2>2, <1>13
      <4>2. m \notin r.red /\ m # Null /\ B \in Nat
        BY <1>1, <1>4, <1>6, <1>13
      <4> QED
        BY <4>1, <4>2 DEF Weighed
    <3>3. Coloured(r, m)
      BY <1>0, <1>7, <1>13, <2>1 DEF Coloured
    <3> QED
      BY <3>1, <3>2, <3>3
  <2>7. Placed(r, lo2, hi2, Null, g) /\ Weighed(r, h2, Null, g) /\ Coloured(r, g)
    <3>1. Placed(r, lo2, hi2, Null, g)
      BY <1>0, <1>1, <1>3, <1>4, <1>10, <1>11, <1>13, <2>3 DEF Placed
    <3>2. Weighed(r, h2, Null, g)
      <4>1. Height(h2, e) = B /\ Height(h2, f) = B /\ h2[g] = B + 1 /\ r.left[g] = e
              /\ r.right[g] = f
        BY <1>10, <1>11, <2>2, <1>13
      <4>2. g \notin r.red /\ g # Null /\ B \in Nat
        BY <1>1, <1>4, <1>6, <1>13
      <4> QED
        BY <4>1, <4>2 DEF Weighed
    <3>3. Coloured(r, g)
      BY <1>0, <1>7, <1>13, <2>1 DEF Coloured
    <3> QED
      BY <3>1, <3>2, <3>3
  <2>8. \A x \in E : x = m \/ (r.up[x] \in E /\ (x = r.left[r.up[x]] \/ x = r.right[r.up[x]]))
    BY <1>13 DEF D, E
  <2> QED
    BY <2>4, <2>5, <2>6, <2>7, <2>8 DEF SoundInside, D, E
<1>18. Sound(r, top2, lo2, hi2, h2, Null, Null)
  <2>1. p # top \/ (m # Null /\ m \notin r.red /\ m # Null)
    BY <1>0, <1>1, <1>4, <1>13 DEF Sound
  <2>2. r \in Trees
    BY <1>13
  <2> HIDE DEF D, top2, E
  <2> QED
    BY <1>8, <1>12, <1>14, <1>15, <1>16, <1>17, <2>1, <2>2, ReplacedSound
<1>19. Height(h2, top2) = Height(h, top)
  <2>1. top \in Keys /\ top # Null
    BY <1>0, <1>1 DEF Sound
  <2>2. top # p => h2[top] = h[top]
    BY <1>4, <1>9, <2>1
  <2>3. h2[m] = h[p]
    BY <1>1, <1>6, <1>10
  <2>4. h[top] \in Nat
    BY <2>1 DEF Labels
  <2> QED
    BY <1>1, <2>1, <2>2, <2>3, <2>4 DEF Height
<1> HIDE DEF top2, lo2, hi2, h2
<1>20. \E l2, i2, e2 : Labels(l2, i2, e2) /\ Sound(r, top2, l2, i2, e2, Null, Null)
         /\ Height(e2, top2) = Height(h, top)
  BY <1>8, <1>18, <1>19
<1> QED
  BY <1>20 DEF top2

(* The hole n is right of p, its brother b is red, the nephew m has no red *)
(* child.                                                                  *)
RedBro(s, p, n, b, m) ==
  /\ p \in s.nodes /\ n \in s.nodes /\ b \in s.nodes /\ m \in s.nodes /\ s.left[p] = b
  /\ s.right[p] = n /\ s.right[b] = m /\ p \notin s.red /\ n \notin s.red /\ b \in s.red
  /\ m \notin s.red /\ m \notin s.redlink

(* n is gone, b black in the place of p, m red below p.                    *)
TakenFromRed(s, r, p, n, b, m) ==
  /\ r \in Trees /\ r.nodes = s.nodes \ {n}
  /\ Turned(s, r, {p, n, b, m}, p, b)
  /\ p \notin r.red /\ p \in r.redlink /\ b \notin r.red
  /\ b \notin r.redlink /\ m \in r.red /\ (m \in r.redlink <=> m \in s.redlink)
  /\ r.left[p] = m /\ r.right[p] = s.left[n]
  /\ r.left[b] = s.left[b] /\ r.right[b] = p
  /\ r.left[m] = s.left[m] /\ r.right[m] = s.right[m]
  /\ r.up[b] = s.up[p] /\ r.up[p] = b /\ r.up[m] = p
  /\ s.left[b] # Null => r.up[s.left[b]] = b
  /\ s.left[n] # Null => r.up[s.left[n]] = p
  /\ s.left[m] # Null => r.up[s.left[m]] = m
  /\ s.right[m] # Null => r.up[s.right[m]] = m

(* The nodes that hang from the part, and the intervals of all of them.    *)
RedBroAround(s, top, lo, hi, h, p, n, b, m) ==
  LET D == {p, n, b, m}
      a == s.left[b]
      c == s.left[n]
      d == s.left[m]
      e == s.right[m]
  IN  /\ p \in Keys /\ p \in Int /\ p # Null /\ lo[p] \in Int /\ hi[p] \in Int /\ h[p] \in Nat
      /\ n \in Keys /\ n \in Int /\ n # Null /\ lo[n] \in Int /\ hi[n] \in Int /\ h[n] \in Nat
      /\ b \in Keys /\ b \in Int /\ b # Null /\ lo[b] \in Int /\ hi[b] \in Int /\ h[b] \in Nat
      /\ m \in Keys /\ m \in Int /\ m # Null /\ lo[m] \in Int /\ hi[m] \in Int /\ h[m] \in Nat
      /\ Null \notin Keys /\ s.nodes \subseteq Keys /\ Null \notin s.nodes /\ Null \notin s.red
      /\ lo[p] < p /\ p < hi[p]
      /\ lo[b] = lo[p] /\ hi[b] = p /\ lo[p] < b /\ b < p /\ s.up[b] = p
      /\ lo[n] = p /\ hi[n] = hi[p] /\ s.up[n] = p
      /\ lo[m] = b /\ hi[m] = p /\ b < m /\ m < p /\ s.up[m] = b
      /\ p # n /\ p # b /\ p # m /\ n # b /\ n # m /\ b # m
      /\ n # top /\ b # top /\ m # top
      /\ a \in s.nodes \cup {Null}
         /\ (a # Null => a \in s.nodes \ D /\ a \in Keys /\ s.up[a] = b /\ lo[a] = lo[p]
            /\ hi[a] = b)
      /\ c \in s.nodes \cup {Null}
         /\ (c # Null => c \in s.nodes \ D /\ c \in Keys /\ s.up[c] = n /\ lo[c] = p
            /\ hi[c] = hi[p])
      /\ d \in s.nodes \cup {Null}
         /\ (d # Null => d \in s.nodes \ D /\ d \in Keys /\ s.up[d] = m /\ lo[d] = b
            /\ hi[d] = m)
      /\ e \in s.nodes \cup {Null}
         /\ (e # Null => e \in s.nodes \ D /\ e \in Keys /\ s.up[e] = m /\ lo[e] = m
            /\ hi[e] = p)
      /\ s.up[p] \notin D /\ (d # Null => d # e)

(* They are nodes of their own.                                            *)
LEMMA RedBroApart ==
  ASSUME NEW s, NEW top, NEW lo, NEW hi, NEW h, s \in Trees, Labels(lo, hi, h),
         NEW p, NEW n, NEW b, NEW m, Sound(s, top, lo, hi, h, n, Null), RedBro(s, p, n, b, m)
  PROVE  RedBroAround(s, top, lo, hi, h, p, n, b, m)
<1> DEFINE D == {p, n, b, m}
           a == s.left[b]
           c == s.left[n]
           d == s.left[m]
           e == s.right[m]
<1>1. /\ p \in Keys /\ p \in Int /\ p # Null /\ lo[p] \in Int /\ hi[p] \in Int /\ h[p] \in Nat
      /\ n \in Keys /\ n \in Int /\ n # Null /\ lo[n] \in Int /\ hi[n] \in Int /\ h[n] \in Nat
      /\ b \in Keys /\ b \in Int /\ b # Null /\ lo[b] \in Int /\ hi[b] \in Int /\ h[b] \in Nat
      /\ m \in Keys /\ m \in Int /\ m # Null /\ lo[m] \in Int /\ hi[m] \in Int /\ h[m] \in Nat
      /\ Null \notin Keys /\ s.nodes \subseteq Keys /\ Null \notin s.nodes /\ Null \notin s.red
  BY SoundNode, KeysFinite DEF Trees, RedBro
<1>2. /\ Placed(s, lo, hi, n, p) /\ Hung(s, top, p) /\ Weighed(s, h, Null, p) /\ Coloured(s, p)
      /\ Placed(s, lo, hi, n, n) /\ Hung(s, top, n) /\ Weighed(s, h, Null, n) /\ Coloured(s, n)
      /\ Placed(s, lo, hi, n, b) /\ Hung(s, top, b) /\ Weighed(s, h, Null, b) /\ Coloured(s, b)
      /\ Placed(s, lo, hi, n, m) /\ Hung(s, top, m) /\ Weighed(s, h, Null, m) /\ Coloured(s, m)
  BY SoundNode DEF RedBro
<1>3. /\ lo[p] < p /\ p < hi[p]
      /\ lo[b] = lo[p] /\ hi[b] = p /\ lo[p] < b /\ b < p /\ s.up[b] = p
      /\ lo[n] = p /\ hi[n] = hi[p] /\ s.up[n] = p
      /\ lo[m] = b /\ hi[m] = p /\ b < m /\ m < p /\ s.up[m] = b
  <2>1. lo[p] < p /\ p < hi[p]
    BY <1>1, <1>2 DEF Placed, RedBro
  <2>2. lo[p] < b /\ b < p /\ lo[b] = lo[p] /\ hi[b] = p /\ s.up[b] = p
    BY <1>1, <1>2, <2>1 DEF Placed, RedBro
  <2>3. lo[n] = p /\ hi[n] = hi[p] /\ s.up[n] = p
    BY <1>1, <1>2, <2>1, <2>2 DEF Placed, RedBro
  <2>4. b < m /\ m < p /\ lo[m] = b /\ hi[m] = p /\ s.up[m] = b
    BY <1>1, <1>2, <2>1, <2>2, <2>3 DEF Placed, RedBro
  <2> QED
    BY <2>1, <2>2, <2>3, <2>4
<1>4. /\ p # n /\ p # b /\ p # m /\ n # b /\ n # m /\ b # m
      /\ n # top /\ b # top /\ m # top
  <2>1. /\ p # n /\ p # b /\ p # m /\ n # b /\ n # m /\ b # m
    BY <1>1, <1>2, <1>3 DEF Placed, RedBro
  <2>2. n # top /\ b # top /\ m # top
    BY <1>1, <1>2, <1>3 DEF Hung, RedBro
  <2> QED
    BY <2>1, <2>2
<1>5. /\ a \in s.nodes \cup {Null}
         /\ (a # Null => a \in s.nodes \ D /\ a \in Keys /\ s.up[a] = b /\ lo[a] = lo[p]
            /\ hi[a] = b)
      /\ c \in s.nodes \cup {Null}
         /\ (c # Null => c \in s.nodes \ D /\ c \in Keys /\ s.up[c] = n /\ lo[c] = p
            /\ hi[c] = hi[p])
      /\ d \in s.nodes \cup {Null}
         /\ (d # Null => d \in s.nodes \ D /\ d \in Keys /\ s.up[d] = m /\ lo[d] = b
            /\ hi[d] = m)
      /\ e \in s.nodes \cup {Null}
         /\ (e # Null => e \in s.nodes \ D /\ e \in Keys /\ s.up[e] = m /\ lo[e] = m
            /\ hi[e] = p)
  <2>1. a \in s.nodes \cup {Null} /\ (a # Null => s.up[a] = b /\ lo[a] = lo[p] /\ hi[a] = b)
    BY <1>1, <1>2, <1>3 DEF Placed, RedBro
  <2>1a. a # Null => a \notin D
    BY <1>1, <1>3, <1>4, <2>1, <1>2 DEF Hung, RedBro
  <2>2. c \in s.nodes \cup {Null} /\ (c # Null => s.up[c] = n /\ lo[c] = p /\ hi[c] = hi[p])
    BY <1>1, <1>2, <1>3 DEF Placed, RedBro
  <2>2a. c # Null => c \notin D
    BY <1>1, <1>3, <1>4, <2>2, <1>2 DEF Hung, RedBro
  <2>3. d \in s.nodes \cup {Null} /\ (d # Null => s.up[d] = m /\ lo[d] = b /\ hi[d] = m)
    BY <1>1, <1>2, <1>3 DEF Placed, RedBro
  <2>3a. d # Null => d \notin D
    BY <1>1, <1>3, <1>4, <2>3, <1>2 DEF Hung, RedBro
  <2>4. e \in s.nodes \cup {Null} /\ (e # Null => s.up[e] = m /\ lo[e] = m /\ hi[e] = p)
    BY <1>1, <1>2, <1>3 DEF Placed, RedBro
  <2>4a. e # Null => e \notin D
    BY <1>1, <1>3, <1>4, <2>4, <1>2 DEF Hung, RedBro
  <2> QED
    BY <1>1, <2>1, <2>1a, <2>2, <2>2a, <2>3, <2>3a, <2>4, <2>4a
<1>6. /\ s.up[p] \notin D /\ (d # Null => d # e)
  <2>1. s.up[p] \notin D
    <3>1. s.up[p] = Null \/ p \in {s.left[s.up[p]], s.right[s.up[p]]}
      BY <1>1, <1>2 DEF Hung, RedBro
    <3>2. \A x \in D : p # s.left[x] /\ p # s.right[x] /\ x # Null
      BY <1>1, <1>2, <1>4, <1>5 DEF Placed, RedBro, RedBro
    <3> QED
      BY <3>1, <3>2
  <2>2. d # Null => d # e
    BY <1>1, <1>3, <1>5
  <2> QED
    BY <2>1, <2>2
<1> QED
  BY <1>1, <1>3, <1>4, <1>5, <1>6 DEF RedBroAround

(* The rules hold again once the part is replaced.                         *)
LEMMA TakenFromRedSound ==
  ASSUME NEW s, NEW top, NEW lo, NEW hi, NEW h, s \in Trees, Labels(lo, hi, h),
         NEW p, NEW n, NEW b, NEW m, Sound(s, top, lo, hi, h, n, Null), RedBro(s, p, n, b, m),
         NEW r, TakenFromRed(s, r, p, n, b, m)
  PROVE  \E lo2, hi2, h2 : /\ Labels(lo2, hi2, h2)
                           /\ Sound(r, IF top = p THEN b ELSE top, lo2, hi2, h2, Null, Null)
                           /\ Height(h2, IF top = p THEN b ELSE top) = Height(h, top)
<1> DEFINE D == {p, n, b, m}
           E == {p, b, m}
           top2 == IF top = p THEN b ELSE top
           a == s.left[b]
           c == s.left[n]
           d == s.left[m]
           e == s.right[m]
           B == Height(h, c)
           lo2 == [lo EXCEPT ![p] = b]
           hi2 == [hi EXCEPT ![b] = hi[p]]
           h2 == [h EXCEPT ![p] = B + 1, ![b] = B + 2, ![m] = B]
<1>a. RedBroAround(s, top, lo, hi, h, p, n, b, m)
  BY RedBroApart
<1>1. /\ p \in Keys /\ p \in Int /\ p # Null /\ lo[p] \in Int /\ hi[p] \in Int /\ h[p] \in Nat
      /\ n \in Keys /\ n \in Int /\ n # Null /\ lo[n] \in Int /\ hi[n] \in Int /\ h[n] \in Nat
      /\ b \in Keys /\ b \in Int /\ b # Null /\ lo[b] \in Int /\ hi[b] \in Int /\ h[b] \in Nat
      /\ m \in Keys /\ m \in Int /\ m # Null /\ lo[m] \in Int /\ hi[m] \in Int /\ h[m] \in Nat
      /\ Null \notin Keys /\ s.nodes \subseteq Keys /\ Null \notin s.nodes /\ Null \notin s.red
  BY <1>a DEF RedBroAround
<1>3. /\ lo[p] < p /\ p < hi[p]
      /\ lo[b] = lo[p] /\ hi[b] = p /\ lo[p] < b /\ b < p /\ s.up[b] = p
      /\ lo[n] = p /\ hi[n] = hi[p] /\ s.up[n] = p
      /\ lo[m] = b /\ hi[m] = p /\ b < m /\ m < p /\ s.up[m] = b
  BY <1>a DEF RedBroAround
<1>4. /\ p # n /\ p # b /\ p # m /\ n # b /\ n # m /\ b # m
      /\ n # top /\ b # top /\ m # top
  BY <1>a DEF RedBroAround
<1>5. /\ a \in s.nodes \cup {Null}
         /\ (a # Null => a \in s.nodes \ D /\ a \in Keys /\ s.up[a] = b /\ lo[a] = lo[p]
            /\ hi[a] = b)
      /\ c \in s.nodes \cup {Null}
         /\ (c # Null => c \in s.nodes \ D /\ c \in Keys /\ s.up[c] = n /\ lo[c] = p
            /\ hi[c] = hi[p])
      /\ d \in s.nodes \cup {Null}
         /\ (d # Null => d \in s.nodes \ D /\ d \in Keys /\ s.up[d] = m /\ lo[d] = b
            /\ hi[d] = m)
      /\ e \in s.nodes \cup {Null}
         /\ (e # Null => e \in s.nodes \ D /\ e \in Keys /\ s.up[e] = m /\ lo[e] = m
            /\ hi[e] = p)
  BY <1>a DEF RedBroAround
<1>2. /\ Placed(s, lo, hi, n, p) /\ Hung(s, top, p) /\ Weighed(s, h, Null, p) /\ Coloured(s, p)
      /\ Placed(s, lo, hi, n, n) /\ Hung(s, top, n) /\ Weighed(s, h, Null, n) /\ Coloured(s, n)
      /\ Placed(s, lo, hi, n, b) /\ Hung(s, top, b) /\ Weighed(s, h, Null, b) /\ Coloured(s, b)
      /\ Placed(s, lo, hi, n, m) /\ Hung(s, top, m) /\ Weighed(s, h, Null, m) /\ Coloured(s, m)
  BY SoundNode DEF RedBro
<1>0. /\ p \in s.nodes /\ n \in s.nodes /\ b \in s.nodes /\ m \in s.nodes /\ s.left[p] = b
      /\ s.right[p] = n /\ s.right[b] = m /\ p \notin s.red /\ n \notin s.red /\ b \in s.red
      /\ m \notin s.red /\ m \notin s.redlink
  BY DEF RedBro
<1>6. /\ h[p] = B + 2 /\ h[n] = B + 1 /\ h[b] = B + 1 /\ h[m] = B + 1
      /\ Height(h, a) = B + 1 /\ Height(h, c) = B /\ Height(h, d) = B /\ Height(h, e) = B
      /\ B \in Nat
  <2>1. Height(h, a) \in Nat /\ Height(h, c) \in Nat /\ Height(h, d) \in Nat
          /\ Height(h, e) \in Nat
    BY <1>1, <1>5, HeightIs
  <2>2. Height(h, p) = h[p] /\ Height(h, n) = h[n] /\ Height(h, b) = h[b] /\ Height(h, m) = h[m]
    BY <1>1 DEF Height
  <2>3. h[p] = h[b] + 1 /\ h[p] = h[n] + 1
    BY <1>0, <1>1, <1>2, <1>4, <2>2 DEF Weighed
  <2>4. h[n] = Height(h, c) + 1
    BY <1>0, <1>1, <1>2, <1>4, <2>2 DEF Weighed, Placed
  <2>5. h[b] = Height(h, a) + 0 /\ h[b] = h[m] + 0
    BY <1>0, <1>1, <1>2, <1>4, <2>2 DEF Weighed
  <2>6. h[m] = Height(h, d) + 1 /\ h[m] = Height(h, e) + 1
    BY <1>0, <1>1, <1>2, <1>4, <2>2 DEF Weighed
  <2>7. h[p] \in Nat /\ h[n] \in Nat /\ h[b] \in Nat /\ h[m] \in Nat
    BY <1>1
  <2> HIDE DEF a, c, d, e
  <2> QED
    BY <2>1, <2>3, <2>4, <2>5, <2>6, <2>7
<1>7. /\ n \notin s.red
      /\ (b \in s.red <=> p \in s.redlink) /\ (p \in s.red => b \notin s.red)
      /\ c \notin s.red
      /\ (c \in s.red <=> n \in s.redlink) /\ (n \in s.red => c \notin s.red)
      /\ m \notin s.red
      /\ (a \in s.red <=> b \in s.redlink) /\ (b \in s.red => a \notin s.red)
      /\ e \notin s.red
      /\ (d \in s.red <=> m \in s.redlink) /\ (m \in s.red => d \notin s.red)
  BY <1>0, <1>1, <1>2 DEF Coloured, Placed
<1>8. Labels(lo2, hi2, h2)
  BY <1>1, <1>6 DEF Labels
<1>9. /\ \A x \in Keys : (x # p => lo2[x] = lo[x]) /\ (x # b => hi2[x] = hi[x])
         /\ (x # p /\ x # b /\ x # m => h2[x] = h[x])
      /\ lo2[p] = b /\ hi2[b] = hi[p] /\ h2[p] = B + 1 /\ h2[b] = B + 2 /\ h2[m] = B
  <2> HIDE DEF B
  <2> QED
    BY <1>1, <1>4 DEF Labels
<1> HIDE DEF lo2, hi2, h2, B
<1>10. /\ lo2[p] = b /\ hi2[p] = hi[p] /\ h2[p] = B + 1
       /\ lo2[b] = lo[p] /\ hi2[b] = hi[p] /\ h2[b] = B + 2
       /\ lo2[m] = b /\ hi2[m] = p /\ h2[m] = B
  BY <1>1, <1>3, <1>4, <1>6, <1>9
<1>11. /\ a # Null => lo2[a] = lo[p] /\ hi2[a] = b
       /\ c # Null => lo2[c] = p /\ hi2[c] = hi[p]
       /\ d # Null => lo2[d] = b /\ hi2[d] = m
       /\ e # Null => lo2[e] = m /\ hi2[e] = p
       /\ Height(h2, a) = B + 1
       /\ Height(h2, c) = B
       /\ Height(h2, d) = B
       /\ Height(h2, e) = B
  <2>1. (a # Null => a # p /\ a # n /\ a # b /\ a # m)
          /\ (c # Null => c # p /\ c # n /\ c # b /\ c # m)
             /\ (d # Null => d # p /\ d # n /\ d # b /\ d # m)
                /\ (e # Null => e # p /\ e # n /\ e # b /\ e # m)
    BY <1>1, <1>5
  <2> HIDE DEF a, c, d, e
  <2>2. (a # Null => lo2[a] = lo[a] /\ hi2[a] = hi[a] /\ h2[a] = h[a])
          /\ (c # Null => lo2[c] = lo[c] /\ hi2[c] = hi[c] /\ h2[c] = h[c])
             /\ (d # Null => lo2[d] = lo[d] /\ hi2[d] = hi[d] /\ h2[d] = h[d])
                /\ (e # Null => lo2[e] = lo[e] /\ hi2[e] = hi[e] /\ h2[e] = h[e])
    BY <1>5, <1>9, <2>1
  <2> QED
    BY <1>5, <1>6, <2>2 DEF Height
<1>12. Part(s, top, D, p)
  BY <1>0, <1>3, <1>4 DEF Part
<1>13. /\ r \in Trees /\ r.nodes = s.nodes \ {n} /\ Turned(s, r, D, p, b)
       /\ p \notin r.red /\ p \in r.redlink /\ b \notin r.red
       /\ b \notin r.redlink /\ m \in r.red /\ (m \in r.redlink <=> m \in s.redlink)
       /\ r.left[p] = m /\ r.right[p] = c
       /\ r.left[b] = a /\ r.right[b] = p
       /\ r.left[m] = d /\ r.right[m] = e
       /\ r.up[b] = s.up[p] /\ r.up[p] = b /\ r.up[m] = p
       /\ a # Null => r.up[a] = b
       /\ c # Null => r.up[c] = p
       /\ d # Null => r.up[d] = m
       /\ e # Null => r.up[e] = m
  BY DEF TakenFromRed
<1>14. SameOutside(s, lo, hi, h, r, lo2, hi2, h2, D, E, p, b)
  <2> SUFFICES ASSUME NEW x \in s.nodes \ D
               PROVE  /\ lo2[x] = lo[x] /\ hi2[x] = hi[x] /\ h2[x] = h[x]
                      /\ s.up[x] \in D => r.up[x] \in E
                         /\ (x = r.left[r.up[x]] \/ x = r.right[r.up[x]])
    BY <1>13 DEF Turned, SameOutside
  <2>1. x \in Keys /\ x # Null /\ x # p /\ x # n /\ x # b /\ x # m
    BY <1>1
  <2>2. s.up[x] \in D => x \in {a, c, d, e}
    <3> SUFFICES ASSUME s.up[x] \in D PROVE x = s.left[s.up[x]] \/ x = s.right[s.up[x]]
      BY <1>0, <1>1, <2>1, <1>2 DEF Placed
    <3> QED
      BY <1>0, <1>1, SoundUp
  <2>3. (x = a => r.up[x] \in E /\ (x = r.left[r.up[x]] \/ x = r.right[r.up[x]]))
          /\ (x = c => r.up[x] \in E /\ (x = r.left[r.up[x]] \/ x = r.right[r.up[x]]))
             /\ (x = d => r.up[x] \in E /\ (x = r.left[r.up[x]] \/ x = r.right[r.up[x]]))
                /\ (x = e => r.up[x] \in E /\ (x = r.left[r.up[x]] \/ x = r.right[r.up[x]]))
    BY <2>1, <1>13
  <2> QED
    BY <1>9, <2>1, <2>2, <2>3
<1>15. SameAbove(s, top, lo, hi, h, r, lo2, hi2, h2, p, b)
  BY <1>0, <1>1, <1>6, <1>7, <1>10, <1>13 DEF SameAbove, Height
<1>16. Exchange(s, top, n, Null, r, top2, Null, Null, D, E, p, b)
  BY <1>0, <1>1, <1>4, <1>13 DEF Exchange
<1>17. SoundInside(r, lo2, hi2, h2, Null, Null, E, b)
  <2>1. (a \in r.red <=> a \in s.red) /\ (c \in r.red <=> c \in s.red)
          /\ (d \in r.red <=> d \in s.red) /\ (e \in r.red <=> e \in s.red) /\ Null \notin r.red
    <3>1. \A x \in s.nodes \ D : x \in r.red <=> x \in s.red
      BY <1>13 DEF Turned
    <3>2. Null \notin r.red
      BY <1>1, <1>13 DEF Trees
    <3> HIDE DEF a, c, d, e
    <3> QED
      BY <1>1, <1>5, <3>1, <3>2
  <2>2. Height(h2, p) = h2[p] /\ Height(h2, b) = h2[b] /\ Height(h2, m) = h2[m]
    BY <1>1 DEF Height
  <2>3. a \in r.nodes \cup {Null} /\ c \in r.nodes \cup {Null} /\ d \in r.nodes \cup {Null}
          /\ e \in r.nodes \cup {Null}
    BY <1>5, <1>13
  <2> HIDE DEF a, c, d, e, D, E
  <2>4. Placed(r, lo2, hi2, Null, p) /\ Weighed(r, h2, Null, p) /\ Coloured(r, p)
    <3>1. Placed(r, lo2, hi2, Null, p)
      BY <1>0, <1>1, <1>3, <1>4, <1>10, <1>11, <1>13, <2>3 DEF Placed
    <3>2. Weighed(r, h2, Null, p)
      <4>1. Height(h2, m) = B /\ Height(h2, c) = B /\ h2[p] = B + 1 /\ r.left[p] = m
              /\ r.right[p] = c
        BY <1>10, <1>11, <2>2, <1>13
      <4>2. p \notin r.red /\ p # Null /\ B \in Nat
        BY <1>1, <1>4, <1>6, <1>13
      <4> QED
        BY <4>1, <4>2 DEF Weighed
    <3>3. Coloured(r, p)
      BY <1>0, <1>7, <1>13, <2>1 DEF Coloured
    <3> QED
      BY <3>1, <3>2, <3>3
  <2>5. Placed(r, lo2, hi2, Null, b) /\ Weighed(r, h2, Null, b) /\ Coloured(r, b)
    <3>1. Placed(r, lo2, hi2, Null, b)
      BY <1>0, <1>1, <1>3, <1>4, <1>10, <1>11, <1>13, <2>3 DEF Placed
    <3>2. Weighed(r, h2, Null, b)
      <4>1. Height(h2, a) = B + 1 /\ Height(h2, p) = B + 1 /\ h2[b] = B + 2 /\ r.left[b] = a
              /\ r.right[b] = p
        BY <1>10, <1>11, <2>2, <1>13
      <4>2. b \notin r.red /\ b # Null /\ B \in Nat
        BY <1>1, <1>4, <1>6, <1>13
      <4> QED
        BY <4>1, <4>2 DEF Weighed
    <3>3. Coloured(r, b)
      BY <1>0, <1>7, <1>13, <2>1 DEF Coloured
    <3> QED
      BY <3>1, <3>2, <3>3
  <2>6. Placed(r, lo2, hi2, Null, m) /\ Weighed(r, h2, Null, m) /\ Coloured(r, m)
    <3>1. Placed(r, lo2, hi2, Null, m)
      BY <1>0, <1>1, <1>3, <1>4, <1>10, <1>11, <1>13, <2>3 DEF Placed
    <3>2. Weighed(r, h2, Null, m)
      <4>1. Height(h2, d) = B /\ Height(h2, e) = B /\ h2[m] = B /\ r.left[m] = d
              /\ r.right[m] = e
        BY <1>10, <1>11, <2>2, <1>13
      <4>2. m \in r.red /\ B \in Nat
        BY <1>6, <1>13
      <4> QED
        BY <4>1, <4>2 DEF Weighed
    <3>3. Coloured(r, m)
      BY <1>0, <1>7, <1>13, <2>1 DEF Coloured
    <3> QED
      BY <3>1, <3>2, <3>3
  <2>7. \A x \in E : x = b \/ (r.up[x] \in E /\ (x = r.left[r.up[x]] \/ x = r.right[r.up[x]]))
    BY <1>13 DEF D, E
  <2> QED
    BY <2>4, <2>5, <2>6, <2>7 DEF SoundInside, D, E
<1>18. Sound(r, top2, lo2, hi2, h2, Null, Null)
  <2>1. p # top \/ (b # Null /\ b \notin r.red /\ b # Null)
    BY <1>0, <1>1, <1>4, <1>13 DEF Sound
  <2>2. r \in Trees
    BY <1>13
  <2> HIDE DEF D, top2, E
  <2> QED
    BY <1>8, <1>12, <1>14, <1>15, <1>16, <1>17, <2>1, <2>2, ReplacedSound
<1>19. Height(h2, top2) = Height(h, top)
  <2>1. top \in Keys /\ top # Null
    BY <1>0, <1>1 DEF Sound
  <2>2. top # p => h2[top] = h[top]
    BY <1>4, <1>9, <2>1
  <2>3. h2[b] = h[p]
    BY <1>1, <1>6, <1>10
  <2>4. h[top] \in Nat
    BY <2>1 DEF Labels
  <2> QED
    BY <1>1, <2>1, <2>2, <2>3, <2>4 DEF Height
<1> HIDE DEF top2, lo2, hi2, h2
<1>20. \E l2, i2, e2 : Labels(l2, i2, e2) /\ Sound(r, top2, l2, i2, e2, Null, Null)
         /\ Height(e2, top2) = Height(h, top)
  BY <1>8, <1>18, <1>19
<1> QED
  BY <1>20 DEF top2

(* The hole n is left of p, its black brother b has a red child m.         *)
LeftBorrow(s, p, n, b, m) ==
  /\ p \in s.nodes /\ n \in s.nodes /\ b \in s.nodes /\ m \in s.nodes /\ s.left[p] = n
  /\ s.right[p] = b /\ s.left[b] = m /\ n \notin s.red /\ b \notin s.red /\ b \in s.redlink
  /\ m \in s.red

(* n is gone, m in the place of p, between p and b.                        *)
BorrowedLeft(s, r, p, n, b, m) ==
  /\ r \in Trees /\ r.nodes = s.nodes \ {n}
  /\ Turned(s, r, {p, n, b, m}, p, m)
  /\ p \notin r.red /\ (p \in r.redlink <=> n \in s.redlink) /\ b \notin r.red
  /\ b \notin r.redlink /\ (m \in r.red <=> p \in s.red)
     /\ (m \in r.redlink <=> p \in s.redlink)
  /\ r.left[p] = s.left[n] /\ r.right[p] = s.left[m]
  /\ r.left[b] = s.right[m] /\ r.right[b] = s.right[b]
  /\ r.left[m] = p /\ r.right[m] = b
  /\ r.up[m] = s.up[p] /\ r.up[p] = m /\ r.up[b] = m
  /\ s.left[n] # Null => r.up[s.left[n]] = p
  /\ s.right[b] # Null => r.up[s.right[b]] = b
  /\ s.left[m] # Null => r.up[s.left[m]] = p
  /\ s.right[m] # Null => r.up[s.right[m]] = b

(* The nodes that hang from the part, and the intervals of all of them.    *)
LeftBorrowAround(s, top, lo, hi, h, p, n, b, m) ==
  LET D == {p, n, b, m}
      c == s.left[n]
      f == s.right[b]
      d == s.left[m]
      e == s.right[m]
  IN  /\ p \in Keys /\ p \in Int /\ p # Null /\ lo[p] \in Int /\ hi[p] \in Int /\ h[p] \in Nat
      /\ n \in Keys /\ n \in Int /\ n # Null /\ lo[n] \in Int /\ hi[n] \in Int /\ h[n] \in Nat
      /\ b \in Keys /\ b \in Int /\ b # Null /\ lo[b] \in Int /\ hi[b] \in Int /\ h[b] \in Nat
      /\ m \in Keys /\ m \in Int /\ m # Null /\ lo[m] \in Int /\ hi[m] \in Int /\ h[m] \in Nat
      /\ Null \notin Keys /\ s.nodes \subseteq Keys /\ Null \notin s.nodes /\ Null \notin s.red
      /\ lo[p] < p /\ p < hi[p]
      /\ lo[n] = lo[p] /\ hi[n] = p /\ s.up[n] = p
      /\ lo[b] = p /\ hi[b] = hi[p] /\ p < b /\ b < hi[p] /\ s.up[b] = p
      /\ lo[m] = p /\ hi[m] = b /\ p < m /\ m < b /\ s.up[m] = b
      /\ p # n /\ p # b /\ p # m /\ n # b /\ n # m /\ b # m
      /\ n # top /\ b # top /\ m # top
      /\ c \in s.nodes \cup {Null}
         /\ (c # Null => c \in s.nodes \ D /\ c \in Keys /\ s.up[c] = n /\ lo[c] = lo[p]
            /\ hi[c] = p)
      /\ f \in s.nodes \cup {Null}
         /\ (f # Null => f \in s.nodes \ D /\ f \in Keys /\ s.up[f] = b /\ lo[f] = b
            /\ hi[f] = hi[p])
      /\ d \in s.nodes \cup {Null}
         /\ (d # Null => d \in s.nodes \ D /\ d \in Keys /\ s.up[d] = m /\ lo[d] = p
            /\ hi[d] = m)
      /\ e \in s.nodes \cup {Null}
         /\ (e # Null => e \in s.nodes \ D /\ e \in Keys /\ s.up[e] = m /\ lo[e] = m
            /\ hi[e] = b)
      /\ s.up[p] \notin D /\ (d # Null => d # e)

(* They are nodes of their own.                                            *)
LEMMA LeftBorrowApart ==
  ASSUME NEW s, NEW top, NEW lo, NEW hi, NEW h, s \in Trees, Labels(lo, hi, h),
         NEW p, NEW n, NEW b, NEW m, Sound(s, top, lo, hi, h, n, Null),
         LeftBorrow(s, p, n, b, m)
  PROVE  LeftBorrowAround(s, top, lo, hi, h, p, n, b, m)
<1> DEFINE D == {p, n, b, m}
           c == s.left[n]
           f == s.right[b]
           d == s.left[m]
           e == s.right[m]
<1>1. /\ p \in Keys /\ p \in Int /\ p # Null /\ lo[p] \in Int /\ hi[p] \in Int /\ h[p] \in Nat
      /\ n \in Keys /\ n \in Int /\ n # Null /\ lo[n] \in Int /\ hi[n] \in Int /\ h[n] \in Nat
      /\ b \in Keys /\ b \in Int /\ b # Null /\ lo[b] \in Int /\ hi[b] \in Int /\ h[b] \in Nat
      /\ m \in Keys /\ m \in Int /\ m # Null /\ lo[m] \in Int /\ hi[m] \in Int /\ h[m] \in Nat
      /\ Null \notin Keys /\ s.nodes \subseteq Keys /\ Null \notin s.nodes /\ Null \notin s.red
  BY SoundNode, KeysFinite DEF Trees, LeftBorrow
<1>2. /\ Placed(s, lo, hi, n, p) /\ Hung(s, top, p) /\ Weighed(s, h, Null, p) /\ Coloured(s, p)
      /\ Placed(s, lo, hi, n, n) /\ Hung(s, top, n) /\ Weighed(s, h, Null, n) /\ Coloured(s, n)
      /\ Placed(s, lo, hi, n, b) /\ Hung(s, top, b) /\ Weighed(s, h, Null, b) /\ Coloured(s, b)
      /\ Placed(s, lo, hi, n, m) /\ Hung(s, top, m) /\ Weighed(s, h, Null, m) /\ Coloured(s, m)
  BY SoundNode DEF LeftBorrow
<1>3. /\ lo[p] < p /\ p < hi[p]
      /\ lo[n] = lo[p] /\ hi[n] = p /\ s.up[n] = p
      /\ lo[b] = p /\ hi[b] = hi[p] /\ p < b /\ b < hi[p] /\ s.up[b] = p
      /\ lo[m] = p /\ hi[m] = b /\ p < m /\ m < b /\ s.up[m] = b
  <2>1. lo[p] < p /\ p < hi[p]
    BY <1>1, <1>2 DEF Placed, LeftBorrow
  <2>2. lo[n] = lo[p] /\ hi[n] = p /\ s.up[n] = p
    BY <1>1, <1>2, <2>1 DEF Placed, LeftBorrow
  <2>3. p < b /\ b < hi[p] /\ lo[b] = p /\ hi[b] = hi[p] /\ s.up[b] = p
    BY <1>1, <1>2, <2>1, <2>2 DEF Placed, LeftBorrow
  <2>4. p < m /\ m < b /\ lo[m] = p /\ hi[m] = b /\ s.up[m] = b
    BY <1>1, <1>2, <2>1, <2>2, <2>3 DEF Placed, LeftBorrow
  <2> QED
    BY <2>1, <2>2, <2>3, <2>4
<1>4. /\ p # n /\ p # b /\ p # m /\ n # b /\ n # m /\ b # m
      /\ n # top /\ b # top /\ m # top
  <2>1. /\ p # n /\ p # b /\ p # m /\ n # b /\ n # m /\ b # m
    BY <1>1, <1>2, <1>3 DEF Placed, LeftBorrow
  <2>2. n # top /\ b # top /\ m # top
    BY <1>1, <1>2, <1>3 DEF Hung, LeftBorrow
  <2> QED
    BY <2>1, <2>2
<1>5. /\ c \in s.nodes \cup {Null}
         /\ (c # Null => c \in s.nodes \ D /\ c \in Keys /\ s.up[c] = n /\ lo[c] = lo[p]
            /\ hi[c] = p)
      /\ f \in s.nodes \cup {Null}
         /\ (f # Null => f \in s.nodes \ D /\ f \in Keys /\ s.up[f] = b /\ lo[f] = b
            /\ hi[f] = hi[p])
      /\ d \in s.nodes \cup {Null}
         /\ (d # Null => d \in s.nodes \ D /\ d \in Keys /\ s.up[d] = m /\ lo[d] = p
            /\ hi[d] = m)
      /\ e \in s.nodes \cup {Null}
         /\ (e # Null => e \in s.nodes \ D /\ e \in Keys /\ s.up[e] = m /\ lo[e] = m
            /\ hi[e] = b)
  <2>1. c \in s.nodes \cup {Null} /\ (c # Null => s.up[c] = n /\ lo[c] = lo[p] /\ hi[c] = p)
    BY <1>1, <1>2, <1>3 DEF Placed, LeftBorrow
  <2>1a. c # Null => c \notin D
    BY <1>1, <1>3, <1>4, <2>1, <1>2 DEF Hung, LeftBorrow
  <2>2. f \in s.nodes \cup {Null} /\ (f # Null => s.up[f] = b /\ lo[f] = b /\ hi[f] = hi[p])
    BY <1>1, <1>2, <1>3 DEF Placed, LeftBorrow
  <2>2a. f # Null => f \notin D
    BY <1>1, <1>3, <1>4, <2>2, <1>2 DEF Hung, LeftBorrow
  <2>3. d \in s.nodes \cup {Null} /\ (d # Null => s.up[d] = m /\ lo[d] = p /\ hi[d] = m)
    BY <1>1, <1>2, <1>3 DEF Placed, LeftBorrow
  <2>3a. d # Null => d \notin D
    BY <1>1, <1>3, <1>4, <2>3, <1>2 DEF Hung, LeftBorrow
  <2>4. e \in s.nodes \cup {Null} /\ (e # Null => s.up[e] = m /\ lo[e] = m /\ hi[e] = b)
    BY <1>1, <1>2, <1>3 DEF Placed, LeftBorrow
  <2>4a. e # Null => e \notin D
    BY <1>1, <1>3, <1>4, <2>4, <1>2 DEF Hung, LeftBorrow
  <2> QED
    BY <1>1, <2>1, <2>1a, <2>2, <2>2a, <2>3, <2>3a, <2>4, <2>4a
<1>6. /\ s.up[p] \notin D /\ (d # Null => d # e)
  <2>1. s.up[p] \notin D
    <3>1. s.up[p] = Null \/ p \in {s.left[s.up[p]], s.right[s.up[p]]}
      BY <1>1, <1>2 DEF Hung, LeftBorrow
    <3>2. \A x \in D : p # s.left[x] /\ p # s.right[x] /\ x # Null
      BY <1>1, <1>2, <1>4, <1>5 DEF Placed, LeftBorrow, LeftBorrow
    <3> QED
      BY <3>1, <3>2
  <2>2. d # Null => d # e
    BY <1>1, <1>3, <1>5
  <2> QED
    BY <2>1, <2>2
<1> QED
  BY <1>1, <1>3, <1>4, <1>5, <1>6 DEF LeftBorrowAround

(* The rules hold again once the part is replaced.                         *)
LEMMA BorrowedLeftSound ==
  ASSUME NEW s, NEW top, NEW lo, NEW hi, NEW h, s \in Trees, Labels(lo, hi, h),
         NEW p, NEW n, NEW b, NEW m, Sound(s, top, lo, hi, h, n, Null),
         LeftBorrow(s, p, n, b, m),
         NEW r, BorrowedLeft(s, r, p, n, b, m)
  PROVE  \E lo2, hi2, h2 : /\ Labels(lo2, hi2, h2)
                           /\ Sound(r, IF top = p THEN m ELSE top, lo2, hi2, h2, Null, Null)
                           /\ Height(h2, IF top = p THEN m ELSE top) = Height(h, top)
<1> DEFINE D == {p, n, b, m}
           E == {p, b, m}
           top2 == IF top = p THEN m ELSE top
           c == s.left[n]
           f == s.right[b]
           d == s.left[m]
           e == s.right[m]
           B == Height(h, c)
           w == IF p \in s.red THEN 0 ELSE 1
           lo2 == [lo EXCEPT ![b] = m, ![m] = lo[p]]
           hi2 == [hi EXCEPT ![p] = m, ![m] = hi[p]]
           h2 == [h EXCEPT ![p] = B + 1, ![m] = B + 1 + w]
<1>a. LeftBorrowAround(s, top, lo, hi, h, p, n, b, m)
  BY LeftBorrowApart
<1>1. /\ p \in Keys /\ p \in Int /\ p # Null /\ lo[p] \in Int /\ hi[p] \in Int /\ h[p] \in Nat
      /\ n \in Keys /\ n \in Int /\ n # Null /\ lo[n] \in Int /\ hi[n] \in Int /\ h[n] \in Nat
      /\ b \in Keys /\ b \in Int /\ b # Null /\ lo[b] \in Int /\ hi[b] \in Int /\ h[b] \in Nat
      /\ m \in Keys /\ m \in Int /\ m # Null /\ lo[m] \in Int /\ hi[m] \in Int /\ h[m] \in Nat
      /\ Null \notin Keys /\ s.nodes \subseteq Keys /\ Null \notin s.nodes /\ Null \notin s.red
  BY <1>a DEF LeftBorrowAround
<1>3. /\ lo[p] < p /\ p < hi[p]
      /\ lo[n] = lo[p] /\ hi[n] = p /\ s.up[n] = p
      /\ lo[b] = p /\ hi[b] = hi[p] /\ p < b /\ b < hi[p] /\ s.up[b] = p
      /\ lo[m] = p /\ hi[m] = b /\ p < m /\ m < b /\ s.up[m] = b
  BY <1>a DEF LeftBorrowAround
<1>4. /\ p # n /\ p # b /\ p # m /\ n # b /\ n # m /\ b # m
      /\ n # top /\ b # top /\ m # top
  BY <1>a DEF LeftBorrowAround
<1>5. /\ c \in s.nodes \cup {Null}
         /\ (c # Null => c \in s.nodes \ D /\ c \in Keys /\ s.up[c] = n /\ lo[c] = lo[p]
            /\ hi[c] = p)
      /\ f \in s.nodes \cup {Null}
         /\ (f # Null => f \in s.nodes \ D /\ f \in Keys /\ s.up[f] = b /\ lo[f] = b
            /\ hi[f] = hi[p])
      /\ d \in s.nodes \cup {Null}
         /\ (d # Null => d \in s.nodes \ D /\ d \in Keys /\ s.up[d] = m /\ lo[d] = p
            /\ hi[d] = m)
      /\ e \in s.nodes \cup {Null}
         /\ (e # Null => e \in s.nodes \ D /\ e \in Keys /\ s.up[e] = m /\ lo[e] = m
            /\ hi[e] = b)
  BY <1>a DEF LeftBorrowAround
<1>2. /\ Placed(s, lo, hi, n, p) /\ Hung(s, top, p) /\ Weighed(s, h, Null, p) /\ Coloured(s, p)
      /\ Placed(s, lo, hi, n, n) /\ Hung(s, top, n) /\ Weighed(s, h, Null, n) /\ Coloured(s, n)
      /\ Placed(s, lo, hi, n, b) /\ Hung(s, top, b) /\ Weighed(s, h, Null, b) /\ Coloured(s, b)
      /\ Placed(s, lo, hi, n, m) /\ Hung(s, top, m) /\ Weighed(s, h, Null, m) /\ Coloured(s, m)
  BY SoundNode DEF LeftBorrow
<1>0. /\ p \in s.nodes /\ n \in s.nodes /\ b \in s.nodes /\ m \in s.nodes /\ s.left[p] = n
      /\ s.right[p] = b /\ s.left[b] = m /\ n \notin s.red /\ b \notin s.red /\ b \in s.redlink
      /\ m \in s.red
  BY DEF LeftBorrow
<1>6. /\ h[p] = B + 1 + w /\ h[n] = B + 1 /\ h[b] = B + 1 /\ h[m] = B
      /\ Height(h, c) = B /\ Height(h, f) = B /\ Height(h, d) = B /\ Height(h, e) = B
      /\ B \in Nat /\ w \in Nat
  <2>1. Height(h, c) \in Nat /\ Height(h, f) \in Nat /\ Height(h, d) \in Nat
          /\ Height(h, e) \in Nat
    BY <1>1, <1>5, HeightIs
  <2>2. Height(h, p) = h[p] /\ Height(h, n) = h[n] /\ Height(h, b) = h[b] /\ Height(h, m) = h[m]
    BY <1>1 DEF Height
  <2>3. h[p] = h[n] + w /\ h[p] = h[b] + w
    BY <1>0, <1>1, <1>2, <1>4, <2>2 DEF Weighed
  <2>4. h[n] = Height(h, c) + 1
    BY <1>0, <1>1, <1>2, <1>4, <2>2 DEF Weighed, Placed
  <2>5. h[b] = h[m] + 1 /\ h[b] = Height(h, f) + 1
    BY <1>0, <1>1, <1>2, <1>4, <2>2 DEF Weighed
  <2>6. h[m] = Height(h, d) + 0 /\ h[m] = Height(h, e) + 0
    BY <1>0, <1>1, <1>2, <1>4, <2>2 DEF Weighed
  <2>7. h[p] \in Nat /\ h[n] \in Nat /\ h[b] \in Nat /\ h[m] \in Nat
    BY <1>1
  <2>7a. w \in {0, 1}
    OBVIOUS
  <2> HIDE DEF w
  <2> HIDE DEF c, f, d, e
  <2> QED
    BY <2>1, <2>3, <2>4, <2>5, <2>6, <2>7, <2>7a
<1>7. /\ b \notin s.red
      /\ (n \in s.red <=> p \in s.redlink) /\ (p \in s.red => n \notin s.red)
      /\ c \notin s.red
      /\ (c \in s.red <=> n \in s.redlink) /\ (n \in s.red => c \notin s.red)
      /\ f \notin s.red
      /\ (m \in s.red <=> b \in s.redlink) /\ (b \in s.red => m \notin s.red)
      /\ e \notin s.red
      /\ (d \in s.red <=> m \in s.redlink) /\ (m \in s.red => d \notin s.red)
  BY <1>0, <1>1, <1>2 DEF Coloured, Placed
<1>8. Labels(lo2, hi2, h2)
  BY <1>1, <1>6 DEF Labels
<1>9. /\ \A x \in Keys : (x # b /\ x # m => lo2[x] = lo[x])
         /\ (x # p /\ x # m => hi2[x] = hi[x]) /\ (x # p /\ x # m => h2[x] = h[x])
      /\ lo2[b] = m /\ lo2[m] = lo[p] /\ hi2[p] = m /\ hi2[m] = hi[p] /\ h2[p] = B + 1
         /\ h2[m] = B + 1 + w
  <2> HIDE DEF B, w
  <2> QED
    BY <1>1, <1>4 DEF Labels
<1> HIDE DEF lo2, hi2, h2, B, w
<1>10. /\ lo2[p] = lo[p] /\ hi2[p] = m /\ h2[p] = B + 1
       /\ lo2[b] = m /\ hi2[b] = hi[p] /\ h2[b] = B + 1
       /\ lo2[m] = lo[p] /\ hi2[m] = hi[p] /\ h2[m] = B + 1 + w
  BY <1>1, <1>3, <1>4, <1>6, <1>9
<1>11. /\ c # Null => lo2[c] = lo[p] /\ hi2[c] = p
       /\ f # Null => lo2[f] = b /\ hi2[f] = hi[p]
       /\ d # Null => lo2[d] = p /\ hi2[d] = m
       /\ e # Null => lo2[e] = m /\ hi2[e] = b
       /\ Height(h2, c) = B
       /\ Height(h2, f) = B
       /\ Height(h2, d) = B
       /\ Height(h2, e) = B
  <2>1. (c # Null => c # p /\ c # n /\ c # b /\ c # m)
          /\ (f # Null => f # p /\ f # n /\ f # b /\ f # m)
             /\ (d # Null => d # p /\ d # n /\ d # b /\ d # m)
                /\ (e # Null => e # p /\ e # n /\ e # b /\ e # m)
    BY <1>1, <1>5
  <2> HIDE DEF c, f, d, e
  <2>2. (c # Null => lo2[c] = lo[c] /\ hi2[c] = hi[c] /\ h2[c] = h[c])
          /\ (f # Null => lo2[f] = lo[f] /\ hi2[f] = hi[f] /\ h2[f] = h[f])
             /\ (d # Null => lo2[d] = lo[d] /\ hi2[d] = hi[d] /\ h2[d] = h[d])
                /\ (e # Null => lo2[e] = lo[e] /\ hi2[e] = hi[e] /\ h2[e] = h[e])
    BY <1>5, <1>9, <2>1
  <2> QED
    BY <1>5, <1>6, <2>2 DEF Height
<1>12. Part(s, top, D, p)
  BY <1>0, <1>3, <1>4 DEF Part
<1>13. /\ r \in Trees /\ r.nodes = s.nodes \ {n} /\ Turned(s, r, D, p, m)
       /\ p \notin r.red /\ (p \in r.redlink <=> n \in s.redlink) /\ b \notin r.red
       /\ b \notin r.redlink /\ (m \in r.red <=> p \in s.red)
          /\ (m \in r.redlink <=> p \in s.redlink)
       /\ r.left[p] = c /\ r.right[p] = d
       /\ r.left[b] = e /\ r.right[b] = f
       /\ r.left[m] = p /\ r.right[m] = b
       /\ r.up[m] = s.up[p] /\ r.up[p] = m /\ r.up[b] = m
       /\ c # Null => r.up[c] = p
       /\ f # Null => r.up[f] = b
       /\ d # Null => r.up[d] = p
       /\ e # Null => r.up[e] = b
  BY DEF BorrowedLeft
<1>14. SameOutside(s, lo, hi, h, r, lo2, hi2, h2, D, E, p, m)
  <2> SUFFICES ASSUME NEW x \in s.nodes \ D
               PROVE  /\ lo2[x] = lo[x] /\ hi2[x] = hi[x] /\ h2[x] = h[x]
                      /\ s.up[x] \in D => r.up[x] \in E
                         /\ (x = r.left[r.up[x]] \/ x = r.right[r.up[x]])
    BY <1>13 DEF Turned, SameOutside
  <2>1. x \in Keys /\ x # Null /\ x # p /\ x # n /\ x # b /\ x # m
    BY <1>1
  <2>2. s.up[x] \in D => x \in {c, f, d, e}
    <3> SUFFICES ASSUME s.up[x] \in D PROVE x = s.left[s.up[x]] \/ x = s.right[s.up[x]]
      BY <1>0, <1>1, <2>1, <1>2 DEF Placed
    <3> QED
      BY <1>0, <1>1, SoundUp
  <2>3. (x = c => r.up[x] \in E /\ (x = r.left[r.up[x]] \/ x = r.right[r.up[x]]))
          /\ (x = f => r.up[x] \in E /\ (x = r.left[r.up[x]] \/ x = r.right[r.up[x]]))
             /\ (x = d => r.up[x] \in E /\ (x = r.left[r.up[x]] \/ x = r.right[r.up[x]]))
                /\ (x = e => r.up[x] \in E /\ (x = r.left[r.up[x]] \/ x = r.right[r.up[x]]))
    BY <2>1, <1>13
  <2> QED
    BY <1>9, <2>1, <2>2, <2>3
<1>15. SameAbove(s, top, lo, hi, h, r, lo2, hi2, h2, p, m)
  BY <1>0, <1>1, <1>6, <1>7, <1>10, <1>13 DEF SameAbove, Height
<1>16. Exchange(s, top, n, Null, r, top2, Null, Null, D, E, p, m)
  BY <1>0, <1>1, <1>4, <1>13 DEF Exchange
<1>17. SoundInside(r, lo2, hi2, h2, Null, Null, E, m)
  <2>1. (c \in r.red <=> c \in s.red) /\ (f \in r.red <=> f \in s.red)
          /\ (d \in r.red <=> d \in s.red) /\ (e \in r.red <=> e \in s.red) /\ Null \notin r.red
    <3>1. \A x \in s.nodes \ D : x \in r.red <=> x \in s.red
      BY <1>13 DEF Turned
    <3>2. Null \notin r.red
      BY <1>1, <1>13 DEF Trees
    <3> HIDE DEF c, f, d, e
    <3> QED
      BY <1>1, <1>5, <3>1, <3>2
  <2>2. Height(h2, p) = h2[p] /\ Height(h2, b) = h2[b] /\ Height(h2, m) = h2[m]
    BY <1>1 DEF Height
  <2>3. c \in r.nodes \cup {Null} /\ f \in r.nodes \cup {Null} /\ d \in r.nodes \cup {Null}
          /\ e \in r.nodes \cup {Null}
    BY <1>5, <1>13
  <2> HIDE DEF c, f, d, e, D, E
  <2>4. Placed(r, lo2, hi2, Null, p) /\ Weighed(r, h2, Null, p) /\ Coloured(r, p)
    <3>1. Placed(r, lo2, hi2, Null, p)
      BY <1>0, <1>1, <1>3, <1>4, <1>10, <1>11, <1>13, <2>3 DEF Placed
    <3>2. Weighed(r, h2, Null, p)
      <4>1. Height(h2, c) = B /\ Height(h2, d) = B /\ h2[p] = B + 1 /\ r.left[p] = c
              /\ r.right[p] = d
        BY <1>10, <1>11, <2>2, <1>13
      <4>2. p \notin r.red /\ p # Null /\ B \in Nat /\ w \in Nat
        BY <1>1, <1>4, <1>6, <1>13
      <4> QED
        BY <4>1, <4>2 DEF Weighed
    <3>3. Coloured(r, p)
      BY <1>0, <1>7, <1>13, <2>1 DEF Coloured
    <3> QED
      BY <3>1, <3>2, <3>3
  <2>5. Placed(r, lo2, hi2, Null, b) /\ Weighed(r, h2, Null, b) /\ Coloured(r, b)
    <3>1. Placed(r, lo2, hi2, Null, b)
      BY <1>0, <1>1, <1>3, <1>4, <1>10, <1>11, <1>13, <2>3 DEF Placed
    <3>2. Weighed(r, h2, Null, b)
      <4>1. Height(h2, e) = B /\ Height(h2, f) = B /\ h2[b] = B + 1 /\ r.left[b] = e
              /\ r.right[b] = f
        BY <1>10, <1>11, <2>2, <1>13
      <4>2. b \notin r.red /\ b # Null /\ B \in Nat /\ w \in Nat
        BY <1>1, <1>4, <1>6, <1>13
      <4> QED
        BY <4>1, <4>2 DEF Weighed
    <3>3. Coloured(r, b)
      BY <1>0, <1>7, <1>13, <2>1 DEF Coloured
    <3> QED
      BY <3>1, <3>2, <3>3
  <2>6. Placed(r, lo2, hi2, Null, m) /\ Weighed(r, h2, Null, m) /\ Coloured(r, m)
    <3>1. Placed(r, lo2, hi2, Null, m)
      BY <1>0, <1>1, <1>3, <1>4, <1>10, <1>11, <1>13, <2>3 DEF Placed
    <3>2. Weighed(r, h2, Null, m)
      <4>1. Height(h2, p) = B + 1 /\ Height(h2, b) = B + 1 /\ h2[m] = B + 1 + w
              /\ r.left[m] = p /\ r.right[m] = b
        BY <1>10, <1>11, <2>2, <1>13
      <4>2. m # Null /\ B \in Nat /\ w \in Nat /\ w = (IF m \in r.red THEN 0 ELSE 1)
        BY <1>1, <1>4, <1>6, <1>13 DEF w
      <4> QED
        BY <4>1, <4>2 DEF Weighed
    <3>3. Coloured(r, m)
      BY <1>0, <1>7, <1>13, <2>1 DEF Coloured
    <3> QED
      BY <3>1, <3>2, <3>3
  <2>7. \A x \in E : x = m \/ (r.up[x] \in E /\ (x = r.left[r.up[x]] \/ x = r.right[r.up[x]]))
    BY <1>13 DEF D, E
  <2> QED
    BY <2>4, <2>5, <2>6, <2>7 DEF SoundInside, D, E
<1>18. Sound(r, top2, lo2, hi2, h2, Null, Null)
  <2>1. p # top \/ (m # Null /\ m \notin r.red /\ m # Null)
    BY <1>0, <1>1, <1>4, <1>13 DEF Sound
  <2>2. r \in Trees
    BY <1>13
  <2> HIDE DEF D, top2, E
  <2> QED
    BY <1>8, <1>12, <1>14, <1>15, <1>16, <1>17, <2>1, <2>2, ReplacedSound
<1>19. Height(h2, top2) = Height(h, top)
  <2>1. top \in Keys /\ top # Null
    BY <1>0, <1>1 DEF Sound
  <2>2. top # p => h2[top] = h[top]
    BY <1>4, <1>9, <2>1
  <2>3. h2[m] = h[p]
    BY <1>1, <1>6, <1>10
  <2>4. h[top] \in Nat
    BY <2>1 DEF Labels
  <2> QED
    BY <1>1, <2>1, <2>2, <2>3, <2>4 DEF Height
<1> HIDE DEF top2, lo2, hi2, h2
<1>20. \E l2, i2, e2 : Labels(l2, i2, e2) /\ Sound(r, top2, l2, i2, e2, Null, Null)
         /\ Height(e2, top2) = Height(h, top)
  BY <1>8, <1>18, <1>19
<1> QED
  BY <1>20 DEF top2

(* The hole n is right of p, its black brother b has a red child m.        *)
RightBorrow(s, p, n, b, m) ==
  /\ p \in s.nodes /\ n \in s.nodes /\ b \in s.nodes /\ m \in s.nodes /\ s.left[p] = b
  /\ s.right[p] = n /\ s.left[b] = m /\ n \notin s.red /\ b \notin s.red /\ b \in s.redlink
  /\ m \in s.red

(* n is gone, b in the place of p, between m and p.                        *)
BorrowedRight(s, r, p, n, b, m) ==
  /\ r \in Trees /\ r.nodes = s.nodes \ {n}
  /\ Turned(s, r, {p, n, b, m}, p, b)
  /\ p \notin r.red /\ (p \in r.redlink <=> n \in s.redlink) /\ (b \in r.red <=> p \in s.red)
  /\ (b \in r.redlink <=> p \in s.redlink) /\ m \notin r.red
     /\ (m \in r.redlink <=> m \in s.redlink)
  /\ r.left[p] = s.right[b] /\ r.right[p] = s.left[n]
  /\ r.left[b] = m /\ r.right[b] = p
  /\ r.left[m] = s.left[m] /\ r.right[m] = s.right[m]
  /\ r.up[b] = s.up[p] /\ r.up[p] = b /\ r.up[m] = b
  /\ s.right[b] # Null => r.up[s.right[b]] = p
  /\ s.left[n] # Null => r.up[s.left[n]] = p
  /\ s.left[m] # Null => r.up[s.left[m]] = m
  /\ s.right[m] # Null => r.up[s.right[m]] = m

(* The nodes that hang from the part, and the intervals of all of them.    *)
RightBorrowAround(s, top, lo, hi, h, p, n, b, m) ==
  LET D == {p, n, b, m}
      f == s.right[b]
      c == s.left[n]
      d == s.left[m]
      e == s.right[m]
  IN  /\ p \in Keys /\ p \in Int /\ p # Null /\ lo[p] \in Int /\ hi[p] \in Int /\ h[p] \in Nat
      /\ n \in Keys /\ n \in Int /\ n # Null /\ lo[n] \in Int /\ hi[n] \in Int /\ h[n] \in Nat
      /\ b \in Keys /\ b \in Int /\ b # Null /\ lo[b] \in Int /\ hi[b] \in Int /\ h[b] \in Nat
      /\ m \in Keys /\ m \in Int /\ m # Null /\ lo[m] \in Int /\ hi[m] \in Int /\ h[m] \in Nat
      /\ Null \notin Keys /\ s.nodes \subseteq Keys /\ Null \notin s.nodes /\ Null \notin s.red
      /\ lo[p] < p /\ p < hi[p]
      /\ lo[b] = lo[p] /\ hi[b] = p /\ lo[p] < b /\ b < p /\ s.up[b] = p
      /\ lo[n] = p /\ hi[n] = hi[p] /\ s.up[n] = p
      /\ lo[m] = lo[p] /\ hi[m] = b /\ lo[p] < m /\ m < b /\ s.up[m] = b
      /\ p # n /\ p # b /\ p # m /\ n # b /\ n # m /\ b # m
      /\ n # top /\ b # top /\ m # top
      /\ f \in s.nodes \cup {Null}
         /\ (f # Null => f \in s.nodes \ D /\ f \in Keys /\ s.up[f] = b /\ lo[f] = b
            /\ hi[f] = p)
      /\ c \in s.nodes \cup {Null}
         /\ (c # Null => c \in s.nodes \ D /\ c \in Keys /\ s.up[c] = n /\ lo[c] = p
            /\ hi[c] = hi[p])
      /\ d \in s.nodes \cup {Null}
         /\ (d # Null => d \in s.nodes \ D /\ d \in Keys /\ s.up[d] = m /\ lo[d] = lo[p]
            /\ hi[d] = m)
      /\ e \in s.nodes \cup {Null}
         /\ (e # Null => e \in s.nodes \ D /\ e \in Keys /\ s.up[e] = m /\ lo[e] = m
            /\ hi[e] = b)
      /\ s.up[p] \notin D /\ (d # Null => d # e)

(* They are nodes of their own.                                            *)
LEMMA RightBorrowApart ==
  ASSUME NEW s, NEW top, NEW lo, NEW hi, NEW h, s \in Trees, Labels(lo, hi, h),
         NEW p, NEW n, NEW b, NEW m, Sound(s, top, lo, hi, h, n, Null),
         RightBorrow(s, p, n, b, m)
  PROVE  RightBorrowAround(s, top, lo, hi, h, p, n, b, m)
<1> DEFINE D == {p, n, b, m}
           f == s.right[b]
           c == s.left[n]
           d == s.left[m]
           e == s.right[m]
<1>1. /\ p \in Keys /\ p \in Int /\ p # Null /\ lo[p] \in Int /\ hi[p] \in Int /\ h[p] \in Nat
      /\ n \in Keys /\ n \in Int /\ n # Null /\ lo[n] \in Int /\ hi[n] \in Int /\ h[n] \in Nat
      /\ b \in Keys /\ b \in Int /\ b # Null /\ lo[b] \in Int /\ hi[b] \in Int /\ h[b] \in Nat
      /\ m \in Keys /\ m \in Int /\ m # Null /\ lo[m] \in Int /\ hi[m] \in Int /\ h[m] \in Nat
      /\ Null \notin Keys /\ s.nodes \subseteq Keys /\ Null \notin s.nodes /\ Null \notin s.red
  BY SoundNode, KeysFinite DEF Trees, RightBorrow
<1>2. /\ Placed(s, lo, hi, n, p) /\ Hung(s, top, p) /\ Weighed(s, h, Null, p) /\ Coloured(s, p)
      /\ Placed(s, lo, hi, n, n) /\ Hung(s, top, n) /\ Weighed(s, h, Null, n) /\ Coloured(s, n)
      /\ Placed(s, lo, hi, n, b) /\ Hung(s, top, b) /\ Weighed(s, h, Null, b) /\ Coloured(s, b)
      /\ Placed(s, lo, hi, n, m) /\ Hung(s, top, m) /\ Weighed(s, h, Null, m) /\ Coloured(s, m)
  BY SoundNode DEF RightBorrow
<1>3. /\ lo[p] < p /\ p < hi[p]
      /\ lo[b] = lo[p] /\ hi[b] = p /\ lo[p] < b /\ b < p /\ s.up[b] = p
      /\ lo[n] = p /\ hi[n] = hi[p] /\ s.up[n] = p
      /\ lo[m] = lo[p] /\ hi[m] = b /\ lo[p] < m /\ m < b /\ s.up[m] = b
  <2>1. lo[p] < p /\ p < hi[p]
    BY <1>1, <1>2 DEF Placed, RightBorrow
  <2>2. lo[p] < b /\ b < p /\ lo[b] = lo[p] /\ hi[b] = p /\ s.up[b] = p
    BY <1>1, <1>2, <2>1 DEF Placed, RightBorrow
  <2>3. lo[n] = p /\ hi[n] = hi[p] /\ s.up[n] = p
    BY <1>1, <1>2, <2>1, <2>2 DEF Placed, RightBorrow
  <2>4. lo[p] < m /\ m < b /\ lo[m] = lo[p] /\ hi[m] = b /\ s.up[m] = b
    BY <1>1, <1>2, <2>1, <2>2, <2>3 DEF Placed, RightBorrow
  <2> QED
    BY <2>1, <2>2, <2>3, <2>4
<1>4. /\ p # n /\ p # b /\ p # m /\ n # b /\ n # m /\ b # m
      /\ n # top /\ b # top /\ m # top
  <2>1. /\ p # n /\ p # b /\ p # m /\ n # b /\ n # m /\ b # m
    BY <1>1, <1>2, <1>3 DEF Placed, RightBorrow
  <2>2. n # top /\ b # top /\ m # top
    BY <1>1, <1>2, <1>3 DEF Hung, RightBorrow
  <2> QED
    BY <2>1, <2>2
<1>5. /\ f \in s.nodes \cup {Null}
         /\ (f # Null => f \in s.nodes \ D /\ f \in Keys /\ s.up[f] = b /\ lo[f] = b
            /\ hi[f] = p)
      /\ c \in s.nodes \cup {Null}
         /\ (c # Null => c \in s.nodes \ D /\ c \in Keys /\ s.up[c] = n /\ lo[c] = p
            /\ hi[c] = hi[p])
      /\ d \in s.nodes \cup {Null}
         /\ (d # Null => d \in s.nodes \ D /\ d \in Keys /\ s.up[d] = m /\ lo[d] = lo[p]
            /\ hi[d] = m)
      /\ e \in s.nodes \cup {Null}
         /\ (e # Null => e \in s.nodes \ D /\ e \in Keys /\ s.up[e] = m /\ lo[e] = m
            /\ hi[e] = b)
  <2>1. f \in s.nodes \cup {Null} /\ (f # Null => s.up[f] = b /\ lo[f] = b /\ hi[f] = p)
    BY <1>1, <1>2, <1>3 DEF Placed, RightBorrow
  <2>1a. f # Null => f \notin D
    BY <1>1, <1>3, <1>4, <2>1, <1>2 DEF Hung, RightBorrow
  <2>2. c \in s.nodes \cup {Null} /\ (c # Null => s.up[c] = n /\ lo[c] = p /\ hi[c] = hi[p])
    BY <1>1, <1>2, <1>3 DEF Placed, RightBorrow
  <2>2a. c # Null => c \notin D
    BY <1>1, <1>3, <1>4, <2>2, <1>2 DEF Hung, RightBorrow
  <2>3. d \in s.nodes \cup {Null} /\ (d # Null => s.up[d] = m /\ lo[d] = lo[p] /\ hi[d] = m)
    BY <1>1, <1>2, <1>3 DEF Placed, RightBorrow
  <2>3a. d # Null => d \notin D
    BY <1>1, <1>3, <1>4, <2>3, <1>2 DEF Hung, RightBorrow
  <2>4. e \in s.nodes \cup {Null} /\ (e # Null => s.up[e] = m /\ lo[e] = m /\ hi[e] = b)
    BY <1>1, <1>2, <1>3 DEF Placed, RightBorrow
  <2>4a. e # Null => e \notin D
    BY <1>1, <1>3, <1>4, <2>4, <1>2 DEF Hung, RightBorrow
  <2> QED
    BY <1>1, <2>1, <2>1a, <2>2, <2>2a, <2>3, <2>3a, <2>4, <2>4a
<1>6. /\ s.up[p] \notin D /\ (d # Null => d # e)
  <2>1. s.up[p] \notin D
    <3>1. s.up[p] = Null \/ p \in {s.left[s.up[p]], s.right[s.up[p]]}
      BY <1>1, <1>2 DEF Hung, RightBorrow
    <3>2. \A x \in D : p # s.left[x] /\ p # s.right[x] /\ x # Null
      BY <1>1, <1>2, <1>4, <1>5 DEF Placed, RightBorrow, RightBorrow
    <3> QED
      BY <3>1, <3>2
  <2>2. d # Null => d # e
    BY <1>1, <1>3, <1>5
  <2> QED
    BY <2>1, <2>2
<1> QED
  BY <1>1, <1>3, <1>4, <1>5, <1>6 DEF RightBorrowAround

(* The rules hold again once the part is replaced.                         *)
LEMMA BorrowedRightSound ==
  ASSUME NEW s, NEW top, NEW lo, NEW hi, NEW h, s \in Trees, Labels(lo, hi, h),
         NEW p, NEW n, NEW b, NEW m, Sound(s, top, lo, hi, h, n, Null),
         RightBorrow(s, p, n, b, m),
         NEW r, BorrowedRight(s, r, p, n, b, m)
  PROVE  \E lo2, hi2, h2 : /\ Labels(lo2, hi2, h2)
                           /\ Sound(r, IF top = p THEN b ELSE top, lo2, hi2, h2, Null, Null)
                           /\ Height(h2, IF top = p THEN b ELSE top) = Height(h, top)
<1> DEFINE D == {p, n, b, m}
           E == {p, b, m}
           top2 == IF top = p THEN b ELSE top
           f == s.right[b]
           c == s.left[n]
           d == s.left[m]
           e == s.right[m]
           B == Height(h, c)
           w == IF p \in s.red THEN 0 ELSE 1
           lo2 == [lo EXCEPT ![p] = b]
           hi2 == [hi EXCEPT ![b] = hi[p]]
           h2 == [h EXCEPT ![p] = B + 1, ![b] = B + 1 + w, ![m] = B + 1]
<1>a. RightBorrowAround(s, top, lo, hi, h, p, n, b, m)
  BY RightBorrowApart
<1>1. /\ p \in Keys /\ p \in Int /\ p # Null /\ lo[p] \in Int /\ hi[p] \in Int /\ h[p] \in Nat
      /\ n \in Keys /\ n \in Int /\ n # Null /\ lo[n] \in Int /\ hi[n] \in Int /\ h[n] \in Nat
      /\ b \in Keys /\ b \in Int /\ b # Null /\ lo[b] \in Int /\ hi[b] \in Int /\ h[b] \in Nat
      /\ m \in Keys /\ m \in Int /\ m # Null /\ lo[m] \in Int /\ hi[m] \in Int /\ h[m] \in Nat
      /\ Null \notin Keys /\ s.nodes \subseteq Keys /\ Null \notin s.nodes /\ Null \notin s.red
  BY <1>a DEF RightBorrowAround
<1>3. /\ lo[p] < p /\ p < hi[p]
      /\ lo[b] = lo[p] /\ hi[b] = p /\ lo[p] < b /\ b < p /\ s.up[b] = p
      /\ lo[n] = p /\ hi[n] = hi[p] /\ s.up[n] = p
      /\ lo[m] = lo[p] /\ hi[m] = b /\ lo[p] < m /\ m < b /\ s.up[m] = b
  BY <1>a DEF RightBorrowAround
<1>4. /\ p # n /\ p # b /\ p # m /\ n # b /\ n # m /\ b # m
      /\ n # top /\ b # top /\ m # top
  BY <1>a DEF RightBorrowAround
<1>5. /\ f \in s.nodes \cup {Null}
         /\ (f # Null => f \in s.nodes \ D /\ f \in Keys /\ s.up[f] = b /\ lo[f] = b
            /\ hi[f] = p)
      /\ c \in s.nodes \cup {Null}
         /\ (c # Null => c \in s.nodes \ D /\ c \in Keys /\ s.up[c] = n /\ lo[c] = p
            /\ hi[c] = hi[p])
      /\ d \in s.nodes \cup {Null}
         /\ (d # Null => d \in s.nodes \ D /\ d \in Keys /\ s.up[d] = m /\ lo[d] = lo[p]
            /\ hi[d] = m)
      /\ e \in s.nodes \cup {Null}
         /\ (e # Null => e \in s.nodes \ D /\ e \in Keys /\ s.up[e] = m /\ lo[e] = m
            /\ hi[e] = b)
  BY <1>a DEF RightBorrowAround
<1>2. /\ Placed(s, lo, hi, n, p) /\ Hung(s, top, p) /\ Weighed(s, h, Null, p) /\ Coloured(s, p)
      /\ Placed(s, lo, hi, n, n) /\ Hung(s, top, n) /\ Weighed(s, h, Null, n) /\ Coloured(s, n)
      /\ Placed(s, lo, hi, n, b) /\ Hung(s, top, b) /\ Weighed(s, h, Null, b) /\ Coloured(s, b)
      /\ Placed(s, lo, hi, n, m) /\ Hung(s, top, m) /\ Weighed(s, h, Null, m) /\ Coloured(s, m)
  BY SoundNode DEF RightBorrow
<1>0. /\ p \in s.nodes /\ n \in s.nodes /\ b \in s.nodes /\ m \in s.nodes /\ s.left[p] = b
      /\ s.right[p] = n /\ s.left[b] = m /\ n \notin s.red /\ b \notin s.red /\ b \in s.redlink
      /\ m \in s.red
  BY DEF RightBorrow
<1>6. /\ h[p] = B + 1 + w /\ h[n] = B + 1 /\ h[b] = B + 1 /\ h[m] = B
      /\ Height(h, f) = B /\ Height(h, c) = B /\ Height(h, d) = B /\ Height(h, e) = B
      /\ B \in Nat /\ w \in Nat
  <2>1. Height(h, f) \in Nat /\ Height(h, c) \in Nat /\ Height(h, d) \in Nat
          /\ Height(h, e) \in Nat
    BY <1>1, <1>5, HeightIs
  <2>2. Height(h, p) = h[p] /\ Height(h, n) = h[n] /\ Height(h, b) = h[b] /\ Height(h, m) = h[m]
    BY <1>1 DEF Height
  <2>3. h[p] = h[b] + w /\ h[p] = h[n] + w
    BY <1>0, <1>1, <1>2, <1>4, <2>2 DEF Weighed
  <2>4. h[n] = Height(h, c) + 1
    BY <1>0, <1>1, <1>2, <1>4, <2>2 DEF Weighed, Placed
  <2>5. h[b] = h[m] + 1 /\ h[b] = Height(h, f) + 1
    BY <1>0, <1>1, <1>2, <1>4, <2>2 DEF Weighed
  <2>6. h[m] = Height(h, d) + 0 /\ h[m] = Height(h, e) + 0
    BY <1>0, <1>1, <1>2, <1>4, <2>2 DEF Weighed
  <2>7. h[p] \in Nat /\ h[n] \in Nat /\ h[b] \in Nat /\ h[m] \in Nat
    BY <1>1
  <2>7a. w \in {0, 1}
    OBVIOUS
  <2> HIDE DEF w
  <2> HIDE DEF f, c, d, e
  <2> QED
    BY <2>1, <2>3, <2>4, <2>5, <2>6, <2>7, <2>7a
<1>7. /\ n \notin s.red
      /\ (b \in s.red <=> p \in s.redlink) /\ (p \in s.red => b \notin s.red)
      /\ c \notin s.red
      /\ (c \in s.red <=> n \in s.redlink) /\ (n \in s.red => c \notin s.red)
      /\ f \notin s.red
      /\ (m \in s.red <=> b \in s.redlink) /\ (b \in s.red => m \notin s.red)
      /\ e \notin s.red
      /\ (d \in s.red <=> m \in s.redlink) /\ (m \in s.red => d \notin s.red)
  BY <1>0, <1>1, <1>2 DEF Coloured, Placed
<1>8. Labels(lo2, hi2, h2)
  BY <1>1, <1>6 DEF Labels
<1>9. /\ \A x \in Keys : (x # p => lo2[x] = lo[x]) /\ (x # b => hi2[x] = hi[x])
         /\ (x # p /\ x # b /\ x # m => h2[x] = h[x])
      /\ lo2[p] = b /\ hi2[b] = hi[p] /\ h2[p] = B + 1 /\ h2[b] = B + 1 + w /\ h2[m] = B + 1
  <2> HIDE DEF B, w
  <2> QED
    BY <1>1, <1>4 DEF Labels
<1> HIDE DEF lo2, hi2, h2, B, w
<1>10. /\ lo2[p] = b /\ hi2[p] = hi[p] /\ h2[p] = B + 1
       /\ lo2[b] = lo[p] /\ hi2[b] = hi[p] /\ h2[b] = B + 1 + w
       /\ lo2[m] = lo[p] /\ hi2[m] = b /\ h2[m] = B + 1
  BY <1>1, <1>3, <1>4, <1>6, <1>9
<1>11. /\ f # Null => lo2[f] = b /\ hi2[f] = p
       /\ c # Null => lo2[c] = p /\ hi2[c] = hi[p]
       /\ d # Null => lo2[d] = lo[p] /\ hi2[d] = m
       /\ e # Null => lo2[e] = m /\ hi2[e] = b
       /\ Height(h2, f) = B
       /\ Height(h2, c) = B
       /\ Height(h2, d) = B
       /\ Height(h2, e) = B
  <2>1. (f # Null => f # p /\ f # n /\ f # b /\ f # m)
          /\ (c # Null => c # p /\ c # n /\ c # b /\ c # m)
             /\ (d # Null => d # p /\ d # n /\ d # b /\ d # m)
                /\ (e # Null => e # p /\ e # n /\ e # b /\ e # m)
    BY <1>1, <1>5
  <2> HIDE DEF f, c, d, e
  <2>2. (f # Null => lo2[f] = lo[f] /\ hi2[f] = hi[f] /\ h2[f] = h[f])
          /\ (c # Null => lo2[c] = lo[c] /\ hi2[c] = hi[c] /\ h2[c] = h[c])
             /\ (d # Null => lo2[d] = lo[d] /\ hi2[d] = hi[d] /\ h2[d] = h[d])
                /\ (e # Null => lo2[e] = lo[e] /\ hi2[e] = hi[e] /\ h2[e] = h[e])
    BY <1>5, <1>9, <2>1
  <2> QED
    BY <1>5, <1>6, <2>2 DEF Height
<1>12. Part(s, top, D, p)
  BY <1>0, <1>3, <1>4 DEF Part
<1>13. /\ r \in Trees /\ r.nodes = s.nodes \ {n} /\ Turned(s, r, D, p, b)
       /\ p \notin r.red /\ (p \in r.redlink <=> n \in s.redlink)
          /\ (b \in r.red <=> p \in s.red)
       /\ (b \in r.redlink <=> p \in s.redlink) /\ m \notin r.red
          /\ (m \in r.redlink <=> m \in s.redlink)
       /\ r.left[p] = f /\ r.right[p] = c
       /\ r.left[b] = m /\ r.right[b] = p
       /\ r.left[m] = d /\ r.right[m] = e
       /\ r.up[b] = s.up[p] /\ r.up[p] = b /\ r.up[m] = b
       /\ f # Null => r.up[f] = p
       /\ c # Null => r.up[c] = p
       /\ d # Null => r.up[d] = m
       /\ e # Null => r.up[e] = m
  BY DEF BorrowedRight
<1>14. SameOutside(s, lo, hi, h, r, lo2, hi2, h2, D, E, p, b)
  <2> SUFFICES ASSUME NEW x \in s.nodes \ D
               PROVE  /\ lo2[x] = lo[x] /\ hi2[x] = hi[x] /\ h2[x] = h[x]
                      /\ s.up[x] \in D => r.up[x] \in E
                         /\ (x = r.left[r.up[x]] \/ x = r.right[r.up[x]])
    BY <1>13 DEF Turned, SameOutside
  <2>1. x \in Keys /\ x # Null /\ x # p /\ x # n /\ x # b /\ x # m
    BY <1>1
  <2>2. s.up[x] \in D => x \in {f, c, d, e}
    <3> SUFFICES ASSUME s.up[x] \in D PROVE x = s.left[s.up[x]] \/ x = s.right[s.up[x]]
      BY <1>0, <1>1, <2>1, <1>2 DEF Placed
    <3> QED
      BY <1>0, <1>1, SoundUp
  <2>3. (x = f => r.up[x] \in E /\ (x = r.left[r.up[x]] \/ x = r.right[r.up[x]]))
          /\ (x = c => r.up[x] \in E /\ (x = r.left[r.up[x]] \/ x = r.right[r.up[x]]))
             /\ (x = d => r.up[x] \in E /\ (x = r.left[r.up[x]] \/ x = r.right[r.up[x]]))
                /\ (x = e => r.up[x] \in E /\ (x = r.left[r.up[x]] \/ x = r.right[r.up[x]]))
    BY <2>1, <1>13
  <2> QED
    BY <1>9, <2>1, <2>2, <2>3
<1>15. SameAbove(s, top, lo, hi, h, r, lo2, hi2, h2, p, b)
  BY <1>0, <1>1, <1>6, <1>7, <1>10, <1>13 DEF SameAbove, Height
<1>16. Exchange(s, top, n, Null, r, top2, Null, Null, D, E, p, b)
  BY <1>0, <1>1, <1>4, <1>13 DEF Exchange
<1>17. SoundInside(r, lo2, hi2, h2, Null, Null, E, b)
  <2>1. (f \in r.red <=> f \in s.red) /\ (c \in r.red <=> c \in s.red)
          /\ (d \in r.red <=> d \in s.red) /\ (e \in r.red <=> e \in s.red) /\ Null \notin r.red
    <3>1. \A x \in s.nodes \ D : x \in r.red <=> x \in s.red
      BY <1>13 DEF Turned
    <3>2. Null \notin r.red
      BY <1>1, <1>13 DEF Trees
    <3> HIDE DEF f, c, d, e
    <3> QED
      BY <1>1, <1>5, <3>1, <3>2
  <2>2. Height(h2, p) = h2[p] /\ Height(h2, b) = h2[b] /\ Height(h2, m) = h2[m]
    BY <1>1 DEF Height
  <2>3. f \in r.nodes \cup {Null} /\ c \in r.nodes \cup {Null} /\ d \in r.nodes \cup {Null}
          /\ e \in r.nodes \cup {Null}
    BY <1>5, <1>13
  <2> HIDE DEF f, c, d, e, D, E
  <2>4. Placed(r, lo2, hi2, Null, p) /\ Weighed(r, h2, Null, p) /\ Coloured(r, p)
    <3>1. Placed(r, lo2, hi2, Null, p)
      BY <1>0, <1>1, <1>3, <1>4, <1>10, <1>11, <1>13, <2>3 DEF Placed
    <3>2. Weighed(r, h2, Null, p)
      <4>1. Height(h2, f) = B /\ Height(h2, c) = B /\ h2[p] = B + 1 /\ r.left[p] = f
              /\ r.right[p] = c
        BY <1>10, <1>11, <2>2, <1>13
      <4>2. p \notin r.red /\ p # Null /\ B \in Nat /\ w \in Nat
        BY <1>1, <1>4, <1>6, <1>13
      <4> QED
        BY <4>1, <4>2 DEF Weighed
    <3>3. Coloured(r, p)
      BY <1>0, <1>7, <1>13, <2>1 DEF Coloured
    <3> QED
      BY <3>1, <3>2, <3>3
  <2>5. Placed(r, lo2, hi2, Null, b) /\ Weighed(r, h2, Null, b) /\ Coloured(r, b)
    <3>1. Placed(r, lo2, hi2, Null, b)
      BY <1>0, <1>1, <1>3, <1>4, <1>10, <1>11, <1>13, <2>3 DEF Placed
    <3>2. Weighed(r, h2, Null, b)
      <4>1. Height(h2, m) = B + 1 /\ Height(h2, p) = B + 1 /\ h2[b] = B + 1 + w
              /\ r.left[b] = m /\ r.right[b] = p
        BY <1>10, <1>11, <2>2, <1>13
      <4>2. b # Null /\ B \in Nat /\ w \in Nat /\ w = (IF b \in r.red THEN 0 ELSE 1)
        BY <1>1, <1>4, <1>6, <1>13 DEF w
      <4> QED
        BY <4>1, <4>2 DEF Weighed
    <3>3. Coloured(r, b)
      BY <1>0, <1>7, <1>13, <2>1 DEF Coloured
    <3> QED
      BY <3>1, <3>2, <3>3
  <2>6. Placed(r, lo2, hi2, Null, m) /\ Weighed(r, h2, Null, m) /\ Coloured(r, m)
    <3>1. Placed(r, lo2, hi2, Null, m)
      BY <1>0, <1>1, <1>3, <1>4, <1>10, <1>11, <1>13, <2>3 DEF Placed
    <3>2. Weighed(r, h2, Null, m)
      <4>1. Height(h2, d) = B /\ Height(h2, e) = B /\ h2[m] = B + 1 /\ r.left[m] = d
              /\ r.right[m] = e
        BY <1>10, <1>11, <2>2, <1>13
      <4>2. m \notin r.red /\ m # Null /\ B \in Nat /\ w \in Nat
        BY <1>1, <1>4, <1>6, <1>13
      <4> QED
        BY <4>1, <4>2 DEF Weighed
    <3>3. Coloured(r, m)
      BY <1>0, <1>7, <1>13, <2>1 DEF Coloured
    <3> QED
      BY <3>1, <3>2, <3>3
  <2>7. \A x \in E : x = b \/ (r.up[x] \in E /\ (x = r.left[r.up[x]] \/ x = r.right[r.up[x]]))
    BY <1>13 DEF D, E
  <2> QED
    BY <2>4, <2>5, <2>6, <2>7 DEF SoundInside, D, E
<1>18. Sound(r, top2, lo2, hi2, h2, Null, Null)
  <2>1. p # top \/ (b # Null /\ b \notin r.red /\ b # Null)
    BY <1>0, <1>1, <1>4, <1>13 DEF Sound
  <2>2. r \in Trees
    BY <1>13
  <2> HIDE DEF D, top2, E
  <2> QED
    BY <1>8, <1>12, <1>14, <1>15, <1>16, <1>17, <2>1, <2>2, ReplacedSound
<1>19. Height(h2, top2) = Height(h, top)
  <2>1. top \in Keys /\ top # Null
    BY <1>0, <1>1 DEF Sound
  <2>2. top # p => h2[top] = h[top]
    BY <1>4, <1>9, <2>1
  <2>3. h2[b] = h[p]
    BY <1>1, <1>6, <1>10
  <2>4. h[top] \in Nat
    BY <2>1 DEF Labels
  <2> QED
    BY <1>1, <2>1, <2>2, <2>3, <2>4 DEF Height
<1> HIDE DEF top2, lo2, hi2, h2
<1>20. \E l2, i2, e2 : Labels(l2, i2, e2) /\ Sound(r, top2, l2, i2, e2, Null, Null)
         /\ Height(e2, top2) = Height(h, top)
  BY <1>8, <1>18, <1>19
<1> QED
  BY <1>20 DEF top2

(* The hole n is left of p, its black brother b has no red child.          *)
LeftMerge(s, p, n, b) ==
  /\ p \in s.nodes /\ n \in s.nodes /\ b \in s.nodes /\ s.left[p] = n /\ s.right[p] = b
  /\ n \notin s.red /\ b \notin s.red /\ b \notin s.redlink

(* p and b are one 3-node below n, and the hole is a level up.             *)
MergedLeft(s, r, p, n, b) ==
  /\ r \in Trees /\ r.nodes = s.nodes
  /\ Turned(s, r, {p, n, b}, p, n)
  /\ p \in r.red /\ (p \in r.redlink <=> n \in s.redlink) /\ (n \in r.red <=> p \in s.red)
  /\ (n \in r.redlink <=> p \in s.redlink) /\ b \notin r.red /\ b \in r.redlink
  /\ r.left[p] = s.left[n] /\ r.right[p] = s.left[b]
  /\ r.left[n] = b /\ r.right[n] = b
  /\ r.left[b] = p /\ r.right[b] = s.right[b]
  /\ r.up[n] = s.up[p] /\ r.up[p] = b /\ r.up[b] = n
  /\ s.left[n] # Null => r.up[s.left[n]] = p
  /\ s.left[b] # Null => r.up[s.left[b]] = p
  /\ s.right[b] # Null => r.up[s.right[b]] = b

(* The nodes that hang from the part, and the intervals of all of them.    *)
LeftMergeAround(s, top, lo, hi, h, p, n, b) ==
  LET D == {p, n, b}
      c == s.left[n]
      d == s.left[b]
      e == s.right[b]
  IN  /\ p \in Keys /\ p \in Int /\ p # Null /\ lo[p] \in Int /\ hi[p] \in Int /\ h[p] \in Nat
      /\ n \in Keys /\ n \in Int /\ n # Null /\ lo[n] \in Int /\ hi[n] \in Int /\ h[n] \in Nat
      /\ b \in Keys /\ b \in Int /\ b # Null /\ lo[b] \in Int /\ hi[b] \in Int /\ h[b] \in Nat
      /\ Null \notin Keys /\ s.nodes \subseteq Keys /\ Null \notin s.nodes /\ Null \notin s.red
      /\ lo[p] < p /\ p < hi[p]
      /\ lo[n] = lo[p] /\ hi[n] = p /\ s.up[n] = p
      /\ lo[b] = p /\ hi[b] = hi[p] /\ p < b /\ b < hi[p] /\ s.up[b] = p
      /\ p # n /\ p # b /\ n # b /\ n # top /\ b # top
      /\ c \in s.nodes \cup {Null}
         /\ (c # Null => c \in s.nodes \ D /\ c \in Keys /\ s.up[c] = n /\ lo[c] = lo[p]
            /\ hi[c] = p)
      /\ d \in s.nodes \cup {Null}
         /\ (d # Null => d \in s.nodes \ D /\ d \in Keys /\ s.up[d] = b /\ lo[d] = p
            /\ hi[d] = b)
      /\ e \in s.nodes \cup {Null}
         /\ (e # Null => e \in s.nodes \ D /\ e \in Keys /\ s.up[e] = b /\ lo[e] = b
            /\ hi[e] = hi[p])
      /\ s.up[p] \notin D /\ (d # Null => d # e)

(* They are nodes of their own.                                            *)
LEMMA LeftMergeApart ==
  ASSUME NEW s, NEW top, NEW lo, NEW hi, NEW h, s \in Trees, Labels(lo, hi, h),
         NEW p, NEW n, NEW b, Sound(s, top, lo, hi, h, n, Null), LeftMerge(s, p, n, b)
  PROVE  LeftMergeAround(s, top, lo, hi, h, p, n, b)
<1> DEFINE D == {p, n, b}
           c == s.left[n]
           d == s.left[b]
           e == s.right[b]
<1>1. /\ p \in Keys /\ p \in Int /\ p # Null /\ lo[p] \in Int /\ hi[p] \in Int /\ h[p] \in Nat
      /\ n \in Keys /\ n \in Int /\ n # Null /\ lo[n] \in Int /\ hi[n] \in Int /\ h[n] \in Nat
      /\ b \in Keys /\ b \in Int /\ b # Null /\ lo[b] \in Int /\ hi[b] \in Int /\ h[b] \in Nat
      /\ Null \notin Keys /\ s.nodes \subseteq Keys /\ Null \notin s.nodes /\ Null \notin s.red
  BY SoundNode, KeysFinite DEF Trees, LeftMerge
<1>2. /\ Placed(s, lo, hi, n, p) /\ Hung(s, top, p) /\ Weighed(s, h, Null, p) /\ Coloured(s, p)
      /\ Placed(s, lo, hi, n, n) /\ Hung(s, top, n) /\ Weighed(s, h, Null, n) /\ Coloured(s, n)
      /\ Placed(s, lo, hi, n, b) /\ Hung(s, top, b) /\ Weighed(s, h, Null, b) /\ Coloured(s, b)
  BY SoundNode DEF LeftMerge
<1>3. /\ lo[p] < p /\ p < hi[p]
      /\ lo[n] = lo[p] /\ hi[n] = p /\ s.up[n] = p
      /\ lo[b] = p /\ hi[b] = hi[p] /\ p < b /\ b < hi[p] /\ s.up[b] = p
  <2>1. lo[p] < p /\ p < hi[p]
    BY <1>1, <1>2 DEF Placed, LeftMerge
  <2>2. lo[n] = lo[p] /\ hi[n] = p /\ s.up[n] = p
    BY <1>1, <1>2, <2>1 DEF Placed, LeftMerge
  <2>3. p < b /\ b < hi[p] /\ lo[b] = p /\ hi[b] = hi[p] /\ s.up[b] = p
    BY <1>1, <1>2, <2>1, <2>2 DEF Placed, LeftMerge
  <2> QED
    BY <2>1, <2>2, <2>3
<1>4. /\ p # n /\ p # b /\ n # b /\ n # top /\ b # top
  <2>1. /\ p # n /\ p # b /\ n # b
    BY <1>1, <1>2, <1>3 DEF Placed, LeftMerge
  <2>2. n # top /\ b # top
    BY <1>1, <1>2, <1>3 DEF Hung, LeftMerge
  <2> QED
    BY <2>1, <2>2
<1>5. /\ c \in s.nodes \cup {Null}
         /\ (c # Null => c \in s.nodes \ D /\ c \in Keys /\ s.up[c] = n /\ lo[c] = lo[p]
            /\ hi[c] = p)
      /\ d \in s.nodes \cup {Null}
         /\ (d # Null => d \in s.nodes \ D /\ d \in Keys /\ s.up[d] = b /\ lo[d] = p
            /\ hi[d] = b)
      /\ e \in s.nodes \cup {Null}
         /\ (e # Null => e \in s.nodes \ D /\ e \in Keys /\ s.up[e] = b /\ lo[e] = b
            /\ hi[e] = hi[p])
  <2>1. c \in s.nodes \cup {Null} /\ (c # Null => s.up[c] = n /\ lo[c] = lo[p] /\ hi[c] = p)
    BY <1>1, <1>2, <1>3 DEF Placed, LeftMerge
  <2>1a. c # Null => c \notin D
    BY <1>1, <1>3, <1>4, <2>1, <1>2 DEF Hung, LeftMerge
  <2>2. d \in s.nodes \cup {Null} /\ (d # Null => s.up[d] = b /\ lo[d] = p /\ hi[d] = b)
    BY <1>1, <1>2, <1>3 DEF Placed, LeftMerge
  <2>2a. d # Null => d \notin D
    BY <1>1, <1>3, <1>4, <2>2, <1>2 DEF Hung, LeftMerge
  <2>3. e \in s.nodes \cup {Null} /\ (e # Null => s.up[e] = b /\ lo[e] = b /\ hi[e] = hi[p])
    BY <1>1, <1>2, <1>3 DEF Placed, LeftMerge
  <2>3a. e # Null => e \notin D
    BY <1>1, <1>3, <1>4, <2>3, <1>2 DEF Hung, LeftMerge
  <2> QED
    BY <1>1, <2>1, <2>1a, <2>2, <2>2a, <2>3, <2>3a
<1>6. /\ s.up[p] \notin D /\ (d # Null => d # e)
  <2>1. s.up[p] \notin D
    <3>1. s.up[p] = Null \/ p \in {s.left[s.up[p]], s.right[s.up[p]]}
      BY <1>1, <1>2 DEF Hung, LeftMerge
    <3>2. \A x \in D : p # s.left[x] /\ p # s.right[x] /\ x # Null
      BY <1>1, <1>2, <1>4, <1>5 DEF Placed, LeftMerge, LeftMerge
    <3> QED
      BY <3>1, <3>2
  <2>2. d # Null => d # e
    BY <1>1, <1>3, <1>5
  <2> QED
    BY <2>1, <2>2
<1> QED
  BY <1>1, <1>3, <1>4, <1>5, <1>6 DEF LeftMergeAround

(* The rules hold again once the part is replaced.                         *)
LEMMA MergedLeftSound ==
  ASSUME NEW s, NEW top, NEW lo, NEW hi, NEW h, s \in Trees, Labels(lo, hi, h),
         NEW p, NEW n, NEW b, Sound(s, top, lo, hi, h, n, Null), LeftMerge(s, p, n, b),
         NEW r, MergedLeft(s, r, p, n, b)
  PROVE  \E lo2, hi2, h2 : /\ Labels(lo2, hi2, h2)
                           /\ Sound(r, IF top = p THEN n ELSE top, lo2, hi2, h2, n, Null)
                           /\ Height(h2, IF top = p THEN n ELSE top) = Height(h, top)
<1> DEFINE D == {p, n, b}
           top2 == IF top = p THEN n ELSE top
           c == s.left[n]
           d == s.left[b]
           e == s.right[b]
           B == Height(h, c)
           w == IF p \in s.red THEN 0 ELSE 1
           lo2 == [lo EXCEPT ![b] = lo[p]]
           hi2 == [hi EXCEPT ![p] = b, ![n] = hi[p]]
           h2 == [h EXCEPT ![p] = B, ![n] = B + 1 + w]
<1>a. LeftMergeAround(s, top, lo, hi, h, p, n, b)
  BY LeftMergeApart
<1>1. /\ p \in Keys /\ p \in Int /\ p # Null /\ lo[p] \in Int /\ hi[p] \in Int /\ h[p] \in Nat
      /\ n \in Keys /\ n \in Int /\ n # Null /\ lo[n] \in Int /\ hi[n] \in Int /\ h[n] \in Nat
      /\ b \in Keys /\ b \in Int /\ b # Null /\ lo[b] \in Int /\ hi[b] \in Int /\ h[b] \in Nat
      /\ Null \notin Keys /\ s.nodes \subseteq Keys /\ Null \notin s.nodes /\ Null \notin s.red
  BY <1>a DEF LeftMergeAround
<1>3. /\ lo[p] < p /\ p < hi[p]
      /\ lo[n] = lo[p] /\ hi[n] = p /\ s.up[n] = p
      /\ lo[b] = p /\ hi[b] = hi[p] /\ p < b /\ b < hi[p] /\ s.up[b] = p
  BY <1>a DEF LeftMergeAround
<1>4. /\ p # n /\ p # b /\ n # b /\ n # top /\ b # top
  BY <1>a DEF LeftMergeAround
<1>5. /\ c \in s.nodes \cup {Null}
         /\ (c # Null => c \in s.nodes \ D /\ c \in Keys /\ s.up[c] = n /\ lo[c] = lo[p]
            /\ hi[c] = p)
      /\ d \in s.nodes \cup {Null}
         /\ (d # Null => d \in s.nodes \ D /\ d \in Keys /\ s.up[d] = b /\ lo[d] = p
            /\ hi[d] = b)
      /\ e \in s.nodes \cup {Null}
         /\ (e # Null => e \in s.nodes \ D /\ e \in Keys /\ s.up[e] = b /\ lo[e] = b
            /\ hi[e] = hi[p])
  BY <1>a DEF LeftMergeAround
<1>2. /\ Placed(s, lo, hi, n, p) /\ Hung(s, top, p) /\ Weighed(s, h, Null, p) /\ Coloured(s, p)
      /\ Placed(s, lo, hi, n, n) /\ Hung(s, top, n) /\ Weighed(s, h, Null, n) /\ Coloured(s, n)
      /\ Placed(s, lo, hi, n, b) /\ Hung(s, top, b) /\ Weighed(s, h, Null, b) /\ Coloured(s, b)
  BY SoundNode DEF LeftMerge
<1>0. /\ p \in s.nodes /\ n \in s.nodes /\ b \in s.nodes /\ s.left[p] = n /\ s.right[p] = b
      /\ n \notin s.red /\ b \notin s.red /\ b \notin s.redlink
  BY DEF LeftMerge
<1>6. /\ h[p] = B + 1 + w /\ h[n] = B + 1 /\ h[b] = B + 1 /\ Height(h, c) = B
      /\ Height(h, d) = B /\ Height(h, e) = B /\ B \in Nat /\ w \in Nat
  <2>1. Height(h, c) \in Nat /\ Height(h, d) \in Nat /\ Height(h, e) \in Nat
    BY <1>1, <1>5, HeightIs
  <2>2. Height(h, p) = h[p] /\ Height(h, n) = h[n] /\ Height(h, b) = h[b]
    BY <1>1 DEF Height
  <2>3. h[p] = h[n] + w /\ h[p] = h[b] + w
    BY <1>0, <1>1, <1>2, <1>4, <2>2 DEF Weighed
  <2>4. h[n] = Height(h, c) + 1
    BY <1>0, <1>1, <1>2, <1>4, <2>2 DEF Weighed, Placed
  <2>5. h[b] = Height(h, d) + 1 /\ h[b] = Height(h, e) + 1
    BY <1>0, <1>1, <1>2, <1>4, <2>2 DEF Weighed
  <2>6. h[p] \in Nat /\ h[n] \in Nat /\ h[b] \in Nat
    BY <1>1
  <2>6a. w \in {0, 1}
    OBVIOUS
  <2> HIDE DEF w
  <2> HIDE DEF c, d, e
  <2> QED
    BY <2>1, <2>3, <2>4, <2>5, <2>6, <2>6a
<1>7. /\ b \notin s.red
      /\ (n \in s.red <=> p \in s.redlink) /\ (p \in s.red => n \notin s.red)
      /\ c \notin s.red
      /\ (c \in s.red <=> n \in s.redlink) /\ (n \in s.red => c \notin s.red)
      /\ e \notin s.red
      /\ (d \in s.red <=> b \in s.redlink) /\ (b \in s.red => d \notin s.red)
  BY <1>0, <1>1, <1>2 DEF Coloured, Placed
<1>8. Labels(lo2, hi2, h2)
  BY <1>1, <1>6 DEF Labels
<1>9. /\ \A x \in Keys : (x # b => lo2[x] = lo[x]) /\ (x # p /\ x # n => hi2[x] = hi[x])
         /\ (x # p /\ x # n => h2[x] = h[x])
      /\ lo2[b] = lo[p] /\ hi2[p] = b /\ hi2[n] = hi[p] /\ h2[p] = B /\ h2[n] = B + 1 + w
  <2> HIDE DEF B, w
  <2> QED
    BY <1>1, <1>4 DEF Labels
<1> HIDE DEF lo2, hi2, h2, B, w
<1>10. /\ lo2[p] = lo[p] /\ hi2[p] = b /\ h2[p] = B
       /\ lo2[n] = lo[p] /\ hi2[n] = hi[p] /\ h2[n] = B + 1 + w
       /\ lo2[b] = lo[p] /\ hi2[b] = hi[p] /\ h2[b] = B + 1
  BY <1>1, <1>3, <1>4, <1>6, <1>9
<1>11. /\ c # Null => lo2[c] = lo[p] /\ hi2[c] = p
       /\ d # Null => lo2[d] = p /\ hi2[d] = b
       /\ e # Null => lo2[e] = b /\ hi2[e] = hi[p]
       /\ Height(h2, c) = B
       /\ Height(h2, d) = B
       /\ Height(h2, e) = B
  <2>1. (c # Null => c # p /\ c # n /\ c # b) /\ (d # Null => d # p /\ d # n /\ d # b)
          /\ (e # Null => e # p /\ e # n /\ e # b)
    BY <1>1, <1>5
  <2> HIDE DEF c, d, e
  <2>2. (c # Null => lo2[c] = lo[c] /\ hi2[c] = hi[c] /\ h2[c] = h[c])
          /\ (d # Null => lo2[d] = lo[d] /\ hi2[d] = hi[d] /\ h2[d] = h[d])
             /\ (e # Null => lo2[e] = lo[e] /\ hi2[e] = hi[e] /\ h2[e] = h[e])
    BY <1>5, <1>9, <2>1
  <2> QED
    BY <1>5, <1>6, <2>2 DEF Height
<1>12. Part(s, top, D, p)
  BY <1>0, <1>3, <1>4 DEF Part
<1>13. /\ r \in Trees /\ r.nodes = s.nodes /\ Turned(s, r, D, p, n)
       /\ p \in r.red /\ (p \in r.redlink <=> n \in s.redlink) /\ (n \in r.red <=> p \in s.red)
       /\ (n \in r.redlink <=> p \in s.redlink) /\ b \notin r.red /\ b \in r.redlink
       /\ r.left[p] = c /\ r.right[p] = d
       /\ r.left[n] = b /\ r.right[n] = b
       /\ r.left[b] = p /\ r.right[b] = e
       /\ r.up[n] = s.up[p] /\ r.up[p] = b /\ r.up[b] = n
       /\ c # Null => r.up[c] = p
       /\ d # Null => r.up[d] = p
       /\ e # Null => r.up[e] = b
  BY DEF MergedLeft
<1>14. SameOutside(s, lo, hi, h, r, lo2, hi2, h2, D, D, p, n)
  <2> SUFFICES ASSUME NEW x \in s.nodes \ D
               PROVE  /\ lo2[x] = lo[x] /\ hi2[x] = hi[x] /\ h2[x] = h[x]
                      /\ s.up[x] \in D => r.up[x] \in D
                         /\ (x = r.left[r.up[x]] \/ x = r.right[r.up[x]])
    BY <1>13 DEF Turned, SameOutside
  <2>1. x \in Keys /\ x # Null /\ x # p /\ x # n /\ x # b
    BY <1>1
  <2>2. s.up[x] \in D => x \in {c, d, e}
    <3> SUFFICES ASSUME s.up[x] \in D PROVE x = s.left[s.up[x]] \/ x = s.right[s.up[x]]
      BY <1>0, <1>1, <2>1, <1>2 DEF Placed
    <3> QED
      BY <1>0, <1>1, SoundUp
  <2>3. (x = c => r.up[x] \in D /\ (x = r.left[r.up[x]] \/ x = r.right[r.up[x]]))
          /\ (x = d => r.up[x] \in D /\ (x = r.left[r.up[x]] \/ x = r.right[r.up[x]]))
             /\ (x = e => r.up[x] \in D /\ (x = r.left[r.up[x]] \/ x = r.right[r.up[x]]))
    BY <2>1, <1>13
  <2> QED
    BY <1>9, <2>1, <2>2, <2>3
<1>15. SameAbove(s, top, lo, hi, h, r, lo2, hi2, h2, p, n)
  BY <1>0, <1>1, <1>6, <1>7, <1>10, <1>13 DEF SameAbove, Height
<1>16. Exchange(s, top, n, Null, r, top2, n, Null, D, D, p, n)
  BY <1>0, <1>1, <1>4, <1>13 DEF Exchange
<1>17. SoundInside(r, lo2, hi2, h2, n, Null, D, n)
  <2>1. (c \in r.red <=> c \in s.red) /\ (d \in r.red <=> d \in s.red)
          /\ (e \in r.red <=> e \in s.red) /\ Null \notin r.red
    <3>1. \A x \in s.nodes \ D : x \in r.red <=> x \in s.red
      BY <1>13 DEF Turned
    <3>2. Null \notin r.red
      BY <1>1, <1>13 DEF Trees
    <3> HIDE DEF c, d, e
    <3> QED
      BY <1>1, <1>5, <3>1, <3>2
  <2>2. Height(h2, p) = h2[p] /\ Height(h2, n) = h2[n] /\ Height(h2, b) = h2[b]
    BY <1>1 DEF Height
  <2>3. c \in r.nodes \cup {Null} /\ d \in r.nodes \cup {Null} /\ e \in r.nodes \cup {Null}
    BY <1>5, <1>13
  <2> HIDE DEF c, d, e, D
  <2>4. Placed(r, lo2, hi2, n, p) /\ Weighed(r, h2, Null, p) /\ Coloured(r, p)
    <3>1. Placed(r, lo2, hi2, n, p)
      BY <1>0, <1>1, <1>3, <1>4, <1>10, <1>11, <1>13, <2>3 DEF Placed
    <3>2. Weighed(r, h2, Null, p)
      <4>1. Height(h2, c) = B /\ Height(h2, d) = B /\ h2[p] = B /\ r.left[p] = c
              /\ r.right[p] = d
        BY <1>10, <1>11, <2>2, <1>13
      <4>2. p \in r.red /\ B \in Nat /\ w \in Nat
        BY <1>6, <1>13
      <4> QED
        BY <4>1, <4>2 DEF Weighed
    <3>3. Coloured(r, p)
      BY <1>0, <1>7, <1>13, <2>1 DEF Coloured
    <3> QED
      BY <3>1, <3>2, <3>3
  <2>5. Placed(r, lo2, hi2, n, n) /\ Weighed(r, h2, Null, n) /\ Coloured(r, n)
    <3>1. Placed(r, lo2, hi2, n, n)
      BY <1>0, <1>1, <1>3, <1>4, <1>10, <1>11, <1>13, <2>3 DEF Placed
    <3>2. Weighed(r, h2, Null, n)
      <4>1. Height(h2, b) = B + 1 /\ h2[n] = B + 1 + w /\ r.left[n] = b /\ r.right[n] = b
        BY <1>10, <1>11, <2>2, <1>13
      <4>2. n # Null /\ B \in Nat /\ w \in Nat /\ w = (IF n \in r.red THEN 0 ELSE 1)
        BY <1>1, <1>4, <1>6, <1>13 DEF w
      <4> QED
        BY <4>1, <4>2 DEF Weighed
    <3>3. Coloured(r, n)
      BY <1>0, <1>7, <1>13, <2>1 DEF Coloured
    <3> QED
      BY <3>1, <3>2, <3>3
  <2>6. Placed(r, lo2, hi2, n, b) /\ Weighed(r, h2, Null, b) /\ Coloured(r, b)
    <3>1. Placed(r, lo2, hi2, n, b)
      BY <1>0, <1>1, <1>3, <1>4, <1>10, <1>11, <1>13, <2>3 DEF Placed
    <3>2. Weighed(r, h2, Null, b)
      <4>1. Height(h2, p) = B /\ Height(h2, e) = B /\ h2[b] = B + 1 /\ r.left[b] = p
              /\ r.right[b] = e
        BY <1>10, <1>11, <2>2, <1>13
      <4>2. b \notin r.red /\ b # Null /\ B \in Nat /\ w \in Nat
        BY <1>1, <1>4, <1>6, <1>13
      <4> QED
        BY <4>1, <4>2 DEF Weighed
    <3>3. Coloured(r, b)
      BY <1>0, <1>7, <1>13, <2>1 DEF Coloured
    <3> QED
      BY <3>1, <3>2, <3>3
  <2>7. \A x \in D : x = n \/ (r.up[x] \in D /\ (x = r.left[r.up[x]] \/ x = r.right[r.up[x]]))
    BY <1>13 DEF D
  <2> QED
    BY <2>4, <2>5, <2>6, <2>7 DEF SoundInside, D
<1>18. Sound(r, top2, lo2, hi2, h2, n, Null)
  <2>1. p # top \/ (n # Null /\ n \notin r.red /\ n # Null)
    BY <1>0, <1>1, <1>4, <1>13 DEF Sound
  <2>2. r \in Trees
    BY <1>13
  <2> HIDE DEF D, top2
  <2> QED
    BY <1>8, <1>12, <1>14, <1>15, <1>16, <1>17, <2>1, <2>2, ReplacedSound
<1>19. Height(h2, top2) = Height(h, top)
  <2>1. top \in Keys /\ top # Null
    BY <1>0, <1>1 DEF Sound
  <2>2. top # p => h2[top] = h[top]
    BY <1>4, <1>9, <2>1
  <2>3. h2[n] = h[p]
    BY <1>1, <1>6, <1>10
  <2>4. h[top] \in Nat
    BY <2>1 DEF Labels
  <2> QED
    BY <1>1, <2>1, <2>2, <2>3, <2>4 DEF Height
<1> HIDE DEF top2, lo2, hi2, h2
<1>20. \E l2, i2, e2 : Labels(l2, i2, e2) /\ Sound(r, top2, l2, i2, e2, n, Null)
         /\ Height(e2, top2) = Height(h, top)
  BY <1>8, <1>18, <1>19
<1> QED
  BY <1>20 DEF top2

(* The hole n is right of p, its black brother b has no red child.         *)
RightMerge(s, p, n, b) ==
  /\ p \in s.nodes /\ n \in s.nodes /\ b \in s.nodes /\ s.left[p] = b /\ s.right[p] = n
  /\ n \notin s.red /\ b \notin s.red /\ b \notin s.redlink

(* b and p are one 3-node below n, and the hole is a level up.             *)
MergedRight(s, r, p, n, b) ==
  /\ r \in Trees /\ r.nodes = s.nodes
  /\ Turned(s, r, {p, n, b}, p, n)
  /\ p \notin r.red /\ p \in r.redlink /\ (n \in r.red <=> p \in s.red)
  /\ (n \in r.redlink <=> p \in s.redlink) /\ b \in r.red
     /\ (b \in r.redlink <=> b \in s.redlink)
  /\ r.left[p] = b /\ r.right[p] = s.left[n]
  /\ r.left[n] = p /\ r.right[n] = p
  /\ r.left[b] = s.left[b] /\ r.right[b] = s.right[b]
  /\ r.up[n] = s.up[p] /\ r.up[p] = n /\ r.up[b] = p
  /\ s.left[b] # Null => r.up[s.left[b]] = b
  /\ s.right[b] # Null => r.up[s.right[b]] = b
  /\ s.left[n] # Null => r.up[s.left[n]] = p

(* The nodes that hang from the part, and the intervals of all of them.    *)
RightMergeAround(s, top, lo, hi, h, p, n, b) ==
  LET D == {p, n, b}
      d == s.left[b]
      e == s.right[b]
      c == s.left[n]
  IN  /\ p \in Keys /\ p \in Int /\ p # Null /\ lo[p] \in Int /\ hi[p] \in Int /\ h[p] \in Nat
      /\ n \in Keys /\ n \in Int /\ n # Null /\ lo[n] \in Int /\ hi[n] \in Int /\ h[n] \in Nat
      /\ b \in Keys /\ b \in Int /\ b # Null /\ lo[b] \in Int /\ hi[b] \in Int /\ h[b] \in Nat
      /\ Null \notin Keys /\ s.nodes \subseteq Keys /\ Null \notin s.nodes /\ Null \notin s.red
      /\ lo[p] < p /\ p < hi[p]
      /\ lo[b] = lo[p] /\ hi[b] = p /\ lo[p] < b /\ b < p /\ s.up[b] = p
      /\ lo[n] = p /\ hi[n] = hi[p] /\ s.up[n] = p
      /\ p # n /\ p # b /\ n # b /\ n # top /\ b # top
      /\ d \in s.nodes \cup {Null}
         /\ (d # Null => d \in s.nodes \ D /\ d \in Keys /\ s.up[d] = b /\ lo[d] = lo[p]
            /\ hi[d] = b)
      /\ e \in s.nodes \cup {Null}
         /\ (e # Null => e \in s.nodes \ D /\ e \in Keys /\ s.up[e] = b /\ lo[e] = b
            /\ hi[e] = p)
      /\ c \in s.nodes \cup {Null}
         /\ (c # Null => c \in s.nodes \ D /\ c \in Keys /\ s.up[c] = n /\ lo[c] = p
            /\ hi[c] = hi[p])
      /\ s.up[p] \notin D /\ (d # Null => d # e)

(* They are nodes of their own.                                            *)
LEMMA RightMergeApart ==
  ASSUME NEW s, NEW top, NEW lo, NEW hi, NEW h, s \in Trees, Labels(lo, hi, h),
         NEW p, NEW n, NEW b, Sound(s, top, lo, hi, h, n, Null), RightMerge(s, p, n, b)
  PROVE  RightMergeAround(s, top, lo, hi, h, p, n, b)
<1> DEFINE D == {p, n, b}
           d == s.left[b]
           e == s.right[b]
           c == s.left[n]
<1>1. /\ p \in Keys /\ p \in Int /\ p # Null /\ lo[p] \in Int /\ hi[p] \in Int /\ h[p] \in Nat
      /\ n \in Keys /\ n \in Int /\ n # Null /\ lo[n] \in Int /\ hi[n] \in Int /\ h[n] \in Nat
      /\ b \in Keys /\ b \in Int /\ b # Null /\ lo[b] \in Int /\ hi[b] \in Int /\ h[b] \in Nat
      /\ Null \notin Keys /\ s.nodes \subseteq Keys /\ Null \notin s.nodes /\ Null \notin s.red
  BY SoundNode, KeysFinite DEF Trees, RightMerge
<1>2. /\ Placed(s, lo, hi, n, p) /\ Hung(s, top, p) /\ Weighed(s, h, Null, p) /\ Coloured(s, p)
      /\ Placed(s, lo, hi, n, n) /\ Hung(s, top, n) /\ Weighed(s, h, Null, n) /\ Coloured(s, n)
      /\ Placed(s, lo, hi, n, b) /\ Hung(s, top, b) /\ Weighed(s, h, Null, b) /\ Coloured(s, b)
  BY SoundNode DEF RightMerge
<1>3. /\ lo[p] < p /\ p < hi[p]
      /\ lo[b] = lo[p] /\ hi[b] = p /\ lo[p] < b /\ b < p /\ s.up[b] = p
      /\ lo[n] = p /\ hi[n] = hi[p] /\ s.up[n] = p
  <2>1. lo[p] < p /\ p < hi[p]
    BY <1>1, <1>2 DEF Placed, RightMerge
  <2>2. lo[p] < b /\ b < p /\ lo[b] = lo[p] /\ hi[b] = p /\ s.up[b] = p
    BY <1>1, <1>2, <2>1 DEF Placed, RightMerge
  <2>3. lo[n] = p /\ hi[n] = hi[p] /\ s.up[n] = p
    BY <1>1, <1>2, <2>1, <2>2 DEF Placed, RightMerge
  <2> QED
    BY <2>1, <2>2, <2>3
<1>4. /\ p # n /\ p # b /\ n # b /\ n # top /\ b # top
  <2>1. /\ p # n /\ p # b /\ n # b
    BY <1>1, <1>2, <1>3 DEF Placed, RightMerge
  <2>2. n # top /\ b # top
    BY <1>1, <1>2, <1>3 DEF Hung, RightMerge
  <2> QED
    BY <2>1, <2>2
<1>5. /\ d \in s.nodes \cup {Null}
         /\ (d # Null => d \in s.nodes \ D /\ d \in Keys /\ s.up[d] = b /\ lo[d] = lo[p]
            /\ hi[d] = b)
      /\ e \in s.nodes \cup {Null}
         /\ (e # Null => e \in s.nodes \ D /\ e \in Keys /\ s.up[e] = b /\ lo[e] = b
            /\ hi[e] = p)
      /\ c \in s.nodes \cup {Null}
         /\ (c # Null => c \in s.nodes \ D /\ c \in Keys /\ s.up[c] = n /\ lo[c] = p
            /\ hi[c] = hi[p])
  <2>1. d \in s.nodes \cup {Null} /\ (d # Null => s.up[d] = b /\ lo[d] = lo[p] /\ hi[d] = b)
    BY <1>1, <1>2, <1>3 DEF Placed, RightMerge
  <2>1a. d # Null => d \notin D
    BY <1>1, <1>3, <1>4, <2>1, <1>2 DEF Hung, RightMerge
  <2>2. e \in s.nodes \cup {Null} /\ (e # Null => s.up[e] = b /\ lo[e] = b /\ hi[e] = p)
    BY <1>1, <1>2, <1>3 DEF Placed, RightMerge
  <2>2a. e # Null => e \notin D
    BY <1>1, <1>3, <1>4, <2>2, <1>2 DEF Hung, RightMerge
  <2>3. c \in s.nodes \cup {Null} /\ (c # Null => s.up[c] = n /\ lo[c] = p /\ hi[c] = hi[p])
    BY <1>1, <1>2, <1>3 DEF Placed, RightMerge
  <2>3a. c # Null => c \notin D
    BY <1>1, <1>3, <1>4, <2>3, <1>2 DEF Hung, RightMerge
  <2> QED
    BY <1>1, <2>1, <2>1a, <2>2, <2>2a, <2>3, <2>3a
<1>6. /\ s.up[p] \notin D /\ (d # Null => d # e)
  <2>1. s.up[p] \notin D
    <3>1. s.up[p] = Null \/ p \in {s.left[s.up[p]], s.right[s.up[p]]}
      BY <1>1, <1>2 DEF Hung, RightMerge
    <3>2. \A x \in D : p # s.left[x] /\ p # s.right[x] /\ x # Null
      BY <1>1, <1>2, <1>4, <1>5 DEF Placed, RightMerge, RightMerge
    <3> QED
      BY <3>1, <3>2
  <2>2. d # Null => d # e
    BY <1>1, <1>3, <1>5
  <2> QED
    BY <2>1, <2>2
<1> QED
  BY <1>1, <1>3, <1>4, <1>5, <1>6 DEF RightMergeAround

(* The rules hold again once the part is replaced.                         *)
LEMMA MergedRightSound ==
  ASSUME NEW s, NEW top, NEW lo, NEW hi, NEW h, s \in Trees, Labels(lo, hi, h),
         NEW p, NEW n, NEW b, Sound(s, top, lo, hi, h, n, Null), RightMerge(s, p, n, b),
         NEW r, MergedRight(s, r, p, n, b)
  PROVE  \E lo2, hi2, h2 : /\ Labels(lo2, hi2, h2)
                           /\ Sound(r, IF top = p THEN n ELSE top, lo2, hi2, h2, n, Null)
                           /\ Height(h2, IF top = p THEN n ELSE top) = Height(h, top)
<1> DEFINE D == {p, n, b}
           top2 == IF top = p THEN n ELSE top
           d == s.left[b]
           e == s.right[b]
           c == s.left[n]
           B == Height(h, c)
           w == IF p \in s.red THEN 0 ELSE 1
           lo2 == [lo EXCEPT ![n] = lo[p]]
           hi2 == hi
           h2 == [h EXCEPT ![p] = B + 1, ![n] = B + 1 + w, ![b] = B]
<1>a. RightMergeAround(s, top, lo, hi, h, p, n, b)
  BY RightMergeApart
<1>1. /\ p \in Keys /\ p \in Int /\ p # Null /\ lo[p] \in Int /\ hi[p] \in Int /\ h[p] \in Nat
      /\ n \in Keys /\ n \in Int /\ n # Null /\ lo[n] \in Int /\ hi[n] \in Int /\ h[n] \in Nat
      /\ b \in Keys /\ b \in Int /\ b # Null /\ lo[b] \in Int /\ hi[b] \in Int /\ h[b] \in Nat
      /\ Null \notin Keys /\ s.nodes \subseteq Keys /\ Null \notin s.nodes /\ Null \notin s.red
  BY <1>a DEF RightMergeAround
<1>3. /\ lo[p] < p /\ p < hi[p]
      /\ lo[b] = lo[p] /\ hi[b] = p /\ lo[p] < b /\ b < p /\ s.up[b] = p
      /\ lo[n] = p /\ hi[n] = hi[p] /\ s.up[n] = p
  BY <1>a DEF RightMergeAround
<1>4. /\ p # n /\ p # b /\ n # b /\ n # top /\ b # top
  BY <1>a DEF RightMergeAround
<1>5. /\ d \in s.nodes \cup {Null}
         /\ (d # Null => d \in s.nodes \ D /\ d \in Keys /\ s.up[d] = b /\ lo[d] = lo[p]
            /\ hi[d] = b)
      /\ e \in s.nodes \cup {Null}
         /\ (e # Null => e \in s.nodes \ D /\ e \in Keys /\ s.up[e] = b /\ lo[e] = b
            /\ hi[e] = p)
      /\ c \in s.nodes \cup {Null}
         /\ (c # Null => c \in s.nodes \ D /\ c \in Keys /\ s.up[c] = n /\ lo[c] = p
            /\ hi[c] = hi[p])
  BY <1>a DEF RightMergeAround
<1>2. /\ Placed(s, lo, hi, n, p) /\ Hung(s, top, p) /\ Weighed(s, h, Null, p) /\ Coloured(s, p)
      /\ Placed(s, lo, hi, n, n) /\ Hung(s, top, n) /\ Weighed(s, h, Null, n) /\ Coloured(s, n)
      /\ Placed(s, lo, hi, n, b) /\ Hung(s, top, b) /\ Weighed(s, h, Null, b) /\ Coloured(s, b)
  BY SoundNode DEF RightMerge
<1>0. /\ p \in s.nodes /\ n \in s.nodes /\ b \in s.nodes /\ s.left[p] = b /\ s.right[p] = n
      /\ n \notin s.red /\ b \notin s.red /\ b \notin s.redlink
  BY DEF RightMerge
<1>6. /\ h[p] = B + 1 + w /\ h[n] = B + 1 /\ h[b] = B + 1 /\ Height(h, d) = B
      /\ Height(h, e) = B /\ Height(h, c) = B /\ B \in Nat /\ w \in Nat
  <2>1. Height(h, d) \in Nat /\ Height(h, e) \in Nat /\ Height(h, c) \in Nat
    BY <1>1, <1>5, HeightIs
  <2>2. Height(h, p) = h[p] /\ Height(h, n) = h[n] /\ Height(h, b) = h[b]
    BY <1>1 DEF Height
  <2>3. h[p] = h[b] + w /\ h[p] = h[n] + w
    BY <1>0, <1>1, <1>2, <1>4, <2>2 DEF Weighed
  <2>4. h[n] = Height(h, c) + 1
    BY <1>0, <1>1, <1>2, <1>4, <2>2 DEF Weighed, Placed
  <2>5. h[b] = Height(h, d) + 1 /\ h[b] = Height(h, e) + 1
    BY <1>0, <1>1, <1>2, <1>4, <2>2 DEF Weighed
  <2>6. h[p] \in Nat /\ h[n] \in Nat /\ h[b] \in Nat
    BY <1>1
  <2>6a. w \in {0, 1}
    OBVIOUS
  <2> HIDE DEF w
  <2> HIDE DEF d, e, c
  <2> QED
    BY <2>1, <2>3, <2>4, <2>5, <2>6, <2>6a
<1>7. /\ n \notin s.red
      /\ (b \in s.red <=> p \in s.redlink) /\ (p \in s.red => b \notin s.red)
      /\ c \notin s.red
      /\ (c \in s.red <=> n \in s.redlink) /\ (n \in s.red => c \notin s.red)
      /\ e \notin s.red
      /\ (d \in s.red <=> b \in s.redlink) /\ (b \in s.red => d \notin s.red)
  BY <1>0, <1>1, <1>2 DEF Coloured, Placed
<1>8. Labels(lo2, hi2, h2)
  BY <1>1, <1>6 DEF Labels
<1>9. /\ \A x \in Keys : (x # n => lo2[x] = lo[x]) /\ hi2[x] = hi[x]
         /\ (x # p /\ x # n /\ x # b => h2[x] = h[x])
      /\ lo2[n] = lo[p] /\ h2[p] = B + 1 /\ h2[n] = B + 1 + w /\ h2[b] = B
  <2> HIDE DEF B, w
  <2> QED
    BY <1>1, <1>4 DEF Labels
<1> HIDE DEF lo2, hi2, h2, B, w
<1>10. /\ lo2[p] = lo[p] /\ hi2[p] = hi[p] /\ h2[p] = B + 1
       /\ lo2[n] = lo[p] /\ hi2[n] = hi[p] /\ h2[n] = B + 1 + w
       /\ lo2[b] = lo[p] /\ hi2[b] = p /\ h2[b] = B
  BY <1>1, <1>3, <1>4, <1>6, <1>9
<1>11. /\ d # Null => lo2[d] = lo[p] /\ hi2[d] = b
       /\ e # Null => lo2[e] = b /\ hi2[e] = p
       /\ c # Null => lo2[c] = p /\ hi2[c] = hi[p]
       /\ Height(h2, d) = B
       /\ Height(h2, e) = B
       /\ Height(h2, c) = B
  <2>1. (d # Null => d # p /\ d # n /\ d # b) /\ (e # Null => e # p /\ e # n /\ e # b)
          /\ (c # Null => c # p /\ c # n /\ c # b)
    BY <1>1, <1>5
  <2> HIDE DEF d, e, c
  <2>2. (d # Null => lo2[d] = lo[d] /\ hi2[d] = hi[d] /\ h2[d] = h[d])
          /\ (e # Null => lo2[e] = lo[e] /\ hi2[e] = hi[e] /\ h2[e] = h[e])
             /\ (c # Null => lo2[c] = lo[c] /\ hi2[c] = hi[c] /\ h2[c] = h[c])
    BY <1>5, <1>9, <2>1
  <2> QED
    BY <1>5, <1>6, <2>2 DEF Height
<1>12. Part(s, top, D, p)
  BY <1>0, <1>3, <1>4 DEF Part
<1>13. /\ r \in Trees /\ r.nodes = s.nodes /\ Turned(s, r, D, p, n)
       /\ p \notin r.red /\ p \in r.redlink /\ (n \in r.red <=> p \in s.red)
       /\ (n \in r.redlink <=> p \in s.redlink) /\ b \in r.red
          /\ (b \in r.redlink <=> b \in s.redlink)
       /\ r.left[p] = b /\ r.right[p] = c
       /\ r.left[n] = p /\ r.right[n] = p
       /\ r.left[b] = d /\ r.right[b] = e
       /\ r.up[n] = s.up[p] /\ r.up[p] = n /\ r.up[b] = p
       /\ d # Null => r.up[d] = b
       /\ e # Null => r.up[e] = b
       /\ c # Null => r.up[c] = p
  BY DEF MergedRight
<1>14. SameOutside(s, lo, hi, h, r, lo2, hi2, h2, D, D, p, n)
  <2> SUFFICES ASSUME NEW x \in s.nodes \ D
               PROVE  /\ lo2[x] = lo[x] /\ hi2[x] = hi[x] /\ h2[x] = h[x]
                      /\ s.up[x] \in D => r.up[x] \in D
                         /\ (x = r.left[r.up[x]] \/ x = r.right[r.up[x]])
    BY <1>13 DEF Turned, SameOutside
  <2>1. x \in Keys /\ x # Null /\ x # p /\ x # n /\ x # b
    BY <1>1
  <2>2. s.up[x] \in D => x \in {d, e, c}
    <3> SUFFICES ASSUME s.up[x] \in D PROVE x = s.left[s.up[x]] \/ x = s.right[s.up[x]]
      BY <1>0, <1>1, <2>1, <1>2 DEF Placed
    <3> QED
      BY <1>0, <1>1, SoundUp
  <2>3. (x = d => r.up[x] \in D /\ (x = r.left[r.up[x]] \/ x = r.right[r.up[x]]))
          /\ (x = e => r.up[x] \in D /\ (x = r.left[r.up[x]] \/ x = r.right[r.up[x]]))
             /\ (x = c => r.up[x] \in D /\ (x = r.left[r.up[x]] \/ x = r.right[r.up[x]]))
    BY <2>1, <1>13
  <2> QED
    BY <1>9, <2>1, <2>2, <2>3
<1>15. SameAbove(s, top, lo, hi, h, r, lo2, hi2, h2, p, n)
  BY <1>0, <1>1, <1>6, <1>7, <1>10, <1>13 DEF SameAbove, Height
<1>16. Exchange(s, top, n, Null, r, top2, n, Null, D, D, p, n)
  BY <1>0, <1>1, <1>4, <1>13 DEF Exchange
<1>17. SoundInside(r, lo2, hi2, h2, n, Null, D, n)
  <2>1. (d \in r.red <=> d \in s.red) /\ (e \in r.red <=> e \in s.red)
          /\ (c \in r.red <=> c \in s.red) /\ Null \notin r.red
    <3>1. \A x \in s.nodes \ D : x \in r.red <=> x \in s.red
      BY <1>13 DEF Turned
    <3>2. Null \notin r.red
      BY <1>1, <1>13 DEF Trees
    <3> HIDE DEF d, e, c
    <3> QED
      BY <1>1, <1>5, <3>1, <3>2
  <2>2. Height(h2, p) = h2[p] /\ Height(h2, n) = h2[n] /\ Height(h2, b) = h2[b]
    BY <1>1 DEF Height
  <2>3. d \in r.nodes \cup {Null} /\ e \in r.nodes \cup {Null} /\ c \in r.nodes \cup {Null}
    BY <1>5, <1>13
  <2> HIDE DEF d, e, c, D
  <2>4. Placed(r, lo2, hi2, n, p) /\ Weighed(r, h2, Null, p) /\ Coloured(r, p)
    <3>1. Placed(r, lo2, hi2, n, p)
      BY <1>0, <1>1, <1>3, <1>4, <1>10, <1>11, <1>13, <2>3 DEF Placed
    <3>2. Weighed(r, h2, Null, p)
      <4>1. Height(h2, b) = B /\ Height(h2, c) = B /\ h2[p] = B + 1 /\ r.left[p] = b
              /\ r.right[p] = c
        BY <1>10, <1>11, <2>2, <1>13
      <4>2. p \notin r.red /\ p # Null /\ B \in Nat /\ w \in Nat
        BY <1>1, <1>4, <1>6, <1>13
      <4> QED
        BY <4>1, <4>2 DEF Weighed
    <3>3. Coloured(r, p)
      BY <1>0, <1>7, <1>13, <2>1 DEF Coloured
    <3> QED
      BY <3>1, <3>2, <3>3
  <2>5. Placed(r, lo2, hi2, n, n) /\ Weighed(r, h2, Null, n) /\ Coloured(r, n)
    <3>1. Placed(r, lo2, hi2, n, n)
      BY <1>0, <1>1, <1>3, <1>4, <1>10, <1>11, <1>13, <2>3 DEF Placed
    <3>2. Weighed(r, h2, Null, n)
      <4>1. Height(h2, p) = B + 1 /\ h2[n] = B + 1 + w /\ r.left[n] = p /\ r.right[n] = p
        BY <1>10, <1>11, <2>2, <1>13
      <4>2. n # Null /\ B \in Nat /\ w \in Nat /\ w = (IF n \in r.red THEN 0 ELSE 1)
        BY <1>1, <1>4, <1>6, <1>13 DEF w
      <4> QED
        BY <4>1, <4>2 DEF Weighed
    <3>3. Coloured(r, n)
      BY <1>0, <1>7, <1>13, <2>1 DEF Coloured
    <3> QED
      BY <3>1, <3>2, <3>3
  <2>6. Placed(r, lo2, hi2, n, b) /\ Weighed(r, h2, Null, b) /\ Coloured(r, b)
    <3>1. Placed(r, lo2, hi2, n, b)
      BY <1>0, <1>1, <1>3, <1>4, <1>10, <1>11, <1>13, <2>3 DEF Placed
    <3>2. Weighed(r, h2, Null, b)
      <4>1. Height(h2, d) = B /\ Height(h2, e) = B /\ h2[b] = B /\ r.left[b] = d
              /\ r.right[b] = e
        BY <1>10, <1>11, <2>2, <1>13
      <4>2. b \in r.red /\ B \in Nat /\ w \in Nat
        BY <1>6, <1>13
      <4> QED
        BY <4>1, <4>2 DEF Weighed
    <3>3. Coloured(r, b)
      BY <1>0, <1>7, <1>13, <2>1 DEF Coloured
    <3> QED
      BY <3>1, <3>2, <3>3
  <2>7. \A x \in D : x = n \/ (r.up[x] \in D /\ (x = r.left[r.up[x]] \/ x = r.right[r.up[x]]))
    BY <1>13 DEF D
  <2> QED
    BY <2>4, <2>5, <2>6, <2>7 DEF SoundInside, D
<1>18. Sound(r, top2, lo2, hi2, h2, n, Null)
  <2>1. p # top \/ (n # Null /\ n \notin r.red /\ n # Null)
    BY <1>0, <1>1, <1>4, <1>13 DEF Sound
  <2>2. r \in Trees
    BY <1>13
  <2> HIDE DEF D, top2
  <2> QED
    BY <1>8, <1>12, <1>14, <1>15, <1>16, <1>17, <2>1, <2>2, ReplacedSound
<1>19. Height(h2, top2) = Height(h, top)
  <2>1. top \in Keys /\ top # Null
    BY <1>0, <1>1 DEF Sound
  <2>2. top # p => h2[top] = h[top]
    BY <1>4, <1>9, <2>1
  <2>3. h2[n] = h[p]
    BY <1>1, <1>6, <1>10
  <2>4. h[top] \in Nat
    BY <2>1 DEF Labels
  <2> QED
    BY <1>1, <2>1, <2>2, <2>3, <2>4 DEF Height
<1> HIDE DEF top2, lo2, hi2, h2
<1>20. \E l2, i2, e2 : Labels(l2, i2, e2) /\ Sound(r, top2, l2, i2, e2, n, Null)
         /\ Height(e2, top2) = Height(h, top)
  BY <1>8, <1>18, <1>19
<1> QED
  BY <1>20 DEF top2
=============================================================================
