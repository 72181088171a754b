----------------------------- MODULE RBTreeProofs ---------------------------
(***************************************************************************)
(* The rules, the walks and the dictionary of RBTree, for every finite set *)
(* of integer keys and every size of the pool.                             *)
(*                                                                         *)
(* The inductive invariant Inv says of the tree, as it will be once the    *)
(* node in hand is attached (View), that there are labels that fit its     *)
(* nodes, with two exceptions: the node that is being removed (Hole),      *)
(* whose key may stand anywhere and whose one child hangs on both its      *)
(* sides, and the node that is being attached (Hot), which does not weigh  *)
(* yet.  An action keeps Inv because its steps on the structure result in  *)
(* the part that RBTreeShape exchanges for the one it found.               *)
(*                                                                         *)
(* The loops that search and walk are the subject of the section on loops: *)
(* a loop each turn of which lowers a number stops before it has taken one *)
(* turn for every key.                                                     *)
(***************************************************************************)
EXTENDS RBTreeShape

-----------------------------------------------------------------------------
(* Loops.                                                                  *)

(* The turns of a loop, one after the other.                               *)
LEMMA LoopTurns ==
  ASSUME NEW step, NEW n
  PROVE  \E at : /\ at[0] = n /\ \A i \in Nat : at[i + 1] = step[at[i]]
                 /\ Loop(step, n) = at[Cardinality(Keys)]
<1> DEFINE Turns(k, w) == /\ w = [i \in 0..k |-> w[i]] /\ w[0] = n
                          /\ \A i \in 1..k : w[i] = step[w[i - 1]]
           Bad == {k \in Nat : ~ \E w : Turns(k, w)}
<1>1. Bad = {}
  <2>1. SUFFICES ASSUME Bad # {} PROVE FALSE
    OBVIOUS
  <2>2. PICK k \in Bad : \A m \in Bad : k <= m
    BY <2>1, LeastNatural
  <2>3. k \in Nat /\ ~ \E w : Turns(k, w)
    BY <2>2
  <2>4. k # 0
    <3> DEFINE w == [i \in 0..0 |-> n]
    <3>1. Turns(0, w)
      OBVIOUS
    <3> QED
      BY <2>3, <3>1
  <2>5. k - 1 \in Nat /\ \E w : Turns(k - 1, w)
    BY <2>2, <2>3, <2>4
  <2>6. PICK v : Turns(k - 1, v)
    BY <2>5
  <2> DEFINE w == [i \in 0..k |-> IF i = k THEN step[v[k - 1]] ELSE v[i]]
  <2>7. Turns(k, w)
    <3>1. w = [i \in 0..k |-> w[i]] /\ w[0] = n
      BY <2>3, <2>4, <2>6
    <3>2. \A i \in 1..k : w[i] = step[w[i - 1]]
      <4> TAKE i \in 1..k
      <4>1. CASE i = k
        BY <4>1, <2>3, <2>4
      <4>2. CASE i # k
        <5>1. i \in 1..(k - 1) /\ i - 1 \in 0..k /\ i - 1 # k
          BY <4>2, <2>3, <2>4
        <5>2. v[i] = step[v[i - 1]]
          BY <5>1, <2>6
        <5> QED
          BY <5>1, <5>2, <4>2
      <4> QED
        BY <4>1, <4>2
    <3> QED
      BY <3>1, <3>2
  <2> QED
    BY <2>3, <2>7
<1> DEFINE Chosen(k) == CHOOSE w : Turns(k, w)
           g == [k \in Nat |-> Chosen(k)[k]]
<1>2. \A k \in Nat : Turns(k, Chosen(k))
  BY <1>1
<1>3. ASSUME NEW k \in Nat, NEW w, NEW v, Turns(k, w), Turns(k + 1, v)
      PROVE  w[k] = v[k]
  <2> DEFINE Off == {j \in 0..k : w[j] # v[j]}
  <2>1. SUFFICES ASSUME Off # {} PROVE FALSE
    OBVIOUS
  <2>2. Off \in SUBSET Nat
    OBVIOUS
  <2>3. PICK j \in Off : \A m \in Off : j <= m
    BY <2>1, <2>2, LeastNatural
  <2>4. j \in 0..k /\ w[j] # v[j]
    BY <2>3
  <2>5. j # 0
    BY <2>4, <1>3
  <2>6. j - 1 \in 0..k /\ j \in 1..k /\ j \in 1..(k + 1)
    BY <2>4, <2>5
  <2>7. w[j - 1] = v[j - 1]
    BY <2>3, <2>4, <2>6
  <2>8. w[j] = step[w[j - 1]] /\ v[j] = step[v[j - 1]]
    BY <2>6, <1>3
  <2> QED
    BY <2>4, <2>7, <2>8
<1>4. g[0] = n
  BY <1>2
<1>5. \A i \in Nat : g[i + 1] = step[g[i]]
  <2> TAKE i \in Nat
  <2>1. i + 1 \in Nat /\ Turns(i + 1, Chosen(i + 1)) /\ Turns(i, Chosen(i))
    <3> HIDE DEF Turns, Chosen
    <3> QED
      BY <1>2
  <2>2. i + 1 \in 1..(i + 1) /\ (i + 1) - 1 = i
    OBVIOUS
  <2>3. Chosen(i + 1)[i + 1] = step[Chosen(i + 1)[i]]
    <3> DEFINE w == Chosen(i + 1)
    <3> HIDE DEF w
    <3>1. \A j \in 1..(i + 1) : w[j] = step[w[j - 1]]
      BY <2>1 DEF w
    <3> QED
      BY <3>1, <2>2 DEF w
  <2>4. Chosen(i + 1)[i] = Chosen(i)[i]
    <3> HIDE DEF Turns, Chosen
    <3> QED
      BY <1>3, <2>1
  <2> QED
    BY <2>1, <2>3, <2>4
<1> DEFINE Solves(f) == f = [i \in Nat |-> IF i = 0 THEN n ELSE step[f[i - 1]]]
<1>6. Solves(g)
  <2>1. g = [i \in Nat |-> g[i]]
    OBVIOUS
  <2>2. \A i \in Nat : g[i] = IF i = 0 THEN n ELSE step[g[i - 1]]
    <3> TAKE i \in Nat
    <3> HIDE DEF g
    <3>1. CASE i = 0
      BY <3>1, <1>4
    <3>2. CASE i # 0
      <4>1. i - 1 \in Nat /\ (i - 1) + 1 = i
        BY <3>2
      <4> QED
        BY <4>1, <3>2, <1>5
    <3> QED
      BY <3>1, <3>2
  <2> HIDE DEF g
  <2> QED
    BY <2>1, <2>2, Zenon
<1> DEFINE at == CHOOSE f : Solves(f)
<1>7. Solves(at)
  <2> HIDE DEF Solves, g
  <2> QED
    BY <1>6
<1>8. Loop(step, n) = at[Cardinality(Keys)]
  BY Zenon DEF Loop
<1> HIDE DEF at
<1>9. at[0] = n
  BY <1>7
<1>10. \A i \in Nat : at[i + 1] = step[at[i]]
  <2> TAKE i \in Nat
  <2>1. i + 1 \in Nat /\ i + 1 # 0 /\ (i + 1) - 1 = i
    OBVIOUS
  <2>2. at[i + 1] = IF i + 1 = 0 THEN n ELSE step[at[(i + 1) - 1]]
    BY <1>7, <2>1
  <2> QED
    BY <2>1, <2>2
<1> QED
  BY <1>8, <1>9, <1>10

(* A loop that stays in I and comes down a measure that starts no higher   *)
(* than there are keys has stopped when it ends.                           *)
LEMMA LoopStops ==
  ASSUME NEW step, NEW I, NEW mu, NEW n \in I, mu[n] <= Cardinality(Keys),
         \A x \in I : /\ mu[x] \in Nat /\ step[x] \in I
                      /\ step[x] = x \/ mu[step[x]] < mu[x]
  PROVE  Loop(step, n) \in I /\ step[Loop(step, n)] = Loop(step, n)
<1> DEFINE N == Cardinality(Keys)
<1>1. N \in Nat
  BY KeysFinite
<1>2. PICK at : at[0] = n /\ (\A i \in Nat : at[i + 1] = step[at[i]]) /\ Loop(step, n) = at[N]
  BY LoopTurns
<1> DEFINE Fine(i) == at[i] \in I /\ (step[at[i]] = at[i] \/ mu[at[i]] + i <= mu[n])
           Bad == {i \in Nat : ~ Fine(i)}
<1>3. Bad = {}
  <2>1. SUFFICES ASSUME Bad # {} PROVE FALSE
    OBVIOUS
  <2>2. PICK k \in Bad : \A m \in Bad : k <= m
    BY <2>1, LeastNatural
  <2>3. k # 0
    BY <2>2, <1>2
  <2>4. k - 1 \in Nat /\ Fine(k - 1) /\ (k - 1) + 1 = k
    BY <2>2, <2>3
  <2> DEFINE a == at[k - 1]  b == at[k]
  <2>5. b = step[a] /\ a \in I
    BY <2>4, <1>2
  <2>6. k \in Nat /\ ~ (b \in I /\ (step[b] = b \/ mu[b] + k <= mu[n]))
    BY <2>2
  <2>7. step[a] = a \/ mu[a] + (k - 1) <= mu[n]
    BY <2>4
  <2> HIDE DEF a, b
  <2>8. b \in I /\ mu[a] \in Nat /\ mu[b] \in Nat /\ mu[n] \in Nat
          /\ (step[a] = a \/ mu[b] < mu[a])
    BY <2>5
  <2>9. CASE step[a] = a
    BY <2>9, <2>5, <2>6
  <2>10. CASE step[a] # a
    BY <2>10, <2>6, <2>7, <2>8
  <2> QED
    BY <2>9, <2>10
<1>4. Fine(N)
  BY <1>1, <1>3
<1> DEFINE z == at[N]
<1>5. z \in I /\ (step[z] = z \/ mu[z] + N <= mu[n])
  BY <1>4
<1> HIDE DEF z, N
<1>6. ASSUME step[z] # z PROVE FALSE
  <2>1. mu[z] \in Nat /\ mu[step[z]] \in Nat /\ mu[step[z]] < mu[z] /\ mu[n] \in Nat
          /\ mu[n] <= N
    BY <1>5, <1>6 DEF N
  <2> QED
    BY <2>1, <1>5, <1>6, <1>1
<1> QED
  BY <1>2, <1>5, <1>6 DEF z

-----------------------------------------------------------------------------
(* Every key in its place.                                                 *)

(* The tree between two calls: nothing is on its way in or out.            *)
Calm(s, top, lo, hi, h) ==
  s \in Trees /\ Labels(lo, hi, h) /\ Sound(s, top, lo, hi, h, Null, Null)

(* What Calm says of a node.                                               *)
LEMMA CalmNode ==
  ASSUME NEW s, NEW top, NEW lo, NEW hi, NEW h, Calm(s, top, lo, hi, h), NEW n \in s.nodes
  PROVE  /\ n \in Keys /\ n \in Int /\ n # Null /\ lo[n] \in Int /\ hi[n] \in Int
            /\ h[n] \in Nat
         /\ lo[n] < n /\ n < hi[n]
         /\ s.left[n] # Null => /\ s.left[n] \in s.nodes /\ s.up[s.left[n]] = n
                                /\ lo[s.left[n]] = lo[n] /\ hi[s.left[n]] = n
         /\ s.right[n] # Null => /\ s.right[n] \in s.nodes /\ s.up[s.right[n]] = n
                                 /\ lo[s.right[n]] = n /\ hi[s.right[n]] = hi[n]
         /\ n = top => s.up[n] = Null
         /\ n # top => s.up[n] \in s.nodes /\ (n = s.left[s.up[n]] \/ n = s.right[s.up[n]])
         /\ Weighed(s, h, Null, n) /\ Coloured(s, n)
<1>1. n \in Keys /\ n \in Int /\ n # Null
  BY KeysFinite DEF Calm, Trees
<1>2. lo[n] \in Int /\ hi[n] \in Int /\ h[n] \in Nat
  BY <1>1 DEF Calm, Labels
<1>3. Placed(s, lo, hi, Null, n) /\ Hung(s, top, n) /\ Weighed(s, h, Null, n) /\ Coloured(s, n)
  BY DEF Calm, Sound
<1> QED
  BY <1>1, <1>2, <1>3 DEF Placed, Hung

(* Its links and its order.                                                *)
LEMMA CalmTied ==
  ASSUME NEW s, NEW top, NEW lo, NEW hi, NEW h, Calm(s, top, lo, hi, h)
  PROVE  s \in Trees /\ Tied(s, top, lo, hi, Null)
BY DEF Calm, Labels, Sound, Tied

(* The nodes on the way from n to the root.                                *)
Way(s, top, n) == {x \in s.nodes : \A S \in SUBSET s.nodes : n \in S /\ ClosedUp(s, top, S)
     => x \in S}

(* The way up from a node: from the node to the root, and no further.      *)
LEMMA WayUp ==
  ASSUME NEW s, NEW top, NEW lo, NEW hi, NEW h, Calm(s, top, lo, hi, h), NEW n \in s.nodes
  PROVE  /\ n \in Way(s, top, n) /\ top \in Way(s, top, n)
         /\ \A z \in Way(s, top, n) \ {n} : \E y \in Way(s, top, n) :
              \/ y = s.left[z] /\ hi[n] <= z
              \/ y = s.right[z] /\ z <= lo[n]
<1> DEFINE W == Way(s, top, n)
<1>1. n \in W /\ W \in SUBSET s.nodes
  BY DEF Way
<1>2. ClosedUp(s, top, W)
  <2>1. SUFFICES ASSUME NEW y \in W, y # top PROVE s.up[y] \in W
    BY DEF ClosedUp
  <2>2. s.up[y] \in s.nodes
    BY <1>1, <2>1, CalmNode
  <2>3. ASSUME NEW S \in SUBSET s.nodes, n \in S, ClosedUp(s, top, S) PROVE s.up[y] \in S
    <3>1. y \in S
      BY <2>3 DEF Way
    <3> QED
      BY <2>1, <2>3, <3>1 DEF ClosedUp
  <2> QED
    BY <2>2, <2>3 DEF Way
<1>3. top \in W
  <2>1. W # {}
    BY <1>1
  <2> HIDE DEF W
  <2> QED
    BY <2>1, <1>1, <1>2, CalmTied, UpEndsAtTop
<1>4. ASSUME NEW y \in W PROVE lo[y] <= lo[n] /\ hi[n] <= hi[y]
  <2> DEFINE S == {x \in s.nodes : lo[x] <= lo[n] /\ hi[n] <= hi[x]}
  <2>1. n \in S
    BY CalmNode
  <2>2. ClosedUp(s, top, S)
    <3>1. SUFFICES ASSUME NEW x \in S, x # top PROVE s.up[x] \in S
      BY DEF ClosedUp
    <3> DEFINE u == s.up[x]
    <3>2. u \in s.nodes /\ (x = s.left[u] \/ x = s.right[u]) /\ x # Null
      BY <3>1, CalmNode
    <3>3. /\ lo[u] \in Int /\ hi[u] \in Int /\ u \in Int /\ lo[u] < u /\ u < hi[u]
          /\ (lo[x] = lo[u] /\ hi[x] = u) \/ (lo[x] = u /\ hi[x] = hi[u])
      <4> HIDE DEF u
      <4> QED
        BY <3>2, CalmNode
    <3>4. lo[n] \in Int /\ hi[n] \in Int
      BY CalmNode
    <3> HIDE DEF u
    <3>5. lo[u] <= lo[n] /\ hi[n] <= hi[u]
      BY <3>1, <3>3, <3>4
    <3> QED
      BY <3>2, <3>5 DEF u
  <2>3. S \in SUBSET s.nodes
    OBVIOUS
  <2>4. y \in S
    <3> HIDE DEF S
    <3> QED
      BY <2>1, <2>2, <2>3 DEF Way
  <2> QED
    BY <2>4
<1>5. ASSUME NEW z \in W, z # n
      PROVE  \E y \in W : y # top /\ s.up[y] = z
  <2>1. SUFFICES ASSUME \A y \in W : y # top => s.up[y] # z PROVE FALSE
    OBVIOUS
  <2>2. ClosedUp(s, top, W \ {z})
    BY <1>2, <2>1 DEF ClosedUp
  <2>3. W \ {z} \in SUBSET s.nodes /\ n \in W \ {z}
    BY <1>1, <1>5
  <2>4. z \in W \ {z}
    <3> DEFINE S == W \ {z}
    <3> HIDE DEF S
    <3>1. S \in SUBSET s.nodes /\ n \in S /\ ClosedUp(s, top, S)
      BY <2>2, <2>3 DEF S
    <3>2. z \in S
      BY <3>1, <1>5 DEF Way
    <3> QED
      BY <3>2 DEF S
  <2> QED
    BY <2>4
<1>6. ASSUME NEW z \in W, z # n
      PROVE  \E y \in W : (y = s.left[z] /\ hi[n] <= z) \/ (y = s.right[z] /\ z <= lo[n])
  <2>1. PICK y \in W : y # top /\ s.up[y] = z
    BY <1>5, <1>6
  <2>2. (y = s.left[z] \/ y = s.right[z]) /\ y # Null
    BY <1>1, <2>1, CalmNode
  <2>3. lo[y] <= lo[n] /\ hi[n] <= hi[y]
    BY <1>4
  <2>4. CASE y = s.left[z]
    <3>1. hi[y] = z
      BY <2>2, <2>4, <1>1, CalmNode
    <3> QED
      BY <2>3, <2>4, <3>1
  <2>5. CASE y = s.right[z]
    <3>1. lo[y] = z
      BY <2>2, <2>5, <1>1, CalmNode
    <3> QED
      BY <2>3, <2>5, <3>1
  <2> QED
    BY <2>2, <2>4, <2>5
<1> QED
  BY <1>1, <1>3, <1>6

(* Where a link leads nowhere, no key of the tree is missing.              *)
LEMMA Gap ==
  ASSUME NEW s, NEW top, NEW lo, NEW hi, NEW h, Calm(s, top, lo, hi, h),
         NEW x \in s.nodes, NEW m \in s.nodes, lo[x] < m, m < hi[x]
  PROVE  /\ m < x => s.left[x] # Null
         /\ x < m => s.right[x] # Null
<1>0. SUFFICES ASSUME m # x
               PROVE  (m < x => s.left[x] # Null) /\ (x < m => s.right[x] # Null)
  BY CalmNode
<1> DEFINE C == Way(s, top, x) \cap Way(s, top, m)
           f == [z \in C |-> lo[z] - hi[z]]
<1>1. C \in SUBSET s.nodes /\ top \in C
  BY WayUp DEF Way
<1>2. IsFiniteSet(C)
  <2>1. C \in SUBSET Keys
    BY <1>1, CalmNode
  <2> HIDE DEF C
  <2> QED
    BY <2>1, KeysFinite, FS_Subset
<1>3. \A z \in C : f[z] \in Int
  BY <1>1, CalmNode
<1>4. PICK z \in C : \A y \in C : f[y] <= f[z]
  <2>1. C # {}
    BY <1>1
  <2> HIDE DEF C, f
  <2> QED
    BY <2>1, <1>2, <1>3, LargestIsThere
<1>5. z \in s.nodes /\ z \in Way(s, top, x) /\ z \in Way(s, top, m)
  BY <1>1, <1>4
<1>6. /\ x \in Int /\ m \in Int /\ z \in Int /\ x # Null /\ m # Null
      /\ \A y \in {x, m, z} : lo[y] \in Int /\ hi[y] \in Int /\ lo[y] < y /\ y < hi[y]
  BY <1>5, CalmNode
<1>7. z # x => \E y \in Way(s, top, x) : (y = s.left[z] /\ hi[x] <= z)
        \/ (y = s.right[z] /\ z <= lo[x])
  BY <1>5, WayUp
<1>8. z # m => \E y \in Way(s, top, m) : (y = s.left[z] /\ hi[m] <= z)
        \/ (y = s.right[z] /\ z <= lo[m])
  BY <1>5, WayUp
<1>9. CASE z = x
  <2>1. PICK y \in Way(s, top, m) : (y = s.left[z] /\ hi[m] <= z)
          \/ (y = s.right[z] /\ z <= lo[m])
    BY <1>8, <1>9, <1>0
  <2>2. y # Null
    BY CalmNode DEF Way
  <2>3. m < x => y = s.left[x]
    BY <2>1, <1>9, <1>6
  <2>4. x < m => y = s.right[x]
    BY <2>1, <1>9, <1>6
  <2> QED
    BY <2>2, <2>3, <2>4
<1>10. CASE z = m
  BY <1>7, <1>10, <1>0, <1>6
<1>11. CASE z # x /\ z # m
  <2>1. PICK y \in Way(s, top, x) : (y = s.left[z] /\ hi[x] <= z)
          \/ (y = s.right[z] /\ z <= lo[x])
    BY <1>7, <1>11
  <2>2. PICK w \in Way(s, top, m) : (w = s.left[z] /\ hi[m] <= z)
          \/ (w = s.right[z] /\ z <= lo[m])
    BY <1>8, <1>11
  <2>3. y \in s.nodes /\ y # Null /\ w # Null
    BY CalmNode DEF Way
  <2>4. CASE y = w
    <3>1. y \in C
      BY <2>4
    <3>2. f[y] <= f[z] /\ f[y] = lo[y] - hi[y] /\ f[z] = lo[z] - hi[z]
      BY <3>1, <1>4
    <3>3. (lo[y] = lo[z] /\ hi[y] = z) \/ (lo[y] = z /\ hi[y] = hi[z])
      BY <2>1, <2>3, <1>5, CalmNode
    <3> HIDE DEF f
    <3> QED
      BY <3>2, <3>3, <1>6
  <2>5. CASE y # w
    <3>1. (hi[x] <= z /\ z <= lo[m]) \/ (hi[m] <= z /\ z <= lo[x])
      BY <2>1, <2>2, <2>5
    <3> QED
      BY <3>1, <1>6
  <2> QED
    BY <2>4, <2>5
<1> QED
  BY <1>9, <1>10, <1>11

-----------------------------------------------------------------------------
(* Searching and walking.                                                  *)

(* How many keys there is room for below a node: each turn of a loop that  *)
(* goes down leaves less, each turn of one that goes up leaves more.       *)
Room(lo, hi) == [n \in Keys |-> Cardinality({k \in Keys : lo[n] < k /\ k < hi[n]})]

(* Each step down leaves fewer keys.                                       *)
LEMMA RoomBelow ==
  ASSUME NEW s, NEW top, NEW lo, NEW hi, NEW h, Calm(s, top, lo, hi, h), NEW n \in s.nodes
  PROVE  /\ Room(lo, hi)[n] \in Nat /\ Room(lo, hi)[n] <= Cardinality(Keys)
         /\ 1 <= Room(lo, hi)[n]
         /\ s.left[n] # Null => Room(lo, hi)[s.left[n]] < Room(lo, hi)[n]
         /\ s.right[n] # Null => Room(lo, hi)[s.right[n]] < Room(lo, hi)[n]
<1> DEFINE R(x) == {k \in Keys : lo[x] < k /\ k < hi[x]}
<1>1. \A x \in Keys : Room(lo, hi)[x] = Cardinality(R(x))
  BY DEF Room
<1>2. n \in Keys /\ n \in R(n)
  BY CalmNode
<1>3. IsFiniteSet(R(n)) /\ Cardinality(R(n)) \in Nat /\ Cardinality(R(n)) <= Cardinality(Keys)
  <2>1. R(n) \in SUBSET Keys
    OBVIOUS
  <2> HIDE DEF R
  <2>2. IsFiniteSet(R(n)) /\ Cardinality(R(n)) <= Cardinality(Keys)
    BY <2>1, KeysFinite, FS_Subset
  <2> QED
    BY <2>2, FS_CardinalityType
<1>4. Cardinality(R(n)) # 0
  BY <1>2, <1>3, FS_EmptySet
<1>5. ASSUME NEW c \in s.nodes, (lo[c] = lo[n] /\ hi[c] = n) \/ (lo[c] = n /\ hi[c] = hi[n])
      PROVE  Cardinality(R(c)) < Cardinality(R(n))
  <2>1. \A k \in Keys : k \in Int
    BY KeysFinite
  <2>2. lo[n] \in Int /\ hi[n] \in Int /\ n \in Int /\ lo[n] < n /\ n < hi[n]
    BY CalmNode
  <2>3. R(c) \in SUBSET R(n) /\ n \notin R(c)
    BY <1>5, <2>1, <2>2
  <2> HIDE DEF R
  <2> QED
    BY <2>3, <1>2, <1>3, SmallerPart
<1>6. s.left[n] # Null => Cardinality(R(s.left[n])) < Cardinality(R(n)) /\ s.left[n] \in Keys
  <2> DEFINE c == s.left[n]
  <2>1. c # Null => c \in s.nodes /\ lo[c] = lo[n] /\ hi[c] = n
    BY CalmNode
  <2>2. c \in s.nodes => c \in Keys
    BY CalmNode
  <2> HIDE DEF R, c
  <2>3. c # Null => Cardinality(R(c)) < Cardinality(R(n)) /\ c \in Keys
    BY <1>5, <2>1, <2>2
  <2> QED
    BY <2>3 DEF c
<1>7. s.right[n] # Null => Cardinality(R(s.right[n])) < Cardinality(R(n)) /\ s.right[n] \in Keys
  <2> DEFINE c == s.right[n]
  <2>1. c # Null => c \in s.nodes /\ lo[c] = n /\ hi[c] = hi[n]
    BY CalmNode
  <2>2. c \in s.nodes => c \in Keys
    BY CalmNode
  <2> HIDE DEF R, c
  <2>3. c # Null => Cardinality(R(c)) < Cardinality(R(n)) /\ c \in Keys
    BY <1>5, <2>1, <2>2
  <2> QED
    BY <2>3 DEF c
<1> HIDE DEF R
<1> QED
  BY <1>1, <1>2, <1>3, <1>4, <1>6, <1>7

(* The climbs measure what room there is outside.                          *)
Rest(lo, hi) == [n \in Keys |-> Cardinality(Keys) - Room(lo, hi)[n]]

(* Each step up leaves fewer keys beside the interval.                     *)
LEMMA RestAbove ==
  ASSUME NEW s, NEW top, NEW lo, NEW hi, NEW h, Calm(s, top, lo, hi, h), NEW n \in s.nodes
  PROVE  /\ Rest(lo, hi)[n] \in Nat /\ Rest(lo, hi)[n] + 1 <= Cardinality(Keys)
         /\ n # top => Rest(lo, hi)[s.up[n]] < Rest(lo, hi)[n]
<1>1. n \in Keys /\ (n # top => s.up[n] \in s.nodes)
  BY CalmNode
<1>2. n # top => n # Null /\ s.up[n] \in Keys /\ (n = s.left[s.up[n]] \/ n = s.right[s.up[n]])
  BY <1>1, CalmNode
<1>3. /\ Room(lo, hi)[n] \in Nat /\ Room(lo, hi)[n] <= Cardinality(Keys) /\ 1 <= Room(lo, hi)[n]
  BY RoomBelow
<1>4. n # top => Room(lo, hi)[s.up[n]] \in Nat /\ Room(lo, hi)[n] < Room(lo, hi)[s.up[n]]
  BY <1>1, <1>2, RoomBelow
<1>5. /\ Rest(lo, hi)[n] = Cardinality(Keys) - Room(lo, hi)[n]
      /\ n # top => Rest(lo, hi)[s.up[n]] = Cardinality(Keys) - Room(lo, hi)[s.up[n]]
  BY <1>1, <1>2 DEF Rest
<1> QED
  BY <1>3, <1>4, <1>5, KeysFinite

(* The search ends at the key, or where the key would have to hang.        *)
LEMMA Descends ==
  ASSUME NEW lo, NEW hi, NEW h, Calm(t, root, lo, hi, h), root # Null, NEW k \in Keys
  PROVE  LET d == Descend(root, k)
         IN /\ d \in t.nodes /\ lo[d] < k /\ k < hi[d]
            /\ d > k => t.left[d] = Null
            /\ d < k => t.right[d] = Null
<1> DEFINE I == {x \in t.nodes : lo[x] < k /\ k < hi[x]}
           step == Toward(k)
           mu == Room(lo, hi)
<1>1. root \in I
  BY DEF Calm, Sound
<1>2. ASSUME NEW x \in I
      PROVE  /\ mu[x] \in Nat /\ step[x] \in I /\ (step[x] = x \/ mu[step[x]] < mu[x])
             /\ step[x] = x => (x > k => t.left[x] = Null) /\ (x < k => t.right[x] = Null)
  <2>0. x \in Keys /\ k \in Int
    BY CalmNode, KeysFinite
  <2> DEFINE child == IF x > k THEN t.left[x] ELSE t.right[x]
  <2>1. step[x] = IF x = k \/ child = Null THEN x ELSE child
    BY <2>0 DEF Toward
  <2>2. mu[x] \in Nat
    BY RoomBelow
  <2>3. CASE x = k \/ child = Null
    <3>1. x \in Int
      BY <2>0, KeysFinite
    <3> QED
      BY <2>0, <2>1, <2>2, <2>3, <3>1
  <2>4. CASE ~ (x = k \/ child = Null)
    <3>1. step[x] = child
      BY <2>1, <2>4
    <3>2. CASE x > k
      <4>1. /\ t.left[x] \in t.nodes /\ lo[t.left[x]] = lo[x] /\ hi[t.left[x]] = x
            /\ mu[t.left[x]] < mu[x] /\ t.left[x] # Null
        BY <3>2, <2>4, CalmNode, RoomBelow
      <4>2. t.left[x] # x
        BY <4>1, <2>2
      <4> QED
        BY <4>1, <4>2, <3>1, <3>2, <2>2
    <3>3. CASE ~ (x > k)
      <4>1. /\ t.right[x] \in t.nodes /\ hi[t.right[x]] = hi[x] /\ lo[t.right[x]] = x
            /\ mu[t.right[x]] < mu[x] /\ t.right[x] # Null
        BY <3>3, <2>4, CalmNode, RoomBelow
      <4>2. x < k /\ t.right[x] # x
        BY <4>1, <2>2, <2>0, <2>4, <3>3, CalmNode
      <4> QED
        BY <4>1, <4>2, <3>1, <3>3, <2>2
    <3> QED
      BY <3>2, <3>3
  <2> QED
    BY <2>3, <2>4
<1>3. mu[root] <= Cardinality(Keys)
  BY <1>1, RoomBelow
<1>4. Loop(step, root) \in I /\ step[Loop(step, root)] = Loop(step, root)
  <2>1. \A x \in I : mu[x] \in Nat /\ step[x] \in I /\ (step[x] = x \/ mu[step[x]] < mu[x])
    BY <1>2
  <2> HIDE DEF I, step, mu
  <2> QED
    BY <1>1, <1>3, <2>1, LoopStops
<1> QED
  BY <1>2, <1>4 DEF Descend

(* The outermost node of a subtree is next to the end of its interval.     *)
LEMMA FirstIs ==
  ASSUME NEW lo, NEW hi, NEW h, Calm(t, root, lo, hi, h), NEW n \in t.nodes
  PROVE  First(n) \in t.nodes /\ t.left[First(n)] = Null /\ lo[First(n)] = lo[n]
       /\ hi[First(n)] <= hi[n]
<1> DEFINE I == {x \in t.nodes : lo[x] = lo[n] /\ hi[x] <= hi[n]}
           step == Leftmost
           mu == Room(lo, hi)
<1>1. n \in I
  BY CalmNode
<1>2. ASSUME NEW x \in I
      PROVE  /\ mu[x] \in Nat /\ step[x] \in I /\ (step[x] = x \/ mu[step[x]] < mu[x])
             /\ step[x] = x => t.left[x] = Null
  <2>1. x \in Ptr /\ x # Null /\ mu[x] \in Nat
    BY CalmNode, RoomBelow DEF Ptr
  <2>2. step[x] = IF t.left[x] = Null THEN x ELSE t.left[x]
    BY <2>1 DEF Leftmost
  <2>3. CASE t.left[x] = Null
    BY <2>1, <2>2, <2>3
  <2>4. CASE t.left[x] # Null
    <3>1. /\ t.left[x] \in t.nodes /\ lo[t.left[x]] = lo[x] /\ hi[t.left[x]] = x
          /\ mu[t.left[x]] < mu[x]
      BY <2>4, CalmNode, RoomBelow
    <3>2. x \in Int /\ x < hi[x] /\ hi[x] \in Int /\ hi[n] \in Int
      BY CalmNode
    <3>3. t.left[x] # x
      BY <3>1, <2>1
    <3> QED
      BY <3>1, <3>2, <3>3, <2>1, <2>2, <2>4
  <2> QED
    BY <2>3, <2>4
<1>3. mu[n] <= Cardinality(Keys)
  BY RoomBelow
<1>4. Loop(step, n) \in I /\ step[Loop(step, n)] = Loop(step, n)
  <2>1. \A x \in I : mu[x] \in Nat /\ step[x] \in I /\ (step[x] = x \/ mu[step[x]] < mu[x])
    BY <1>2
  <2> HIDE DEF I, step, mu
  <2> QED
    BY <1>1, <1>3, <2>1, LoopStops
<1> QED
  BY <1>2, <1>4 DEF First

(* The outermost node of a subtree is next to the end of its interval.     *)
LEMMA LastIs ==
  ASSUME NEW lo, NEW hi, NEW h, Calm(t, root, lo, hi, h), NEW n \in t.nodes
  PROVE  Last(n) \in t.nodes /\ t.right[Last(n)] = Null /\ hi[Last(n)] = hi[n]
       /\ lo[n] <= lo[Last(n)]
<1> DEFINE I == {x \in t.nodes : hi[x] = hi[n] /\ lo[n] <= lo[x]}
           step == Rightmost
           mu == Room(lo, hi)
<1>1. n \in I
  BY CalmNode
<1>2. ASSUME NEW x \in I
      PROVE  /\ mu[x] \in Nat /\ step[x] \in I /\ (step[x] = x \/ mu[step[x]] < mu[x])
             /\ step[x] = x => t.right[x] = Null
  <2>1. x \in Ptr /\ x # Null /\ mu[x] \in Nat
    BY CalmNode, RoomBelow DEF Ptr
  <2>2. step[x] = IF t.right[x] = Null THEN x ELSE t.right[x]
    BY <2>1 DEF Rightmost
  <2>3. CASE t.right[x] = Null
    BY <2>1, <2>2, <2>3
  <2>4. CASE t.right[x] # Null
    <3>1. /\ t.right[x] \in t.nodes /\ hi[t.right[x]] = hi[x] /\ lo[t.right[x]] = x
          /\ mu[t.right[x]] < mu[x]
      BY <2>4, CalmNode, RoomBelow
    <3>2. x \in Int /\ lo[x] < x /\ lo[x] \in Int /\ lo[n] \in Int
      BY CalmNode
    <3>3. t.right[x] # x
      BY <3>1, <2>1
    <3> QED
      BY <3>1, <3>2, <3>3, <2>1, <2>2, <2>4
  <2> QED
    BY <2>3, <2>4
<1>3. mu[n] <= Cardinality(Keys)
  BY RoomBelow
<1>4. Loop(step, n) \in I /\ step[Loop(step, n)] = Loop(step, n)
  <2>1. \A x \in I : mu[x] \in Nat /\ step[x] \in I /\ (step[x] = x \/ mu[step[x]] < mu[x])
    BY <1>2
  <2> HIDE DEF I, step, mu
  <2> QED
    BY <1>1, <1>3, <2>1, LoopStops
<1> QED
  BY <1>2, <1>4 DEF Last

(* The way up from right children ends where the interval ends.            *)
LEMMA ClimbRightIs ==
  ASSUME NEW lo, NEW hi, NEW h, Calm(t, root, lo, hi, h), t.isroot = {root}, NEW n \in t.nodes
  PROVE  \/ ClimbRight(n) = Null /\ hi[n] = hi[root]
         \/ ClimbRight(n) \in t.nodes /\ ClimbRight(n) = hi[n]
<1> DEFINE I == {x \in t.nodes : hi[x] = hi[n]}
           step == UpFromRight
           mu == Rest(lo, hi)
<1>1. n \in I
  OBVIOUS
<1>2. ASSUME NEW x \in I
      PROVE  /\ mu[x] \in Nat /\ step[x] \in I /\ (step[x] = x \/ mu[step[x]] < mu[x])
             /\ step[x] = x => x = root \/ t.right[t.up[x]] # x
  <2>1. x \in Keys /\ mu[x] \in Nat /\ x # Null
    BY CalmNode, RestAbove
  <2>2. step[x] = IF x # root /\ t.right[t.up[x]] = x THEN t.up[x] ELSE x
    BY <2>1 DEF UpFromRight
  <2>3. CASE ~ (x # root /\ t.right[t.up[x]] = x)
    BY <2>1, <2>2, <2>3
  <2>4. CASE x # root /\ t.right[t.up[x]] = x
    <3> DEFINE u == t.up[x]
    <3>1. u \in t.nodes /\ mu[u] < mu[x]
      BY <2>4, CalmNode, RestAbove
    <3>2. hi[x] = hi[u]
      <4> HIDE DEF u
      <4>1. t.right[u] = x
        BY <2>4 DEF u
      <4> QED
        BY <3>1, <2>1, <4>1, CalmNode
    <3>3. u # x
      BY <3>1, <2>1
    <3> QED
      BY <3>1, <3>2, <3>3, <2>1, <2>2, <2>4
  <2> QED
    BY <2>3, <2>4
<1>3. mu[n] <= Cardinality(Keys)
  BY RestAbove, KeysFinite
<1> DEFINE z == Loop(step, n)
<1>4. z \in I /\ step[z] = z
  <2>1. \A x \in I : mu[x] \in Nat /\ step[x] \in I /\ (step[x] = x \/ mu[step[x]] < mu[x])
    BY <1>2
  <2> HIDE DEF I, step, mu
  <2> QED
    BY <1>1, <1>3, <2>1, LoopStops
<1>5. ClimbRight(n) = IF z = root THEN Null ELSE t.up[z]
  BY DEF ClimbRight, Above
<1> HIDE DEF z
<1>6. z \in t.nodes /\ hi[z] = hi[n] /\ (z = root \/ t.right[t.up[z]] # z) /\ z # Null
  BY <1>2, <1>4, CalmNode
<1>7. CASE z = root
  BY <1>5, <1>6, <1>7
<1>8. CASE z # root
  <2>1. t.up[z] \in t.nodes /\ z = t.left[t.up[z]]
    BY <1>6, <1>8, CalmNode
  <2>2. hi[z] = t.up[z]
    BY <2>1, <1>6, CalmNode
  <2> QED
    BY <2>1, <2>2, <1>5, <1>6, <1>8
<1> QED
  BY <1>7, <1>8

(* The way up from left children begins where the interval begins.         *)
LEMMA ClimbLeftIs ==
  ASSUME NEW lo, NEW hi, NEW h, Calm(t, root, lo, hi, h), t.isroot = {root}, NEW n \in t.nodes
  PROVE  \/ ClimbLeft(n) = Null /\ lo[n] = lo[root]
         \/ ClimbLeft(n) \in t.nodes /\ ClimbLeft(n) = lo[n]
<1> DEFINE I == {x \in t.nodes : lo[x] = lo[n]}
           step == UpFromLeft
           mu == Rest(lo, hi)
<1>1. n \in I
  OBVIOUS
<1>2. ASSUME NEW x \in I
      PROVE  /\ mu[x] \in Nat /\ step[x] \in I /\ (step[x] = x \/ mu[step[x]] < mu[x])
             /\ step[x] = x => x = root \/ t.left[t.up[x]] # x
  <2>1. x \in Keys /\ mu[x] \in Nat /\ x # Null
    BY CalmNode, RestAbove
  <2>2. step[x] = IF x # root /\ t.left[t.up[x]] = x THEN t.up[x] ELSE x
    BY <2>1 DEF UpFromLeft
  <2>3. CASE ~ (x # root /\ t.left[t.up[x]] = x)
    BY <2>1, <2>2, <2>3
  <2>4. CASE x # root /\ t.left[t.up[x]] = x
    <3> DEFINE u == t.up[x]
    <3>1. u \in t.nodes /\ mu[u] < mu[x]
      BY <2>4, CalmNode, RestAbove
    <3>2. lo[x] = lo[u]
      <4> HIDE DEF u
      <4>1. t.left[u] = x
        BY <2>4 DEF u
      <4> QED
        BY <3>1, <2>1, <4>1, CalmNode
    <3>3. u # x
      BY <3>1, <2>1
    <3> QED
      BY <3>1, <3>2, <3>3, <2>1, <2>2, <2>4
  <2> QED
    BY <2>3, <2>4
<1>3. mu[n] <= Cardinality(Keys)
  BY RestAbove, KeysFinite
<1> DEFINE z == Loop(step, n)
<1>4. z \in I /\ step[z] = z
  <2>1. \A x \in I : mu[x] \in Nat /\ step[x] \in I /\ (step[x] = x \/ mu[step[x]] < mu[x])
    BY <1>2
  <2> HIDE DEF I, step, mu
  <2> QED
    BY <1>1, <1>3, <2>1, LoopStops
<1>5. ClimbLeft(n) = IF z = root THEN Null ELSE t.up[z]
  BY DEF ClimbLeft, Above
<1> HIDE DEF z
<1>6. z \in t.nodes /\ lo[z] = lo[n] /\ (z = root \/ t.left[t.up[z]] # z) /\ z # Null
  BY <1>2, <1>4, CalmNode
<1>7. CASE z = root
  BY <1>5, <1>6, <1>7
<1>8. CASE z # root
  <2>1. t.up[z] \in t.nodes /\ z = t.right[t.up[z]]
    BY <1>6, <1>8, CalmNode
  <2>2. lo[z] = t.up[z]
    BY <2>1, <1>6, CalmNode
  <2> QED
    BY <2>1, <2>2, <1>5, <1>6, <1>8
<1> QED
  BY <1>7, <1>8

-----------------------------------------------------------------------------
(* What searches and walks answer in a tree that is calm.                  *)

(* What rbt_search answers.                                                *)
LEMMA SearchIs ==
  ASSUME NEW lo, NEW hi, NEW h, Calm(t, root, lo, hi, h), NEW k \in Keys
  PROVE  /\ Search(k) = IF k \in t.nodes THEN k ELSE Null
         /\ root # Null => (Descend(root, k) = k <=> k \in t.nodes)
<1>1. k \in Int /\ k # Null
  BY KeysFinite
<1>2. CASE root = Null
  BY <1>2 DEF Search, Calm, Sound
<1>3. CASE root # Null
  <2> DEFINE d == Descend(root, k)
  <2>1. /\ d \in t.nodes /\ lo[d] < k /\ k < hi[d]
        /\ d > k => t.left[d] = Null
        /\ d < k => t.right[d] = Null
    BY <1>3, Descends
  <2>2. Search(k) = IF d = k THEN d ELSE Null
    BY <1>3 DEF Search
  <2> HIDE DEF d
  <2>3. d \in Int
    BY <2>1, CalmNode
  <2>4. k \in t.nodes => d = k
    BY <1>1, <2>1, <2>3, Gap
  <2> QED
    BY <2>1, <2>2, <2>4 DEF d
<1> QED
  BY <1>2, <1>3

(* The node next to a node, in the order of the keys.                      *)
LEMMA NextIs ==
  ASSUME NEW lo, NEW hi, NEW h, Calm(t, root, lo, hi, h), t.isroot = {root}, NEW n \in t.nodes
  PROVE  \/ NextNode(n) = Null /\ \A m \in t.nodes : m <= n
         \/ /\ NextNode(n) \in t.nodes /\ n < NextNode(n)
            /\ \A m \in t.nodes : n < m => NextNode(n) <= m
<1>1. n \in Int /\ \A m \in t.nodes : m \in Int /\ lo[m] \in Int /\ hi[m] \in Int /\ lo[m] < m
        /\ m < hi[m]
  BY CalmNode
<1>2. CASE t.right[n] = Null
  <2> DEFINE c == ClimbRight(n)
  <2>1. NextNode(n) = c
    BY <1>2 DEF NextNode
  <2>2. \/ c = Null /\ hi[n] = hi[root]
        \/ c \in t.nodes /\ c = hi[n]
    BY ClimbRightIs
  <2> HIDE DEF c
  <2>3. ASSUME NEW m \in t.nodes, n < m, m < hi[n] PROVE FALSE
    <3>1. lo[n] < m
      BY <1>1, <2>3
    <3> QED
      BY <1>2, <2>3, <3>1, Gap
  <2>4. CASE c = Null /\ hi[n] = hi[root]
    <3>1. \A m \in t.nodes : m < hi[root]
      BY CalmNode DEF Calm, Sound
    <3> QED
      BY <2>1, <2>3, <2>4, <3>1, <1>1
  <2>5. CASE c \in t.nodes /\ c = hi[n]
    <3>1. \A m \in t.nodes : n < m => c <= m
      BY <1>1, <2>3, <2>5
    <3> QED
      BY <2>1, <2>5, <3>1, <1>1
  <2> QED
    BY <2>2, <2>4, <2>5
<1>3. CASE t.right[n] # Null
  <2> DEFINE r == t.right[n]  f == First(r)
  <2>1. NextNode(n) = f
    BY <1>3 DEF NextNode
  <2>2. r \in t.nodes /\ lo[r] = n
    BY <1>3, CalmNode
  <2> HIDE DEF r
  <2>3. f \in t.nodes /\ t.left[f] = Null /\ lo[f] = n
    BY <2>2, FirstIs
  <2> HIDE DEF f
  <2>4. ASSUME NEW m \in t.nodes, n < m, m < f PROVE FALSE
    <3>1. lo[f] < m /\ m < hi[f]
      BY <1>1, <2>3, <2>4
    <3> QED
      BY <2>3, <2>4, <3>1, Gap
  <2> QED
    BY <2>1, <2>3, <2>4, <1>1
<1> QED
  BY <1>2, <1>3

(* The node next to a node, in the order of the keys.                      *)
LEMMA PrevIs ==
  ASSUME NEW lo, NEW hi, NEW h, Calm(t, root, lo, hi, h), t.isroot = {root}, NEW n \in t.nodes
  PROVE  \/ PrevNode(n) = Null /\ \A m \in t.nodes : n <= m
         \/ /\ PrevNode(n) \in t.nodes /\ PrevNode(n) < n
            /\ \A m \in t.nodes : m < n => m <= PrevNode(n)
<1>1. n \in Int /\ \A m \in t.nodes : m \in Int /\ lo[m] \in Int /\ hi[m] \in Int /\ lo[m] < m
        /\ m < hi[m]
  BY CalmNode
<1>2. CASE t.left[n] = Null
  <2> DEFINE c == ClimbLeft(n)
  <2>1. PrevNode(n) = c
    BY <1>2 DEF PrevNode
  <2>2. \/ c = Null /\ lo[n] = lo[root]
        \/ c \in t.nodes /\ c = lo[n]
    BY ClimbLeftIs
  <2> HIDE DEF c
  <2>3. ASSUME NEW m \in t.nodes, m < n, lo[n] < m PROVE FALSE
    <3>1. m < hi[n]
      BY <1>1, <2>3
    <3> QED
      BY <1>2, <2>3, <3>1, Gap
  <2>4. CASE c = Null /\ lo[n] = lo[root]
    <3>1. \A m \in t.nodes : lo[root] < m
      BY CalmNode DEF Calm, Sound
    <3> QED
      BY <2>1, <2>3, <2>4, <3>1, <1>1
  <2>5. CASE c \in t.nodes /\ c = lo[n]
    <3>1. \A m \in t.nodes : m < n => m <= c
      BY <1>1, <2>3, <2>5
    <3> QED
      BY <2>1, <2>5, <3>1, <1>1
  <2> QED
    BY <2>2, <2>4, <2>5
<1>3. CASE t.left[n] # Null
  <2> DEFINE l == t.left[n]  f == Last(l)
  <2>1. PrevNode(n) = f
    BY <1>3 DEF PrevNode
  <2>2. l \in t.nodes /\ hi[l] = n
    BY <1>3, CalmNode
  <2> HIDE DEF l
  <2>3. f \in t.nodes /\ t.right[f] = Null /\ hi[f] = n
    BY <2>2, LastIs
  <2> HIDE DEF f
  <2>4. ASSUME NEW m \in t.nodes, m < n, f < m PROVE FALSE
    <3>1. lo[f] < m /\ m < hi[f]
      BY <1>1, <2>3, <2>4
    <3> QED
      BY <2>3, <2>4, <3>1, Gap
  <2> QED
    BY <2>1, <2>3, <2>4, <1>1
<1> QED
  BY <1>2, <1>3

(* The ends of the tree.                                                   *)
LEMMA EndsAre ==
  ASSUME NEW lo, NEW hi, NEW h, Calm(t, root, lo, hi, h), root # Null
  PROVE  /\ First(root) \in t.nodes /\ \A m \in t.nodes : First(root) <= m
         /\ Last(root) \in t.nodes /\ \A m \in t.nodes : m <= Last(root)
<1> DEFINE f == First(root)  l == Last(root)
<1>1. root \in t.nodes /\ \A m \in t.nodes : lo[root] < m /\ m < hi[root]
  BY CalmNode DEF Calm, Sound
<1>2. f \in t.nodes /\ t.left[f] = Null /\ lo[f] = lo[root]
  BY <1>1, FirstIs
<1>3. l \in t.nodes /\ t.right[l] = Null /\ hi[l] = hi[root]
  BY <1>1, LastIs
<1>4. \A m \in t.nodes : m \in Int /\ lo[m] \in Int /\ hi[m] \in Int /\ lo[m] < m /\ m < hi[m]
  BY CalmNode
<1> HIDE DEF f, l
<1>5. ASSUME NEW m \in t.nodes, m < f PROVE FALSE
  <2>1. lo[f] < m /\ m < hi[f]
    BY <1>1, <1>2, <1>4, <1>5
  <2> QED
    BY <1>2, <1>5, <2>1, Gap
<1>6. ASSUME NEW m \in t.nodes, l < m PROVE FALSE
  <2>1. lo[l] < m /\ m < hi[l]
    BY <1>1, <1>3, <1>4, <1>6
  <2> QED
    BY <1>3, <1>6, <2>1, Gap
<1> QED
  BY <1>2, <1>3, <1>4, <1>5, <1>6 DEF f, l

(* No way down has more black nodes than there are keys.                   *)
LEMMA HeightBound ==
  ASSUME NEW s, NEW top, NEW lo, NEW hi, NEW h, Calm(s, top, lo, hi, h), NEW n \in s.nodes
  PROVE  h[n] <= Cardinality(Keys)
<1> DEFINE room == Room(lo, hi)
           Bad == {x \in s.nodes : h[x] > room[x]}
           f == [x \in Bad |-> -room[x]]
<1>1. \A x \in s.nodes : /\ room[x] \in Nat /\ h[x] \in Nat /\ 1 <= room[x]
                            /\ room[x] <= Cardinality(Keys)
                         /\ s.left[x] # Null => s.left[x] \in s.nodes
                            /\ room[s.left[x]] < room[x]
                         /\ x # Null
  BY RoomBelow, CalmNode
<1>2. Bad = {}
  <2>1. SUFFICES ASSUME Bad # {} PROVE FALSE
    OBVIOUS
  <2>2. IsFiniteSet(Bad)
    <3>1. Bad \in SUBSET Keys
      BY CalmNode
    <3> HIDE DEF Bad
    <3> QED
      BY <3>1, KeysFinite, FS_Subset
  <2>3. PICK x \in Bad : \A y \in Bad : f[y] <= f[x]
    <3>1. \A y \in Bad : f[y] \in Int
      BY <1>1
    <3> HIDE DEF Bad, f
    <3> QED
      BY <2>1, <2>2, <3>1, LargestIsThere
  <2> DEFINE c == s.left[x]
  <2>4. h[x] = Height(h, c) + 0 \/ h[x] = Height(h, c) + 1
    BY CalmNode DEF Weighed
  <2>5. CASE c = Null
    BY <2>4, <2>5, <1>1 DEF Height
  <2>6. CASE c # Null
    <3>1. c \in s.nodes /\ room[c] < room[x] /\ h[c] \in Nat /\ h[x] \in Nat /\ room[x] \in Nat
      BY <2>6, <1>1
    <3>2. h[x] <= h[c] + 1 /\ h[x] > room[x] /\ room[c] \in Nat
      BY <2>4, <2>6, <3>1, <1>1 DEF Height
    <3>3. c \in Bad
      BY <3>1, <3>2
    <3>4. f[c] <= f[x]
      BY <2>3, <3>3
    <3> HIDE DEF room
    <3>5. f[c] = -room[c] /\ f[x] = -room[x]
      BY <3>3
    <3> HIDE DEF f, Bad, c
    <3> QED
      BY <3>1, <3>2, <3>4, <3>5
  <2> QED
    BY <2>5, <2>6
<1>3. h[n] \in Nat /\ room[n] \in Nat /\ room[n] <= Cardinality(Keys) /\ ~ (h[n] > room[n])
  BY <1>1, <1>2
<1> HIDE DEF room
<1> QED
  BY <1>3, KeysFinite

(* Every way down is as black as any other.                                *)
LEMMA BlacksAre ==
  ASSUME NEW lo, NEW hi, NEW h, Calm(t, root, lo, hi, h), NEW n \in t.nodes,
         Null \in {t.left[n], t.right[n]}
  PROVE  Blacks(n) = h[root]
<1> DEFINE Own(m) == IF m \in t.red THEN 0 ELSE 1
           I == {x \in Ptr \X Nat : IF x[1] = Null THEN x[2] = h[root]
                                    ELSE x[1] \in t.nodes /\ x[2] = h[x[1]] - Own(x[1])}
           step == CountUp
           mu == [x \in I |-> IF x[1] = Null THEN 0 ELSE Rest(lo, hi)[x[1]] + 1]
<1>1. \A m \in t.nodes : /\ h[m] = Height(h, t.left[m]) + Own(m)
                            /\ h[m] = Height(h, t.right[m]) + Own(m)
                         /\ m # Null /\ m \in Ptr /\ h[m] \in Nat /\ t.up[m] \in Ptr
  <2> TAKE m \in t.nodes
  <2>1. Weighed(t, h, Null, m) /\ m # Null /\ m \in Keys /\ h[m] \in Nat
    BY CalmNode
  <2>2. t.up[m] \in Ptr
    BY <2>1 DEF Calm, Trees
  <2> QED
    BY <2>1, <2>2 DEF Weighed, Ptr
<1>2. <<n, 0>> \in I
  <2>1. h[n] = 0 + Own(n)
    BY <1>1 DEF Height
  <2>2. h[n] - Own(n) = 0
    BY <2>1
  <2>3. <<n, 0>> \in Ptr \X Nat /\ n # Null
    BY <1>1
  <2> HIDE DEF Own
  <2> QED
    BY <2>2, <2>3
<1>3. ASSUME NEW x \in I
      PROVE  mu[x] \in Nat /\ step[x] \in I /\ (step[x] = x \/ mu[step[x]] < mu[x])
             /\ (step[x] = x => x[1] = Null)
  <2>1. PICK m \in Ptr, a \in Nat : x = <<m, a>>
    OBVIOUS
  <2>2. step[x] = IF m = Null THEN x ELSE <<t.up[m], a + Own(m)>>
    BY <2>1 DEF CountUp
  <2>3. CASE m = Null
    BY <2>1, <2>2, <2>3
  <2>4. CASE m # Null
    <3> DEFINE u == t.up[m]  b == a + Own(m)
    <3>1. m \in t.nodes /\ a = h[m] - Own(m) /\ h[m] \in Nat /\ Own(m) \in Nat
      BY <2>1, <2>4, <1>1
    <3>2. b = h[m] /\ b \in Nat
      BY <3>1
    <3>3. step[x] = <<u, b>> /\ u \in Ptr
      BY <2>2, <2>4, <3>1, <1>1
    <3>4. Rest(lo, hi)[m] \in Nat /\ mu[x] = Rest(lo, hi)[m] + 1
      BY <2>1, <2>4, <3>1, RestAbove
    <3>5. CASE m = root
      <4>1. u = Null
        BY <3>1, <3>5, CalmNode
      <4>2. <<u, b>> \in I
        <5>1. b = h[root]
          BY <3>2, <3>5
        <5> HIDE DEF b, Own
        <5> QED
          BY <4>1, <5>1, <3>2, <3>3
      <4>3. mu[<<u, b>>] = 0
        <5> HIDE DEF I, b, u
        <5> QED
          BY <4>1, <4>2
      <4>4. <<u, b>> # x
        BY <2>1, <2>4, <4>1
      <4> HIDE DEF mu, I, b, u, step
      <4> QED
        BY <3>3, <3>4, <4>2, <4>3, <4>4
    <3>6. CASE m # root
      <4>1. u \in t.nodes /\ (m = t.left[u] \/ m = t.right[u])
              /\ Rest(lo, hi)[u] < Rest(lo, hi)[m] /\ u # Null
        BY <3>1, <3>6, CalmNode, RestAbove
      <4>2. h[u] = h[m] + Own(u) /\ Own(u) \in Nat /\ h[u] \in Nat
        <5> HIDE DEF u
        <5>1. Height(h, m) = h[m]
          BY <2>4 DEF Height
        <5> QED
          BY <4>1, <5>1, <1>1
      <4>3. <<u, b>> \in I
        <5>1. b = h[u] - Own(u)
          BY <3>2, <4>2, <3>1
        <5> HIDE DEF b, Own, u
        <5> QED
          BY <4>1, <5>1, <3>2, <3>3
      <4>4. mu[<<u, b>>] = Rest(lo, hi)[u] + 1
        <5> HIDE DEF I, b, u
        <5> QED
          BY <4>1, <4>3
      <4>5. Rest(lo, hi)[u] \in Nat
        BY <4>1, RestAbove
      <4>6. mu[<<u, b>>] < mu[x]
        BY <4>1, <4>4, <4>5, <3>4
      <4> HIDE DEF mu, I, b, u, step
      <4>7. mu[x] \in Nat /\ mu[<<u, b>>] # mu[x]
        BY <3>4, <4>4, <4>5, <4>6
      <4>8. <<u, b>> # x
        BY <4>7
      <4> QED
        BY <3>3, <4>3, <4>6, <4>7, <4>8
    <3> QED
      BY <3>5, <3>6
  <2> QED
    BY <2>3, <2>4
<1>4. mu[<<n, 0>>] <= Cardinality(Keys)
  <2>1. mu[<<n, 0>>] = Rest(lo, hi)[n] + 1
    <3> HIDE DEF I
    <3> QED
      BY <1>1, <1>2
  <2> QED
    BY <2>1, RestAbove
<1> DEFINE z == Loop(step, <<n, 0>>)
<1>5. z \in I /\ step[z] = z
  <2>1. \A x \in I : mu[x] \in Nat /\ step[x] \in I /\ (step[x] = x \/ mu[step[x]] < mu[x])
    BY <1>3
  <2> HIDE DEF I, step, mu
  <2> QED
    BY <1>2, <1>4, <2>1, LoopStops
<1>6. Blacks(n) = z[2]
  BY DEF Blacks
<1> HIDE DEF z
<1>7. z[1] = Null
  BY <1>3, <1>5
<1> QED
  BY <1>5, <1>6, <1>7

-----------------------------------------------------------------------------
(* What the operators on the structure return.                             *)

(* What the operators that link children change.                           *)
LEMMA LinkLeftIs ==
  ASSUME NEW s \in Trees, NEW p \in Keys, NEW c \in Ptr
  PROVE  LET r == LinkLeft(s, p, c)
         IN /\ r \in Trees /\ r.nodes = s.nodes /\ r.right = s.right
            /\ r.red = s.red /\ r.redlink = s.redlink /\ r.isroot = s.isroot
            /\ \A x \in Keys : /\ r.left[x] = (IF x = p THEN c ELSE s.left[x])
                               /\ r.up[x] = (IF x = c THEN p ELSE s.up[x])
<1> DEFINE r == LinkLeft(s, p, c)
           down == [s.left EXCEPT ![p] = c]
           up == IF c = Null THEN s.up ELSE [s.up EXCEPT ![c] = p]
<1>1. Null \notin Keys /\ s.up \in [Keys -> Ptr] /\ s.left \in [Keys -> Ptr] /\ p \in Ptr
  BY KeysFinite DEF Trees, Ptr
<1>2. r = [s EXCEPT !.left = down, !.up = up]
  BY DEF LinkLeft, Trees
<1>3. down \in [Keys -> Ptr] /\ \A x \in Keys : down[x] = (IF x = p THEN c ELSE s.left[x])
  BY <1>1
<1>4. up \in [Keys -> Ptr] /\ \A x \in Keys : up[x] = (IF x = c THEN p ELSE s.up[x])
  BY <1>1
<1> HIDE DEF r, down, up
<1>5. /\ r \in Trees /\ r.nodes = s.nodes /\ r.right = s.right
      /\ r.red = s.red /\ r.redlink = s.redlink /\ r.isroot = s.isroot
      /\ r.left = down /\ r.up = up
  BY <1>2, <1>3, <1>4 DEF Trees
<1> QED
  BY <1>3, <1>4, <1>5 DEF r

(* What the operators that link children change.                           *)
LEMMA LinkRightIs ==
  ASSUME NEW s \in Trees, NEW p \in Keys, NEW c \in Ptr
  PROVE  LET r == LinkRight(s, p, c)
         IN /\ r \in Trees /\ r.nodes = s.nodes /\ r.left = s.left
            /\ r.red = s.red /\ r.redlink = s.redlink /\ r.isroot = s.isroot
            /\ \A x \in Keys : /\ r.right[x] = (IF x = p THEN c ELSE s.right[x])
                               /\ r.up[x] = (IF x = c THEN p ELSE s.up[x])
<1> DEFINE r == LinkRight(s, p, c)
           down == [s.right EXCEPT ![p] = c]
           up == IF c = Null THEN s.up ELSE [s.up EXCEPT ![c] = p]
<1>1. Null \notin Keys /\ s.up \in [Keys -> Ptr] /\ s.right \in [Keys -> Ptr] /\ p \in Ptr
  BY KeysFinite DEF Trees, Ptr
<1>2. r = [s EXCEPT !.right = down, !.up = up]
  BY DEF LinkRight, Trees
<1>3. down \in [Keys -> Ptr] /\ \A x \in Keys : down[x] = (IF x = p THEN c ELSE s.right[x])
  BY <1>1
<1>4. up \in [Keys -> Ptr] /\ \A x \in Keys : up[x] = (IF x = c THEN p ELSE s.up[x])
  BY <1>1
<1> HIDE DEF r, down, up
<1>5. /\ r \in Trees /\ r.nodes = s.nodes /\ r.left = s.left
      /\ r.red = s.red /\ r.redlink = s.redlink /\ r.isroot = s.isroot
      /\ r.right = down /\ r.up = up
  BY <1>2, <1>3, <1>4 DEF Trees
<1> QED
  BY <1>3, <1>4, <1>5 DEF r

(* What the operators that link children change.                           *)
LEMMA LinkBothIs ==
  ASSUME NEW s \in Trees, NEW p \in Keys, NEW a \in Ptr, NEW b \in Ptr
  PROVE  LET r == LinkBoth(s, p, a, b)
         IN /\ r \in Trees /\ r.nodes = s.nodes
            /\ r.red = s.red /\ r.redlink = s.redlink /\ r.isroot = s.isroot
            /\ \A x \in Keys : /\ r.left[x] = (IF x = p THEN a ELSE s.left[x])
                               /\ r.right[x] = (IF x = p THEN b ELSE s.right[x])
                               /\ r.up[x] = (IF x = b \/ x = a THEN p ELSE s.up[x])
<1> DEFINE m == LinkLeft(s, p, a)
<1>1. /\ m \in Trees /\ m.nodes = s.nodes /\ m.right = s.right
      /\ m.red = s.red /\ m.redlink = s.redlink /\ m.isroot = s.isroot
      /\ \A x \in Keys : /\ m.left[x] = (IF x = p THEN a ELSE s.left[x])
                         /\ m.up[x] = (IF x = a THEN p ELSE s.up[x])
  BY LinkLeftIs
<1>2. LinkBoth(s, p, a, b) = LinkRight(m, p, b)
  BY DEF LinkBoth
<1> HIDE DEF m
<1> DEFINE r == LinkRight(m, p, b)
<1>3. /\ r \in Trees /\ r.nodes = m.nodes /\ r.left = m.left
      /\ r.red = m.red /\ r.redlink = m.redlink /\ r.isroot = m.isroot
      /\ \A x \in Keys : /\ r.right[x] = (IF x = p THEN b ELSE m.right[x])
                         /\ r.up[x] = (IF x = b THEN p ELSE m.up[x])
  BY <1>1, LinkRightIs
<1> HIDE DEF r
<1>4. \A x \in Keys : /\ r.left[x] = (IF x = p THEN a ELSE s.left[x])
                      /\ r.right[x] = (IF x = p THEN b ELSE s.right[x])
                      /\ r.up[x] = (IF x = b \/ x = a THEN p ELSE s.up[x])
  BY <1>1, <1>3
<1>5. LinkBoth(s, p, a, b) = r
  BY <1>2 DEF r
<1> QED
  BY <1>1, <1>3, <1>4, <1>5

(* What the operators on the colours change.                               *)
LEMMA SetRedIs ==
  ASSUME NEW s \in Trees, NEW n \in Keys
  PROVE  LET r == SetRed(s, n)
         IN /\ r \in Trees /\ r.nodes = s.nodes /\ r.left = s.left /\ r.right = s.right
               /\ r.up = s.up
            /\ r.red = s.red \cup {n} /\ r.redlink = s.redlink /\ r.isroot = s.isroot
BY DEF SetRed, Trees

(* What the operators on the colours change.                               *)
LEMMA SetRedLinkIs ==
  ASSUME NEW s \in Trees, NEW n \in Keys
  PROVE  LET r == SetRedLink(s, n)
         IN /\ r \in Trees /\ r.nodes = s.nodes /\ r.left = s.left /\ r.right = s.right
               /\ r.up = s.up
            /\ r.redlink = s.redlink \cup {n} /\ r.red = s.red /\ r.isroot = s.isroot
BY DEF SetRedLink, Trees

(* What the operators on the colours change.                               *)
LEMMA SetBlackIs ==
  ASSUME NEW s \in Trees, NEW n \in Ptr
  PROVE  LET r == SetBlack(s, n)
         IN /\ r \in Trees /\ r.nodes = s.nodes /\ r.left = s.left /\ r.right = s.right
               /\ r.up = s.up
            /\ r.red = s.red \ {n} /\ r.redlink = s.redlink /\ r.isroot = s.isroot
BY DEF SetBlack, Trees

(* What the operators on the colours change.                               *)
LEMMA SetBlackLinkIs ==
  ASSUME NEW s \in Trees, NEW n \in Ptr
  PROVE  LET r == SetBlackLink(s, n)
         IN /\ r \in Trees /\ r.nodes = s.nodes /\ r.left = s.left /\ r.right = s.right
               /\ r.up = s.up
            /\ r.redlink = s.redlink \ {n} /\ r.red = s.red /\ r.isroot = s.isroot
BY DEF SetBlackLink, Trees

(* The other of two names.                                                 *)
Other(a, b, n) == IF n = a THEN b ELSE IF n = b THEN a ELSE n

(* Two nodes in each other's place.                                        *)
LEMMA SwapIs ==
  ASSUME NEW s \in Trees, NEW a \in Keys, NEW b \in Keys
  PROVE  LET r == Swap(s, a, b)
         IN /\ r \in Trees
            /\ \A x \in Keys : /\ r.up[x] = Other(a, b, s.up[Other(a, b, x)])
                               /\ r.left[x] = Other(a, b, s.left[Other(a, b, x)])
                               /\ r.right[x] = Other(a, b, s.right[Other(a, b, x)])
                               /\ x \in r.nodes <=> Other(a, b, x) \in s.nodes
            /\ \A x \in Ptr : /\ x \in r.red <=> Other(a, b, x) \in s.red
                              /\ x \in r.redlink <=> Other(a, b, x) \in s.redlink
                              /\ x \in r.isroot <=> Other(a, b, x) \in s.isroot
<1> DEFINE r == Swap(s, a, b)
           pi == [n \in Ptr |-> CASE n = a -> b [] n = b -> a [] OTHER -> n]
           Move(f) == [n \in Keys |-> pi[f[pi[n]]]]
           Name(S) == {pi[n] : n \in S}
<1>1. r = [nodes |-> Name(s.nodes), up |-> Move(s.up), left |-> Move(s.left),
        right |-> Move(s.right),
           red |-> Name(s.red), redlink |-> Name(s.redlink), isroot |-> Name(s.isroot)]
  BY DEF Swap
<1>2. \A x \in Ptr : pi[x] = Other(a, b, x) /\ pi[x] \in Ptr /\ (x \in Keys => pi[x] \in Keys)
  BY DEF Other, Ptr
<1>3. \A x \in Ptr : Other(a, b, Other(a, b, x)) = x /\ Other(a, b, x) \in Ptr
  BY DEF Other, Ptr
<1>4. Null \notin Keys /\ Keys \subseteq Ptr
  BY KeysFinite DEF Ptr
<1> HIDE DEF pi
<1>5. ASSUME NEW f \in [Keys -> Ptr]
      PROVE  Move(f) \in [Keys -> Ptr]
           /\ \A x \in Keys : Move(f)[x] = Other(a, b, f[Other(a, b, x)])
  BY <1>2, <1>4
<1>6. ASSUME NEW S \in SUBSET Keys
      PROVE  Name(S) \in SUBSET Keys /\ \A x \in Ptr : x \in Name(S) <=> Other(a, b, x) \in S
  BY <1>2, <1>3, <1>4
<1>7. /\ s.nodes \in SUBSET Keys /\ s.red \in SUBSET Keys /\ s.redlink \in SUBSET Keys
         /\ s.isroot \in SUBSET Keys
      /\ s.up \in [Keys -> Ptr] /\ s.left \in [Keys -> Ptr] /\ s.right \in [Keys -> Ptr]
  BY DEF Trees
<1> HIDE DEF r, Move, Name
<1>8. r \in Trees
  BY <1>1, <1>5, <1>6, <1>7 DEF Trees
<1>9. \A x \in Keys : /\ r.up[x] = Other(a, b, s.up[Other(a, b, x)])
                      /\ r.left[x] = Other(a, b, s.left[Other(a, b, x)])
                      /\ r.right[x] = Other(a, b, s.right[Other(a, b, x)])
                      /\ x \in r.nodes <=> Other(a, b, x) \in s.nodes
  BY <1>1, <1>4, <1>5, <1>6, <1>7
<1>10. \A x \in Ptr : /\ x \in r.red <=> Other(a, b, x) \in s.red
                      /\ x \in r.redlink <=> Other(a, b, x) \in s.redlink
                      /\ x \in r.isroot <=> Other(a, b, x) \in s.isroot
  BY <1>1, <1>6, <1>7
<1> QED
  BY <1>8, <1>9, <1>10 DEF r

(* A node that comes, and one that goes.                                   *)
LEMMA NewIs ==
  ASSUME NEW s \in Trees, NEW n \in Keys
  PROVE  LET r == New(s, n)
         IN /\ r \in Trees /\ r.nodes = s.nodes \cup {n}
            /\ r.red = s.red \ {n} /\ r.redlink = s.redlink \ {n} /\ r.isroot = s.isroot \ {n}
            /\ r.left[n] = Null /\ r.right[n] = Null /\ r.up[n] = Null
            /\ \A x \in Keys : x # n => r.left[x] = s.left[x] /\ r.right[x] = s.right[x]
               /\ r.up[x] = s.up[x]
BY DEF New, Trees, Ptr

(* A node that comes, and one that goes.                                   *)
LEMMA FreeIs ==
  ASSUME NEW s \in Trees, NEW n \in Keys
  PROVE  LET r == Free(s, n)
         IN /\ r \in Trees /\ r.nodes = s.nodes \ {n}
            /\ r.red = s.red \ {n} /\ r.redlink = s.redlink \ {n} /\ r.isroot = s.isroot \ {n}
            /\ \A x \in Keys : x # n => r.left[x] = s.left[x] /\ r.right[x] = s.right[x]
               /\ r.up[x] = s.up[x]
<1> DEFINE m == New(s, n)
<1>1. /\ m \in Trees /\ m.nodes = s.nodes \cup {n}
      /\ m.red = s.red \ {n} /\ m.redlink = s.redlink \ {n} /\ m.isroot = s.isroot \ {n}
      /\ \A x \in Keys : x # n => m.left[x] = s.left[x] /\ m.right[x] = s.right[x]
         /\ m.up[x] = s.up[x]
  BY NewIs
<1>2. Free(s, n) = [m EXCEPT !.nodes = @ \ {n}]
  BY DEF Free
<1> HIDE DEF m
<1> QED
  BY <1>1, <1>2 DEF Trees

(* A new root.                                                             *)
LEMMA ChangeRootIs ==
  ASSUME NEW s \in Trees, NEW old \in Keys, NEW new \in Ptr
  PROVE  LET r == ChangeRoot(s, old, new)
         IN /\ r \in Trees /\ r.nodes = s.nodes /\ r.left = s.left /\ r.right = s.right
            /\ r.red = s.red /\ r.redlink = s.redlink
            /\ r.isroot = (s.isroot \cup ({new} \ {Null})) \ {old}
            /\ \A x \in Keys : r.up[x] = (IF x = new THEN Null ELSE s.up[x])
<1> DEFINE r == ChangeRoot(s, old, new)
           up == IF new = Null THEN s.up ELSE [s.up EXCEPT ![new] = Null]
           flag == (s.isroot \cup ({new} \ {Null})) \ {old}
<1>1. Null \notin Keys /\ s.up \in [Keys -> Ptr] /\ s.isroot \in SUBSET Keys
  BY KeysFinite DEF Trees
<1>2. r = [s EXCEPT !.up = up, !.isroot = flag]
  <2>1. CASE new = Null
    <3>1. r = [s EXCEPT !.isroot = @ \ {old}]
      BY <2>1 DEF ChangeRoot
    <3>2. up = s.up /\ flag = s.isroot \ {old}
      BY <2>1
    <3> HIDE DEF r, up, flag
    <3> QED
      BY <3>1, <3>2 DEF Trees
  <2>2. CASE new # Null
    <3>1. r = [[s EXCEPT !.up[new] = Null, !.isroot = @ \cup {new}] EXCEPT !.isroot = @ \ {old}]
      BY <2>2 DEF ChangeRoot
    <3>2. up = [s.up EXCEPT ![new] = Null] /\ flag = (s.isroot \cup {new}) \ {old}
      BY <2>2
    <3> HIDE DEF r, up, flag
    <3> QED
      BY <3>1, <3>2 DEF Trees
  <2> QED
    BY <2>1, <2>2
<1>3. up \in [Keys -> Ptr] /\ \A x \in Keys : up[x] = (IF x = new THEN Null ELSE s.up[x])
  BY <1>1 DEF Ptr
<1>4. flag \in SUBSET Keys
  BY <1>1 DEF Ptr
<1> HIDE DEF r, up, flag
<1>5. /\ r \in Trees /\ r.nodes = s.nodes /\ r.left = s.left /\ r.right = s.right
      /\ r.red = s.red /\ r.redlink = s.redlink /\ r.isroot = flag /\ r.up = up
  BY <1>2, <1>3, <1>4 DEF Trees
<1> QED
  BY <1>3, <1>5 DEF r, flag

-----------------------------------------------------------------------------
(* The inductive invariant.                                                *)

(* rbt_insert links the node to its parent only at the end: the tree as it *)
(* will be when that is done.                                              *)
Attached(s, p, n) == IF p > n THEN LinkLeft(s, p, n) ELSE LinkRight(s, p, n)

(* What the labels are said of, the node to be freed and the one being     *)
(* attached.                                                               *)
View == IF pc = "insert" THEN Attached(t, parent, node) ELSE t
Hole == IF pc = "remove" THEN node ELSE Null
Hot  == IF pc = "insert" THEN node ELSE Null

(* There are labels for the tree as it stands, and rbt_insert counts its   *)
(* height.                                                                 *)
Fits(lo, hi, h) ==
  Labels(lo, hi, h) /\ Sound(View, root, lo, hi, h, Hole, Hot) /\ depth = Height(h, root)

(* The root has its flag and nothing else has it; the nodes are counted.   *)
Counted ==
  /\ t.isroot = {root} \ {Null}
  /\ count = Cardinality(t.nodes) - (IF pc = "insert" THEN 1 ELSE 0)

(* The node a call in progress has in hand.                                *)
InHand ==
  /\ pc = "insert" => /\ node \in t.nodes /\ parent \in t.nodes /\ key \in t.nodes
                         /\ node # parent
                      /\ node \notin t.red /\ node \notin t.redlink
  /\ pc = "remove" => node \in t.nodes /\ key = node

(* The inductive invariant.                                                *)
Inv == TypeOK /\ (\E lo, hi, h : Fits(lo, hi, h)) /\ Counted /\ InHand

(* What Inv says of the types.                                             *)
LEMMA TypesAre ==
  ASSUME Inv
  PROVE  /\ t \in Trees /\ t.nodes \in SUBSET Keys /\ root \in Ptr
         /\ IsFiniteSet(t.nodes) /\ Cardinality(t.nodes) \in Nat
            /\ Cardinality(t.nodes) <= Cardinality(Keys)
         /\ depth \in 0..Cardinality(Keys) /\ count \in 0..Cardinality(Keys)
            /\ pool \in 0..PoolSize
         /\ node \in Ptr /\ parent \in Ptr /\ key \in Ptr
         /\ answer \in {"none", "ok", "exists", "not_found", "no_memory"}
<1>1. /\ t \in Trees /\ t.nodes \in SUBSET Keys /\ root \in Ptr
      /\ depth \in 0..Cardinality(Keys) /\ count \in 0..Cardinality(Keys)
         /\ pool \in 0..PoolSize
      /\ node \in Ptr /\ parent \in Ptr /\ key \in Ptr
      /\ answer \in {"none", "ok", "exists", "not_found", "no_memory"}
  BY DEF Inv, TypeOK, Trees
<1>2. IsFiniteSet(t.nodes) /\ Cardinality(t.nodes) <= Cardinality(Keys)
  BY <1>1, KeysFinite, FS_Subset
<1>3. Cardinality(t.nodes) \in Nat
  BY <1>2, FS_CardinalityType
<1> QED
  BY <1>1, <1>2, <1>3

(* Between calls the tree is calm.                                         *)
LEMMA Idle ==
  ASSUME Inv, pc = "idle"
  PROVE  /\ \E lo, hi, h : Calm(t, root, lo, hi, h) /\ depth = Height(h, root)
         /\ t.isroot = {root} \ {Null} /\ count = Cardinality(t.nodes)
         /\ (root = Null <=> t.nodes = {})
<1>1. PICK lo, hi, h : Fits(lo, hi, h)
  BY DEF Inv
<1>2. View = t /\ Hole = Null /\ Hot = Null
  BY DEF View, Hole, Hot
<1>3. Calm(t, root, lo, hi, h) /\ depth = Height(h, root)
  BY <1>1, <1>2, TypesAre DEF Fits, Calm
<1>4. count = Cardinality(t.nodes)
  <2>1. count = Cardinality(t.nodes) - 0
    BY DEF Inv, Counted
  <2> QED
    BY <2>1, TypesAre
<1>5. root = Null <=> t.nodes = {}
  <2>1. Null \notin t.nodes
    BY TypesAre, KeysFinite
  <2> QED
    BY <1>3, <2>1 DEF Calm, Sound
<1> QED
  BY <1>3, <1>4, <1>5 DEF Inv, Counted

-----------------------------------------------------------------------------
(* How a step ends: the call returns, the node goes up, or the hole does.  *)

(* A call that leaves the tree calm has restored the invariant.            *)
LEMMA Returned ==
  ASSUME Inv, NEW code \in {"none", "ok", "exists", "not_found", "no_memory"}, Return(code),
         pool' \in 0..PoolSize, count' = Cardinality(t'.nodes), t'.isroot = {root'} \ {Null},
         NEW lo, NEW hi, NEW h, Calm(t', root', lo, hi, h), depth' = Height(h, root')
  PROVE  Inv'
<1>1. t' \in Trees /\ Labels(lo, hi, h) /\ Sound(t', root', lo, hi, h, Null, Null)
        /\ t'.nodes \in SUBSET Keys
  BY DEF Calm, Trees
<1>2. pc' = "idle" /\ node' = Null /\ parent' = Null /\ key' = Null /\ answer' = code
  BY DEF Return
<1>3. Fits(lo, hi, h)'
  BY <1>1, <1>2 DEF Fits, View, Hole, Hot
<1>4. IsFiniteSet(t'.nodes) /\ Cardinality(t'.nodes) <= Cardinality(Keys)
  BY <1>1, KeysFinite, FS_Subset
<1>5. Cardinality(t'.nodes) \in Nat
  BY <1>4, FS_CardinalityType
<1>6. depth' \in 0..Cardinality(Keys)
  <2>1. CASE root' = Null
    BY <2>1, KeysFinite DEF Height
  <2>2. CASE root' # Null
    <3>1. root' \in t'.nodes
      BY <1>1, <2>2 DEF Sound
    <3> DEFINE r == root'
    <3>2. h[r] \in Nat /\ h[r] <= Cardinality(Keys)
      BY <3>1, CalmNode, HeightBound
    <3> QED
      BY <2>2, <3>2, KeysFinite DEF Height
  <2> QED
    BY <2>1, <2>2
<1>7. TypeOK'
  <2>1. root' \in Ptr /\ count' \in 0..Cardinality(Keys)
    BY <1>1, <1>4, <1>5, KeysFinite DEF Sound, Ptr
  <2> QED
    BY <1>1, <1>2, <1>6, <2>1 DEF TypeOK, Trees, Ptr
<1>8. Counted'
  <2>1. count' = Cardinality(t'.nodes) - 0
    BY <1>5
  <2> QED
    BY <1>2, <2>1 DEF Counted
<1> QED
  BY <1>2, <1>3, <1>7, <1>8 DEF Inv, InHand

(* A call that goes on one level up has restored the invariant.            *)
LEMMA GoesUp ==
  ASSUME Inv, t' \in Trees, UNCHANGED root, UNCHANGED depth,
         pool' \in 0..PoolSize, count' \in 0..Cardinality(Keys),
         answer' \in {"none", "ok", "exists", "not_found", "no_memory"},
         pc' = "insert", node' \in t'.nodes, parent' \in t'.nodes, key' \in t'.nodes,
              node' # parent',
         node' \notin t'.red, node' \notin t'.redlink, t'.isroot = t.isroot,
         count' = Cardinality(t'.nodes) - 1,
         NEW lo, NEW hi, NEW h, Labels(lo, hi, h),
         Sound(Attached(t', parent', node'), root, lo, hi, h, Null, node'),
         depth = Height(h, root)
  PROVE  Inv'
<1>1. View' = Attached(t', parent', node') /\ Hole' = Null /\ Hot' = node'
  BY DEF View, Hole, Hot
<1>2. Fits(lo, hi, h)'
  BY <1>1 DEF Fits
<1>3. TypeOK'
  BY TypesAre DEF TypeOK, Trees, Ptr
<1>4. Counted' /\ InHand'
  BY DEF Inv, Counted, InHand
<1> QED
  BY <1>2, <1>3, <1>4 DEF Inv

(* A call that goes on one level up has restored the invariant.            *)
LEMMA HoleGoesUp ==
  ASSUME Inv, pc = "remove", t' \in Trees, root' \in Ptr, t'.nodes = t.nodes,
         t'.isroot = {root'} \ {Null},
         UNCHANGED <<depth, count, pool, pc, node, parent, key, answer>>,
         NEW lo, NEW hi, NEW h, Labels(lo, hi, h),
         Sound(t', root', lo, hi, h, node, Null), depth = Height(h, root')
  PROVE  Inv' /\ t'.nodes = t.nodes
<1>1. View' = t' /\ Hole' = node /\ Hot' = Null
  BY DEF View, Hole, Hot
<1>2. Fits(lo, hi, h)'
  BY <1>1 DEF Fits
<1>3. TypeOK'
  BY TypesAre DEF TypeOK, Trees
<1>4. Counted' /\ InHand'
  BY DEF Inv, Counted, InHand
<1> QED
  BY <1>2, <1>3, <1>4 DEF Inv

-----------------------------------------------------------------------------
(* rbt_insert.                                                             *)

(* Numbers below and above all keys.                                       *)
LEMMA EndsOfKeys == \E a, b \in Int : \A k \in Keys : a < k /\ k < b
<1>1. CASE Keys = {}
  BY <1>1
<1>2. CASE Keys # {}
  <2> DEFINE f == [k \in Keys |-> k]  g == [k \in Keys |-> -k]
  <2>1. \A k \in Keys : k \in Int /\ f[k] = k /\ g[k] = -k
    BY KeysFinite
  <2> HIDE DEF f, g
  <2>2. PICK x \in Keys : \A y \in Keys : f[y] <= f[x]
    <3>1. \A k \in Keys : f[k] \in Int
      BY <2>1
    <3> QED
      BY <1>2, <3>1, KeysFinite, LargestIsThere
  <2>3. PICK z \in Keys : \A y \in Keys : g[y] <= g[z]
    <3>1. \A k \in Keys : g[k] \in Int
      BY <2>1
    <3> QED
      BY <1>2, <3>1, KeysFinite, LargestIsThere
  <2>4. x + 1 \in Int /\ z - 1 \in Int
    BY <2>1
  <2>5. \A y \in Keys : z - 1 < y /\ y < x + 1
    BY <2>1, <2>2, <2>3
  <2> QED
    BY <2>4, <2>5
<1> QED
  BY <1>1, <1>2

(* rbt_insert_root.                                                        *)
LEMMA InsertRootInv ==
  ASSUME Inv, NEW k \in Keys, InsertRoot(k)
  PROVE  Inv' /\ t'.nodes = t.nodes \cup {k}
<1>1. PICK a, b \in Int : \A x \in Keys : a < x /\ x < b
  BY EndsOfKeys
<1> DEFINE lo == [x \in Keys |-> a]  hi == [x \in Keys |-> b]  h == [x \in Keys |-> 1]
           m == New(t, k)
<1>2. t.nodes = {} /\ t.isroot = {} /\ t \in Trees
  BY Idle, TypesAre DEF InsertRoot
<1>3. /\ m \in Trees /\ m.nodes = t.nodes \cup {k} /\ m.red = t.red \ {k}
         /\ m.redlink = t.redlink \ {k}
      /\ m.isroot = t.isroot \ {k} /\ m.left[k] = Null /\ m.right[k] = Null /\ m.up[k] = Null
  BY <1>2, NewIs
<1>4. t' = [m EXCEPT !.isroot = @ \cup {k}] /\ root' = k /\ count' = 1 /\ depth' = 1
  BY DEF InsertRoot
<1>5. Labels(lo, hi, h)
  BY DEF Labels
<1>6. lo[k] = a /\ hi[k] = b /\ h[k] = 1 /\ k # Null /\ Null \notin Keys /\ k \in Int
  BY KeysFinite
<1> HIDE DEF lo, hi, h, m
<1>7. /\ t' \in Trees /\ t'.nodes = {k} /\ t'.isroot = {k} /\ k \notin t'.red
         /\ k \notin t'.redlink
      /\ t'.left[k] = Null /\ t'.right[k] = Null /\ t'.up[k] = Null /\ Null \notin t'.red
  BY <1>2, <1>3, <1>4, <1>6 DEF Trees
<1>8. Sound(t', k, lo, hi, h, Null, Null)
  <2>1. Placed(t', lo, hi, Null, k)
    BY <1>1, <1>6, <1>7 DEF Placed
  <2>2. Hung(t', k, k) /\ Weighed(t', h, Null, k) /\ Coloured(t', k)
    BY <1>6, <1>7 DEF Hung, Weighed, Coloured, Height
  <2>3. \A x \in Keys : lo[k] < x /\ x < hi[k]
    BY <1>1, <1>6
  <2> QED
    BY <1>6, <1>7, <2>1, <2>2, <2>3 DEF Sound
<1>9. Calm(t', root', lo, hi, h) /\ depth' = Height(h, root')
  BY <1>4, <1>5, <1>6, <1>7, <1>8 DEF Calm, Height
<1>10. pool' \in 0..PoolSize
  BY TypesAre, RBTreeAssumption DEF InsertRoot, PopNode
<1>11. count' = Cardinality(t'.nodes) /\ t'.isroot = {root'} \ {Null}
  BY <1>4, <1>6, <1>7, FS_Singleton
<1>12. Return("ok")
  BY DEF InsertRoot
<1> QED
  BY <1>2, <1>7, <1>9, <1>10, <1>11, <1>12, Returned

(* What attaching a node changes.                                          *)
LEMMA AttachedIs ==
  ASSUME NEW s \in Trees, NEW p \in Keys, NEW n \in Keys, p \in Int, n \in Int
  PROVE  LET r == Attached(s, p, n)
         IN /\ r \in Trees /\ r.nodes = s.nodes
            /\ r.red = s.red /\ r.redlink = s.redlink /\ r.isroot = s.isroot
            /\ \A x \in Keys : /\ r.left[x] = (IF x = p /\ p > n THEN n ELSE s.left[x])
                               /\ r.right[x] = (IF x = p /\ ~ (p > n) THEN n ELSE s.right[x])
                               /\ r.up[x] = (IF x = n THEN p ELSE s.up[x])
<1> DEFINE r == Attached(s, p, n)
<1>1. n \in Ptr
  BY DEF Ptr
<1>2. CASE p > n
  <2>1. r = LinkLeft(s, p, n)
    BY <1>2 DEF Attached
  <2> QED
    BY <1>1, <1>2, <2>1, LinkLeftIs
<1>3. CASE ~ (p > n)
  <2>1. r = LinkRight(s, p, n)
    BY <1>3 DEF Attached
  <2> QED
    BY <1>1, <1>3, <2>1, LinkRightIs
<1> QED
  BY <1>2, <1>3

(* rbt_insert finds the place of the new node.                             *)
LEMMA InsertBeginInv ==
  ASSUME Inv, NEW k \in Keys, InsertBegin(k)
  PROVE  Inv' /\ t'.nodes = t.nodes \cup {k}
<1> DEFINE d == Descend(root, k)
           m == New(t, k)
           r == Attached(m, d, k)
<1>1. PICK lo, hi, h : Calm(t, root, lo, hi, h) /\ depth = Height(h, root)
  BY Idle DEF InsertBegin
<1>2. /\ d \in t.nodes /\ lo[d] < k /\ k < hi[d] /\ d # k
      /\ d > k => t.left[d] = Null
      /\ d < k => t.right[d] = Null
  BY <1>1, Descends DEF InsertBegin
<1>3. k \notin t.nodes
  BY <1>1, SearchIs DEF InsertBegin
<1>4. /\ pc' = "insert" /\ key' = k /\ node' = k /\ parent' = d /\ t' = m
      /\ UNCHANGED <<root, depth, count, answer>> /\ pool' \in 0..PoolSize
  BY TypesAre, RBTreeAssumption DEF InsertBegin, PopNode
<1> HIDE DEF d
<1>5. d \in Keys /\ d \in Int /\ k \in Int /\ Null \notin Keys /\ k # Null /\ d # Null
        /\ t \in Trees
  BY <1>1, <1>2, CalmNode, KeysFinite DEF Calm
<1>6. /\ m \in Trees /\ m.nodes = t.nodes \cup {k}
      /\ m.red = t.red \ {k} /\ m.redlink = t.redlink \ {k} /\ m.isroot = t.isroot \ {k}
      /\ m.left[k] = Null /\ m.right[k] = Null /\ m.up[k] = Null
      /\ \A x \in Keys : x # k => m.left[x] = t.left[x] /\ m.right[x] = t.right[x]
         /\ m.up[x] = t.up[x]
  BY <1>5, NewIs
<1> HIDE DEF m
<1>7. /\ r \in Trees /\ r.nodes = m.nodes
      /\ r.red = m.red /\ r.redlink = m.redlink /\ r.isroot = m.isroot
      /\ \A x \in Keys : /\ r.left[x] = (IF x = d /\ d > k THEN k ELSE m.left[x])
                         /\ r.right[x] = (IF x = d /\ ~ (d > k) THEN k ELSE m.right[x])
                         /\ r.up[x] = (IF x = k THEN d ELSE m.up[x])
  <2>1. m \in Trees /\ d \in Keys /\ k \in Keys /\ d \in Int /\ k \in Int
    BY <1>5, <1>6
  <2> QED
    BY <2>1, AttachedIs
<1> HIDE DEF r
<1> DEFINE lo2 == [lo EXCEPT ![k] = IF d > k THEN lo[d] ELSE d]
           hi2 == [hi EXCEPT ![k] = IF d > k THEN d ELSE hi[d]]
           h2 == [h EXCEPT ![k] = 0]
           D == {d}
           E == {d, k}
<1>8. Labels(lo, hi, h) /\ Sound(t, root, lo, hi, h, Null, Null)
  BY <1>1 DEF Calm
<1>9. Labels(lo2, hi2, h2)
  BY <1>5, <1>8 DEF Labels
<1>10. /\ \A x \in Keys : x # k => lo2[x] = lo[x] /\ hi2[x] = hi[x] /\ h2[x] = h[x]
       /\ lo2[k] = (IF d > k THEN lo[d] ELSE d) /\ hi2[k] = (IF d > k THEN d ELSE hi[d])
          /\ h2[k] = 0
  BY <1>5, <1>8 DEF Labels
<1> HIDE DEF lo2, hi2, h2
<1>11. Part(t, root, D, d)
  BY <1>2 DEF Part
<1>12. \A x \in t.nodes : x \in Keys /\ x # k /\ x # Null /\ t.left[x] # k /\ t.right[x] # k
  BY <1>1, <1>3, <1>5, CalmNode
<1>13. SameOutside(t, lo, hi, h, r, lo2, hi2, h2, D, E, d, d)
  <2> SUFFICES ASSUME NEW x \in t.nodes \ D
               PROVE  /\ r.left[x] = t.left[x] /\ r.right[x] = t.right[x]
                      /\ lo2[x] = lo[x] /\ hi2[x] = hi[x] /\ h2[x] = h[x]
                      /\ x \in r.red <=> x \in t.red
                      /\ x \in r.redlink <=> x \in t.redlink
                      /\ r.up[x] = t.up[x]
                      /\ t.up[x] = d => x = r.left[d] \/ x = r.right[d]
    BY DEF SameOutside
  <2>1. x \in Keys /\ x # k /\ x # d /\ x # Null
    BY <1>12
  <2>2. t.up[x] = d => x = t.left[d] \/ x = t.right[d]
    BY <1>1, <1>5, <2>1, CalmNode
  <2>3. t.up[x] = d => x = r.left[d] \/ x = r.right[d]
    BY <1>2, <1>5, <1>6, <1>7, <2>1, <2>2
  <2> QED
    BY <1>6, <1>7, <1>10, <2>1, <2>3
<1>14. SameAbove(t, root, lo, hi, h, r, lo2, hi2, h2, d, d)
  BY <1>2, <1>5, <1>6, <1>7, <1>10 DEF SameAbove, Height
<1>15. SoundInside(r, lo2, hi2, h2, Null, k, E, d)
  <2>1. Placed(t, lo, hi, Null, d) /\ Weighed(t, h, Null, d) /\ Coloured(t, d)
    BY <1>2, <1>8 DEF Sound
  <2>2. /\ r.left[d] = (IF d > k THEN k ELSE t.left[d])
           /\ r.right[d] = (IF d > k THEN t.right[d] ELSE k)
        /\ r.left[k] = Null /\ r.right[k] = Null /\ r.up[k] = d
        /\ lo2[d] = lo[d] /\ hi2[d] = hi[d] /\ h2[d] = h[d]
        /\ r.nodes = t.nodes \cup {k} /\ k \notin r.red /\ k \notin r.redlink
        /\ d \in r.red <=> d \in t.red
        /\ d \in r.redlink <=> d \in t.redlink
    BY <1>2, <1>5, <1>6, <1>7, <1>10
  <2>3. ASSUME NEW c \in t.nodes, c # d
        PROVE  r.up[c] = t.up[c] /\ lo2[c] = lo[c] /\ hi2[c] = hi[c] /\ h2[c] = h[c]
               /\ (c \in r.red <=> c \in t.red)
    BY <1>6, <1>7, <1>10, <1>12, <2>3
  <2>4. Null \notin t.red /\ Null \notin r.red
    BY <1>5, <1>7 DEF Trees
  <2>5. Placed(r, lo2, hi2, Null, k) /\ Weighed(r, h2, k, k) /\ Coloured(r, k)
    <3>1. Placed(r, lo2, hi2, Null, k)
      BY <1>2, <1>5, <1>10, <2>2 DEF Placed
    <3>2. Weighed(r, h2, k, k)
      BY <1>10, <2>2 DEF Weighed, Height
    <3>3. Coloured(r, k)
      BY <2>2, <2>4 DEF Coloured
    <3> QED
      BY <3>1, <3>2, <3>3
  <2>6. t.left[d] # d /\ t.right[d] # d
    BY <1>1, <1>2, CalmNode
  <2>7. Placed(r, lo2, hi2, Null, d)
    BY <1>2, <1>5, <1>10, <2>1, <2>2, <2>3, <2>6 DEF Placed
  <2>8. Weighed(r, h2, k, d)
    <3>1. /\ t.left[d] # Null => h2[t.left[d]] = h[t.left[d]]
          /\ t.right[d] # Null => h2[t.right[d]] = h[t.right[d]]
      BY <2>1, <2>3, <2>6 DEF Placed
    <3> QED
      BY <1>2, <1>5, <1>10, <2>1, <2>2, <3>1 DEF Weighed, Height
  <2>9. Coloured(r, d)
    <3>1. /\ t.left[d] # Null => (t.left[d] \in r.red <=> t.left[d] \in t.red)
          /\ t.right[d] # Null => (t.right[d] \in r.red <=> t.right[d] \in t.red)
      BY <2>1, <2>3, <2>6 DEF Placed
    <3> QED
      BY <1>2, <1>5, <2>1, <2>2, <2>4, <3>1 DEF Coloured
  <2> QED
    BY <2>2, <2>5, <2>7, <2>8, <2>9 DEF SoundInside
<1>16. Sound(r, root, lo2, hi2, h2, Null, k)
  <2>1. Exchange(t, root, Null, Null, r, root, Null, k, D, E, d, d)
    BY <1>2, <1>3, <1>5, <1>6, <1>7, <1>12 DEF Exchange
  <2>2. d # root \/ (d # Null /\ d \notin r.red /\ d # k)
    BY <1>2, <1>5, <1>6, <1>7, <1>8 DEF Sound
  <2> HIDE DEF D, E
  <2> QED
    BY <1>5, <1>7, <1>8, <1>9, <1>11, <1>13, <1>14, <1>15, <2>1, <2>2, ReplacedSound
<1>17. IsFiniteSet(t.nodes) /\ t.isroot = {root} \ {Null} /\ count = Cardinality(t.nodes)
       /\ count \in Nat
  BY Idle, TypesAre DEF InsertBegin
<1>18. Cardinality(t.nodes \cup {k}) = Cardinality(t.nodes) + 1
  BY <1>3, <1>17, FS_AddElement
<1>19. root # k
  BY <1>3, <1>5, <1>8 DEF Sound
<1>20. depth = Height(h2, root)
  <2>1. root = Null \/ root \in t.nodes
    BY <1>8 DEF Sound
  <2> QED
    BY <1>1, <1>10, <1>12, <2>1 DEF Height
<1> QED
  <2>1. Sound(Attached(t', parent', node'), root, lo2, hi2, h2, Null, node')
    BY <1>4, <1>16 DEF r
  <2>2. /\ t' \in Trees /\ node' \in t'.nodes /\ parent' \in t'.nodes /\ key' \in t'.nodes
           /\ node' # parent'
        /\ node' \notin t'.red /\ node' \notin t'.redlink /\ t'.isroot = t.isroot
        /\ count' = Cardinality(t'.nodes) - 1 /\ count' \in 0..Cardinality(Keys)
        /\ answer' \in {"none", "ok", "exists", "not_found", "no_memory"}
    BY <1>2, <1>4, <1>6, <1>17, <1>18, <1>19, TypesAre
  <2> QED
    BY <1>4, <1>6, <1>9, <1>20, <2>1, <2>2, GoesUp

(* The tree and its view while a node is being attached.                   *)
LEMMA Inserting ==
  ASSUME Inv, pc = "insert", NEW lo, NEW hi, NEW h, Fits(lo, hi, h)
  PROVE  /\ View \in Trees /\ Labels(lo, hi, h) /\ Sound(View, root, lo, hi, h, Null, node)
         /\ t \in Trees /\ node \in t.nodes /\ parent \in t.nodes /\ key \in t.nodes
            /\ node # parent
         /\ t.nodes \subseteq Keys /\ node \in Keys /\ parent \in Keys /\ node \in Int
            /\ parent \in Int /\ Null \notin Keys
         /\ node \notin t.red /\ node \notin t.redlink
         /\ root \in t.nodes /\ root # node /\ root # Null /\ t.isroot = {root}
            /\ depth = h[root]
         /\ View.nodes = t.nodes /\ View.red = t.red /\ View.redlink = t.redlink
         /\ \A x \in Keys : /\ View.left[x] = (IF x = parent /\ parent > node THEN node
                               ELSE t.left[x])
                            /\ View.right[x] = (IF x = parent /\ ~ (parent > node) THEN node
                               ELSE t.right[x])
                            /\ View.up[x] = (IF x = node THEN parent ELSE t.up[x])
<1>1. /\ t \in Trees /\ node \in t.nodes /\ parent \in t.nodes /\ key \in t.nodes
         /\ node # parent
      /\ node \notin t.red /\ node \notin t.redlink
  BY TypesAre DEF Inv, InHand
<1>2. node \in Keys /\ parent \in Keys /\ node \in Int /\ parent \in Int /\ Null \notin Keys
  BY <1>1, TypesAre, KeysFinite
<1>3. View = Attached(t, parent, node) /\ Hole = Null /\ Hot = node
  BY DEF View, Hole, Hot
<1>4. Labels(lo, hi, h) /\ Sound(View, root, lo, hi, h, Null, node) /\ depth = Height(h, root)
  BY <1>3 DEF Fits
<1>5. /\ View \in Trees /\ View.nodes = t.nodes /\ View.red = t.red /\ View.redlink = t.redlink
      /\ \A x \in Keys : /\ View.left[x] = (IF x = parent /\ parent > node THEN node
                            ELSE t.left[x])
                         /\ View.right[x] = (IF x = parent /\ ~ (parent > node) THEN node
                            ELSE t.right[x])
                         /\ View.up[x] = (IF x = node THEN parent ELSE t.up[x])
  <2>1. t \in Trees /\ node \in Keys /\ parent \in Keys /\ node \in Int /\ parent \in Int
    BY <1>1, <1>2
  <2> DEFINE w == Attached(t, parent, node)
  <2>2. /\ w \in Trees /\ w.nodes = t.nodes
        /\ w.red = t.red /\ w.redlink = t.redlink /\ w.isroot = t.isroot
        /\ \A x \in Keys : /\ w.left[x] = (IF x = parent /\ parent > node THEN node
                              ELSE t.left[x])
                           /\ w.right[x] = (IF x = parent /\ ~ (parent > node) THEN node
                              ELSE t.right[x])
                           /\ w.up[x] = (IF x = node THEN parent ELSE t.up[x])
    BY <2>1, AttachedIs
  <2>3. View = w
    BY <1>3
  <2> HIDE DEF w
  <2> QED
    BY <2>2, <2>3
<1>6. root # Null /\ root \in t.nodes /\ root # node
  BY <1>1, <1>4, <1>5 DEF Sound
<1>7. t.isroot = {root}
  BY <1>6 DEF Inv, Counted
<1> QED
  BY <1>1, <1>2, <1>4, <1>5, <1>6, <1>7, TypesAre DEF Height

(* A red left child is added: no rotation.                                 *)
LEMMA InsertLeftInv ==
  ASSUME Inv, InsertLeft
  PROVE  Inv' /\ t'.nodes = t.nodes
<1>0. pc = "insert" /\ parent \notin t.red /\ parent \notin t.redlink /\ parent > node
  BY DEF InsertLeft, Joining
<1>1. PICK lo, hi, h : Fits(lo, hi, h)
  BY DEF Inv
<1> DEFINE v == View
           r == SetRedLink(SetRed(v, node), parent)
<1>2. /\ v \in Trees /\ Labels(lo, hi, h) /\ Sound(v, root, lo, hi, h, Null, node)
      /\ t \in Trees /\ node \in t.nodes /\ parent \in t.nodes /\ node # parent
      /\ t.nodes \subseteq Keys /\ node \in Keys /\ parent \in Keys /\ node \in Int
         /\ parent \in Int /\ Null \notin Keys
      /\ node \notin t.red /\ node \notin t.redlink
      /\ root \in t.nodes /\ root # node /\ root # Null /\ t.isroot = {root} /\ depth = h[root]
      /\ v.nodes = t.nodes /\ v.red = t.red /\ v.redlink = t.redlink
      /\ \A x \in Keys : /\ v.left[x] = (IF x = parent THEN node ELSE t.left[x])
                         /\ v.right[x] = t.right[x]
                         /\ v.up[x] = (IF x = node THEN parent ELSE t.up[x])
  BY <1>0, <1>1, Inserting
<1>3. v = LinkLeft(t, parent, node)
  BY <1>0 DEF View, Attached
<1>4. t' = r /\ root' = root /\ depth' = depth /\ count' = count + 1 /\ pool' = pool
        /\ Return("ok")
  BY <1>3 DEF InsertLeft, InsertDone
<1>5. /\ r \in Trees /\ r.nodes = v.nodes /\ r.left = v.left /\ r.right = v.right /\ r.up = v.up
      /\ r.red = v.red \cup {node} /\ r.redlink = v.redlink \cup {parent} /\ r.isroot = v.isroot
  <2> DEFINE m == SetRed(v, node)
  <2>1. /\ m \in Trees /\ m.nodes = v.nodes /\ m.left = v.left /\ m.right = v.right
           /\ m.up = v.up
        /\ m.red = v.red \cup {node} /\ m.redlink = v.redlink /\ m.isroot = v.isroot
    BY <1>2, SetRedIs
  <2> HIDE DEF m, v
  <2>2. r = SetRedLink(m, parent)
    BY DEF m
  <2> HIDE DEF r
  <2> QED
    BY <1>2, <2>1, <2>2, SetRedLinkIs
<1>6. v.isroot = {root}
  BY <1>2, <1>3, LinkLeftIs DEF Ptr
<1> HIDE DEF v, r
<1> DEFINE D == {parent, node}
<1>7. Part(v, root, D, parent)
  BY <1>2 DEF Part
<1>8. SameOutside(v, lo, hi, h, r, lo, hi, h, D, D, parent, parent)
  BY <1>2, <1>5, SoundUp DEF SameOutside
<1>9. SameAbove(v, root, lo, hi, h, r, lo, hi, h, parent, parent)
  BY <1>2, <1>5 DEF SameAbove, Height
<1>10. Exchange(v, root, Null, node, r, root, Null, Null, D, D, parent, parent)
  BY <1>2, <1>5 DEF Exchange
<1>11. SoundInside(r, lo, hi, h, Null, Null, D, parent)
  <2>1. /\ Placed(v, lo, hi, Null, parent) /\ Weighed(v, h, node, parent) /\ Coloured(v, parent)
        /\ Placed(v, lo, hi, Null, node) /\ Weighed(v, h, node, node) /\ Coloured(v, node)
    BY <1>2, SoundNode
  <2>2. Placed(r, lo, hi, Null, parent) /\ Placed(r, lo, hi, Null, node)
    BY <1>5, <2>1 DEF Placed
  <2>3. Weighed(r, h, Null, parent) /\ Weighed(r, h, Null, node)
    BY <1>2, <1>5, <2>1 DEF Weighed
  <2>4. v.left[node] # node /\ v.right[node] # node /\ v.right[parent] # node
          /\ v.left[parent] = node
    BY <1>2, SoundNode
  <2>5. Coloured(r, parent) /\ Coloured(r, node)
    BY <1>0, <1>2, <1>5, <2>1, <2>4 DEF Coloured
  <2> QED
    BY <1>2, <1>5, <2>2, <2>3, <2>4, <2>5 DEF SoundInside
<1>12. Sound(r, root, lo, hi, h, Null, Null)
  <2>1. parent # root \/ (parent # Null /\ parent \notin r.red /\ parent # Null)
    BY <1>0, <1>2, <1>5
  <2> HIDE DEF D
  <2> QED
    BY <1>2, <1>5, <1>7, <1>8, <1>9, <1>10, <1>11, <2>1, ReplacedSound
<1>13. Calm(t', root', lo, hi, h) /\ depth' = Height(h, root')
  BY <1>2, <1>4, <1>5, <1>12 DEF Calm, Height
<1>14. count' = Cardinality(t'.nodes)
  BY <1>0, <1>2, <1>4, <1>5, TypesAre DEF Inv, Counted
<1>15. pool' \in 0..PoolSize /\ t'.isroot = {root'} \ {Null}
  BY <1>2, <1>4, <1>5, <1>6, TypesAre
<1> QED
  BY <1>2, <1>4, <1>5, <1>13, <1>14, <1>15, Returned

(* n is what the node above p, or the root, leads to.                      *)
Rehung(s, p, n, g, r) ==
  /\ r \in Trees /\ r.nodes = s.nodes /\ r.red = s.red /\ r.redlink = s.redlink
  /\ r.isroot = (IF p \in s.isroot THEN (s.isroot \cup {n}) \ {p} ELSE s.isroot)
  /\ \A x \in Keys :
       /\ r.left[x] = (IF p \notin s.isroot /\ x = g /\ s.left[g] = p THEN n ELSE s.left[x])
       /\ r.right[x] = (IF p \notin s.isroot /\ x = g /\ s.left[g] # p THEN n ELSE s.right[x])
       /\ r.up[x] = (IF p \in s.isroot /\ x = n THEN Null ELSE s.up[x])

(* The pointer that led to p leads to n.                                   *)
HangInstead(s, p, n, g) ==
  IF p \in s.isroot THEN ChangeRoot(s, p, n)
  ELSE IF s.left[g] = p THEN [s EXCEPT !.left[g] = n]
  ELSE [s EXCEPT !.right[g] = n]

(* What ReplacedSound asks of a part that hangs from the root or from a    *)
(* node above, said of the pointers to and from its top.                   *)
LEMMA Rehangs ==
  ASSUME NEW s, s \in Trees, NEW p, p \in Keys, NEW n, n \in Keys, NEW g, g \in Ptr,
         g = s.up[p],
         p \in s.isroot \/ g \in Keys
  PROVE  Rehung(s, p, n, g, HangInstead(s, p, n, g))
<1> DEFINE r == HangInstead(s, p, n, g)
<1>0. n \in Ptr /\ Null \notin Keys
  BY KeysFinite DEF Ptr
<1>1. CASE p \in s.isroot
  <2> DEFINE w == ChangeRoot(s, p, n)
  <2>1. r = w
    BY <1>1 DEF HangInstead
  <2> HIDE DEF r
  <2>2. /\ w \in Trees /\ w.nodes = s.nodes /\ w.left = s.left /\ w.right = s.right
        /\ w.red = s.red /\ w.redlink = s.redlink
        /\ w.isroot = (s.isroot \cup ({n} \ {Null})) \ {p}
        /\ \A x \in Keys : w.up[x] = (IF x = n THEN Null ELSE s.up[x])
    BY <1>0, ChangeRootIs
  <2>3. {n} \ {Null} = {n}
    BY <1>0
  <2> HIDE DEF w
  <2>4. Rehung(s, p, n, g, r)
    BY <1>1, <2>1, <2>2, <2>3 DEF Rehung
  <2> QED
    BY <2>4 DEF r
<1>2. CASE p \notin s.isroot /\ s.left[g] = p
  <2> DEFINE f == [s.left EXCEPT ![g] = n]
  <2>1. r = [s EXCEPT !.left = f]
    BY <1>2 DEF Trees, HangInstead
  <2>2. f \in [Keys -> Ptr] /\ \A x \in Keys : f[x] = (IF x = g THEN n ELSE s.left[x])
    BY <1>0, <1>2 DEF Trees
  <2> HIDE DEF r, f
  <2>3. /\ r \in Trees /\ r.nodes = s.nodes /\ r.left = f /\ r.right = s.right /\ r.up = s.up
        /\ r.red = s.red /\ r.redlink = s.redlink /\ r.isroot = s.isroot
    BY <2>1, <2>2 DEF Trees
  <2>4. Rehung(s, p, n, g, r)
    BY <1>2, <2>2, <2>3 DEF Rehung
  <2> QED
    BY <2>4 DEF r
<1>3. CASE p \notin s.isroot /\ s.left[g] # p
  <2> DEFINE f == [s.right EXCEPT ![g] = n]
  <2>1. r = [s EXCEPT !.right = f]
    BY <1>3 DEF Trees, HangInstead
  <2>2. f \in [Keys -> Ptr] /\ \A x \in Keys : f[x] = (IF x = g THEN n ELSE s.right[x])
    BY <1>0, <1>3 DEF Trees
  <2> HIDE DEF r, f
  <2>3. /\ r \in Trees /\ r.nodes = s.nodes /\ r.left = s.left /\ r.right = f /\ r.up = s.up
        /\ r.red = s.red /\ r.redlink = s.redlink /\ r.isroot = s.isroot
    BY <2>1, <2>2 DEF Trees
  <2>4. Rehung(s, p, n, g, r)
    BY <1>3, <2>2, <2>3 DEF Rehung
  <2> QED
    BY <2>4 DEF r
<1> QED
  BY <1>1, <1>2, <1>3

-----------------------------------------------------------------------------
(* What the operators on the structure do, each in a name of its own.      *)

(* A left child is linked.                                                 *)
LeftLinked(s, p, c, r) ==
  /\ r \in Trees /\ r.nodes = s.nodes /\ r.right = s.right
  /\ r.red = s.red /\ r.redlink = s.redlink /\ r.isroot = s.isroot
  /\ \A x \in Keys : /\ r.left[x] = (IF x = p THEN c ELSE s.left[x])
                     /\ r.up[x] = (IF x = c THEN p ELSE s.up[x])

(* A right child is linked.                                                *)
RightLinked(s, p, c, r) ==
  /\ r \in Trees /\ r.nodes = s.nodes /\ r.left = s.left
  /\ r.red = s.red /\ r.redlink = s.redlink /\ r.isroot = s.isroot
  /\ \A x \in Keys : /\ r.right[x] = (IF x = p THEN c ELSE s.right[x])
                     /\ r.up[x] = (IF x = c THEN p ELSE s.up[x])

(* Only colours have changed.                                              *)
Shaped(s, r) ==
  r \in Trees /\ r.nodes = s.nodes /\ r.left = s.left /\ r.right = s.right /\ r.up = s.up
       /\ r.isroot = s.isroot

(* A node or a link has its colour.                                        *)
Reddened(s, n, r)       == Shaped(s, r) /\ r.red = s.red \cup {n} /\ r.redlink = s.redlink
Blackened(s, n, r)      == Shaped(s, r) /\ r.red = s.red \ {n} /\ r.redlink = s.redlink
RedLinked(s, n, r)      == Shaped(s, r) /\ r.redlink = s.redlink \cup {n} /\ r.red = s.red
BlackLinked(s, n, r)    == Shaped(s, r) /\ r.redlink = s.redlink \ {n} /\ r.red = s.red

(* Two nodes have changed places.                                          *)
Swapped(s, a, b, r) ==
  /\ r \in Trees
  /\ \A x \in Keys : /\ r.up[x] = Other(a, b, s.up[Other(a, b, x)])
                     /\ r.left[x] = Other(a, b, s.left[Other(a, b, x)])
                     /\ r.right[x] = Other(a, b, s.right[Other(a, b, x)])
                     /\ x \in r.nodes <=> Other(a, b, x) \in s.nodes
  /\ \A x \in Ptr : /\ x \in r.red <=> Other(a, b, x) \in s.red
                    /\ x \in r.redlink <=> Other(a, b, x) \in s.redlink
                    /\ x \in r.isroot <=> Other(a, b, x) \in s.isroot

(* A node is gone.                                                         *)
Freed(s, n, r) ==
  /\ r \in Trees /\ r.nodes = s.nodes \ {n}
  /\ r.red = s.red \ {n} /\ r.redlink = s.redlink \ {n} /\ r.isroot = s.isroot \ {n}
  /\ \A x \in Keys : x # n => r.left[x] = s.left[x] /\ r.right[x] = s.right[x]
     /\ r.up[x] = s.up[x]

(* The operators do that.                                                  *)
LEMMA Does ==
  ASSUME NEW s, s \in Trees
  PROVE  /\ \A p \in Keys, c \in Ptr : LeftLinked(s, p, c, LinkLeft(s, p, c))
         /\ \A p \in Keys, c \in Ptr : RightLinked(s, p, c, LinkRight(s, p, c))
         /\ \A n \in Keys : Reddened(s, n, SetRed(s, n)) /\ RedLinked(s, n, SetRedLink(s, n))
         /\ \A n \in Ptr : Blackened(s, n, SetBlack(s, n))
            /\ BlackLinked(s, n, SetBlackLink(s, n))
         /\ \A a, b \in Keys : Swapped(s, a, b, Swap(s, a, b))
         /\ \A n \in Keys : Freed(s, n, Free(s, n))
<1>1. ASSUME NEW p \in Keys, NEW c \in Ptr PROVE LeftLinked(s, p, c, LinkLeft(s, p, c))
  BY LinkLeftIs DEF LeftLinked
<1>2. ASSUME NEW p \in Keys, NEW c \in Ptr PROVE RightLinked(s, p, c, LinkRight(s, p, c))
  BY LinkRightIs DEF RightLinked
<1>3. ASSUME NEW n \in Keys PROVE Reddened(s, n, SetRed(s, n))
        /\ RedLinked(s, n, SetRedLink(s, n))
  BY SetRedIs, SetRedLinkIs DEF Reddened, RedLinked, Shaped
<1>4. ASSUME NEW n \in Ptr PROVE Blackened(s, n, SetBlack(s, n))
        /\ BlackLinked(s, n, SetBlackLink(s, n))
  BY SetBlackIs, SetBlackLinkIs DEF Blackened, BlackLinked, Shaped
<1>5. ASSUME NEW a \in Keys, NEW b \in Keys PROVE Swapped(s, a, b, Swap(s, a, b))
  BY SwapIs DEF Swapped
<1>6. ASSUME NEW n \in Keys PROVE Freed(s, n, Free(s, n))
  BY FreeIs DEF Freed
<1> QED
  BY <1>1, <1>2, <1>3, <1>4, <1>5, <1>6

(* Links that lead down lead up again.                                     *)
Linked(s, hole) ==
  /\ s \in Trees
  /\ \A x \in s.nodes :
       /\ s.left[x] # Null => s.left[x] \in s.nodes /\ s.up[s.left[x]] = x
       /\ s.right[x] # Null /\ x # hole => s.right[x] \in s.nodes /\ s.up[s.right[x]] = x
       /\ x = hole => s.right[x] = s.left[x]

(* The links of a tree that follows the rules.                             *)
LEMMA SoundLinked ==
  ASSUME NEW s, NEW top, NEW lo, NEW hi, NEW h, NEW hole, NEW hot, s \in Trees,
         Sound(s, top, lo, hi, h, hole, hot)
  PROVE  Linked(s, hole)
BY DEF Sound, Placed, Linked

-----------------------------------------------------------------------------
(* What rbt_remove makes of a part of the tree, operator by operator.      *)

(* The steps of RemoveRed on the structure.                                *)
ToCutRed(s, p, n) ==
  LET k1 == LinkLeft(s, p, s.left[n])
      k2 == SetBlackLink(k1, p)
      k3 == IF s.left[n] = Null THEN k2 ELSE SetBlack(k2, s.left[n])
  IN Free(k3, n)

(* They have this result.                                                  *)
LEMMA CutRedIs ==
  ASSUME NEW s, NEW top, NEW lo, NEW hi, NEW h, s \in Trees, Labels(lo, hi, h),
         NEW p, NEW n, Sound(s, top, lo, hi, h, n, Null), RedOne(s, p, n),
         s.isroot = {top}
  PROVE  CutRed(s, ToCutRed(s, p, n), p, n) /\ ToCutRed(s, p, n).isroot = {top}
<1> DEFINE k1 == LinkLeft(s, p, s.left[n])
           k2 == SetBlackLink(k1, p)
           k3 == IF s.left[n] = Null THEN k2 ELSE SetBlack(k2, s.left[n])
           r == Free(k3, n)
           D == {p, n}
           b == s.right[p]
           c == s.left[n]
<1>a. r = ToCutRed(s, p, n)
  BY DEF ToCutRed
<1>0. RedOneAround(s, top, lo, hi, h, p, n)
  BY RedOneApart
<1>1. /\ p \in Keys /\ p # Null /\ n \in Keys /\ n # Null
      /\ Null \notin Keys /\ s.nodes \subseteq Keys /\ Null \notin s.nodes /\ Null \notin s.red
      /\ p # n /\ n # top
      /\ s.up[n] = p
  BY <1>0 DEF RedOneAround
<1>2. /\ b \in s.nodes \cup {Null}
         /\ (b # Null => b \in s.nodes \ D /\ b \in Keys /\ s.up[b] = p)
      /\ c \in s.nodes \cup {Null}
         /\ (c # Null => c \in s.nodes \ D /\ c \in Keys /\ s.up[c] = n)
      /\ s.up[p] \notin D
  BY <1>0 DEF RedOneAround
<1>3. /\ s.left[p] = n /\ s.right[p] = b
      /\ s.left[n] = c /\ s.right[n] = c
  <2>1. Linked(s, n)
    BY SoundLinked
  <2>2. s.right[n] = s.left[n]
    BY <2>1 DEF Linked, RedOne
  <2> QED
    BY <2>2 DEF RedOne
<1>4. /\ p \in s.nodes /\ n \in s.nodes /\ p \notin s.red /\ n \in s.red
  BY DEF RedOne
<1>5. \A x \in s.nodes \ D : s.left[x] \notin {n} /\ s.right[x] \notin {n}
  <2>1. Linked(s, n)
    BY SoundLinked
  <2> QED
    BY <1>1, <1>4, <2>1 DEF Linked
<1>6. Keys \subseteq Ptr /\ Null \in Ptr /\ b \in Ptr /\ c \in Ptr
  <2> HIDE DEF b, c
  <2> QED
    BY <1>1, <1>2 DEF Ptr
<1>7. LeftLinked(s, p, c, k1)
  <2> QED
    BY <1>1, <1>6, Does DEF b, c
<1> HIDE DEF k1
<1>8. BlackLinked(k1, p, k2)
  <2>1. k1 \in Trees
    BY <1>7 DEF LeftLinked
  <2> QED
    BY <1>1, <1>6, <2>1, Does
<1> HIDE DEF k2
<1>9. Blackened(k2, c, k3)
  <2>1. k2 \in Trees
    BY <1>8 DEF BlackLinked, Shaped
  <2>2. Blackened(k2, c, SetBlack(k2, c))
    BY <1>1, <1>6, <2>1, Does
  <2>3. Null \notin k2.red
    BY <1>1, <2>1 DEF Trees
  <2>4. Blackened(k2, Null, k2)
    BY <2>1, <2>3, <1>1 DEF Blackened, Shaped
  <2> QED
    BY <2>2, <2>4 DEF b, c
<1> HIDE DEF k3
<1>10. Freed(k3, n, r)
  <2>1. k3 \in Trees
    BY <1>9 DEF Blackened, Shaped
  <2> QED
    BY <1>1, <1>6, <2>1, Does
<1> HIDE DEF r
<1> HIDE DEF b, c
<1>11. ASSUME NEW x \in Keys, x # n
      PROVE  /\ r.left[x] = (IF x = p THEN c ELSE s.left[x])
             /\ r.right[x] = s.right[x]
             /\ r.up[x] = (IF x = c THEN p ELSE s.up[x])
             /\ x \in r.nodes <=> x \in s.nodes
             /\ x \in r.red <=> (x # c /\ x \in s.red)
             /\ x \in r.redlink <=> (x # p /\ x \in s.redlink)
             /\ x \in r.isroot <=> x \in s.isroot
  BY <1>11, <1>7, <1>8, <1>9, <1>10 DEF LeftLinked, BlackLinked, Shaped, Blackened, Freed
<1>12. ASSUME NEW x \in s.nodes \ D
      PROVE  /\ r.left[x] = (IF s.left[x] = p THEN p ELSE s.left[x])
             /\ r.right[x] = (IF s.right[x] = p THEN p ELSE s.right[x])
             /\ x \in r.red <=> x \in s.red
             /\ x \in r.redlink <=> x \in s.redlink
             /\ s.up[x] \notin D => r.up[x] = s.up[x]
  <2>0. c \notin s.red
    BY SoundNode DEF RedOne, Coloured, c
  <2>1. x \in Keys /\ x \in Ptr /\ x # p /\ x # n
    BY <1>1, <1>6
  <2>2. r.left[x] = (IF s.left[x] = p THEN p ELSE s.left[x])
    BY <1>5, <1>11, <2>1
  <2>3. r.right[x] = (IF s.right[x] = p THEN p ELSE s.right[x])
    BY <1>5, <1>11, <2>1
  <2>4. (x \in r.red <=> x \in s.red) /\ (x \in r.redlink <=> x \in s.redlink)
    BY <1>11, <2>1, <2>0
  <2>5. s.up[x] \notin D => r.up[x] = s.up[x]
    BY <1>1, <1>2, <1>11, <2>1
  <2> QED
    BY <2>2, <2>3, <2>4, <2>5
<1>13. /\ r.left[p] = c /\ r.right[p] = b
  <2>1. r.left[p] = c /\ r.right[p] = b
    BY <1>1, <1>2, <1>3, <1>11
  <2> QED
    BY <2>1
<1>14. /\ r.up[p] = s.up[p]
       /\ b # Null => r.up[b] = p
       /\ c # Null => r.up[c] = p
  <2>1. r.up[p] = s.up[p]
    BY <1>1, <1>2, <1>11
  <2>2. b # Null => r.up[b] = p
    BY <1>1, <1>2, <1>11
  <2>3. c # Null => r.up[c] = p
    BY <1>1, <1>2, <1>11
  <2> QED
    BY <2>1, <2>2, <2>3
<1>15. /\ p \notin r.red /\ p \notin r.redlink
  <2>1. p \in Ptr /\ n \in Ptr
    BY <1>1, <1>6
  <2>2. p \notin r.red /\ p \notin r.redlink
    BY <1>1, <1>4, <1>11, <2>1
  <2> QED
    BY <2>2
<1>16. r \in Trees /\ r.nodes = s.nodes \ {n}
  <2>1. r \in Trees
    BY <1>10 DEF Freed
  <2>2. n \notin r.nodes
    BY <1>10 DEF Freed
  <2>3. \A x \in Keys : x # n => (x \in r.nodes <=> x \in s.nodes)
    BY <1>1, <1>4, <1>11
  <2> QED
    BY <1>1, <2>1, <2>2, <2>3 DEF Trees
<1>17. r.isroot = {top}
  <2>1. r.isroot \subseteq Keys /\ top \in Keys
    BY <1>16 DEF Trees
  <2>2. n \notin r.isroot
    BY <1>10 DEF Freed
  <2>3. \A x \in Keys : x # n => (x \in r.isroot <=> x = (top))
    BY <1>1, <1>6, <1>11
  <2> QED
    BY <1>1, <2>1, <2>2, <2>3
<1>18. CutRed(s, r, p, n)
  <2>1. Turned(s, r, {p, n}, p, p)
    BY <1>12 DEF Turned
  <2>2. b = s.right[p] /\ c = s.left[n]
    BY DEF b, c
  <2> HIDE DEF D
  <2> QED
    BY <1>13, <1>14, <1>15, <1>16, <2>1, <2>2 DEF CutRed
<1> HIDE DEF D
<1> QED
  BY <1>a, <1>17, <1>18

(* The steps of RemoveRedBroRedNephew on the structure.                    *)
ToTakenFromNephew(s, p, n, b, m, g) ==
  LET w1 == Swap(s, p, n)
      w == Swap(w1, m, n)
      k1 == LinkRight(w, p, w.left[p])
      k2 == LinkLeft(k1, p, w.right[n])
      k3 == LinkRight(k2, b, g)
      k4 == SetBlack(k3, g)
  IN Free(k4, n)

(* They have this result.                                                  *)
LEMMA TakenFromNephewIs ==
  ASSUME NEW s, NEW top, NEW lo, NEW hi, NEW h, s \in Trees, Labels(lo, hi, h),
         NEW p, NEW n, NEW b, NEW m, NEW g, Sound(s, top, lo, hi, h, n, Null),
         RedBroRedNephew(s, p, n, b, m, g),
         s.isroot = {top}
  PROVE  TakenFromNephew(s, ToTakenFromNephew(s, p, n, b, m, g), p, n, b, m, g)
       /\ ToTakenFromNephew(s, p, n, b, m, g).isroot = {IF top = p THEN m ELSE top}
<1> DEFINE w1 == Swap(s, p, n)
           w == Swap(w1, m, n)
           k1 == LinkRight(w, p, w.left[p])
           k2 == LinkLeft(k1, p, w.right[n])
           k3 == LinkRight(k2, b, g)
           k4 == SetBlack(k3, g)
           r == Free(k4, n)
           D == {p, n, b, m, g}
           a == s.left[b]
           c == s.left[n]
           d == s.right[m]
           e == s.left[g]
           f == s.right[g]
<1>a. r = ToTakenFromNephew(s, p, n, b, m, g)
  BY DEF ToTakenFromNephew
<1>0. RedBroRedNephewAround(s, top, lo, hi, h, p, n, b, m, g)
  BY RedBroRedNephewApart
<1>1. /\ p \in Keys /\ p # Null /\ n \in Keys /\ n # Null /\ b \in Keys /\ b # Null
         /\ m \in Keys /\ m # Null /\ g \in Keys /\ g # Null
      /\ Null \notin Keys /\ s.nodes \subseteq Keys /\ Null \notin s.nodes /\ Null \notin s.red
      /\ p # n /\ p # b /\ p # m /\ p # g /\ n # b /\ n # m /\ n # g /\ b # m /\ b # g /\ m # g
         /\ n # top /\ b # top /\ m # top /\ g # top
      /\ s.up[n] = p /\ s.up[b] = p /\ s.up[m] = b /\ s.up[g] = m
  BY <1>0 DEF RedBroRedNephewAround
<1>2. /\ a \in s.nodes \cup {Null}
         /\ (a # Null => a \in s.nodes \ D /\ a \in Keys /\ s.up[a] = b)
      /\ c \in s.nodes \cup {Null}
         /\ (c # Null => c \in s.nodes \ D /\ c \in Keys /\ s.up[c] = n)
      /\ d \in s.nodes \cup {Null}
         /\ (d # Null => d \in s.nodes \ D /\ d \in Keys /\ s.up[d] = m)
      /\ e \in s.nodes \cup {Null}
         /\ (e # Null => e \in s.nodes \ D /\ e \in Keys /\ s.up[e] = g)
      /\ f \in s.nodes \cup {Null}
         /\ (f # Null => f \in s.nodes \ D /\ f \in Keys /\ s.up[f] = g)
      /\ s.up[p] \notin D /\ (e # Null => e # f)
  BY <1>0 DEF RedBroRedNephewAround
<1>3. /\ s.left[p] = b /\ s.right[p] = n
      /\ s.left[n] = c /\ s.right[n] = c
      /\ s.left[b] = a /\ s.right[b] = m
      /\ s.left[m] = g /\ s.right[m] = d
      /\ s.left[g] = e /\ s.right[g] = f
  <2>1. Linked(s, n)
    BY SoundLinked
  <2>2. s.right[n] = s.left[n]
    BY <2>1 DEF Linked, RedBroRedNephew
  <2> QED
    BY <2>2 DEF RedBroRedNephew
<1>4. /\ p \in s.nodes /\ n \in s.nodes /\ b \in s.nodes /\ m \in s.nodes /\ g \in s.nodes
      /\ p \notin s.red /\ n \notin s.red /\ b \in s.red /\ m \notin s.red /\ m \in s.redlink
      /\ g \in s.red
  BY DEF RedBroRedNephew
<1>5. \A x \in s.nodes \ D : s.left[x] \notin {n, b, m, g} /\ s.right[x] \notin {n, b, m, g}
  <2>1. Linked(s, n)
    BY SoundLinked
  <2> QED
    BY <1>1, <1>4, <2>1 DEF Linked
<1>6. Keys \subseteq Ptr /\ Null \in Ptr /\ a \in Ptr /\ c \in Ptr /\ d \in Ptr /\ e \in Ptr
        /\ f \in Ptr
  <2> HIDE DEF a, c, d, e, f
  <2> QED
    BY <1>1, <1>2 DEF Ptr
<1>7. Swapped(s, p, n, w1)
  <2> QED
    BY <1>1, <1>6, Does
<1> HIDE DEF w1
<1>8. Swapped(w1, m, n, w)
  <2>1. w1 \in Trees
    BY <1>7 DEF Swapped
  <2> QED
    BY <1>1, <1>6, <2>1, Does
<1> HIDE DEF w
<1> HIDE DEF a, c, d, e, f
<1>9. w.left[p] = c
  BY <1>1, <1>2, <1>3, <1>6, <1>7, <1>8 DEF Swapped, Other
<1>10. w.right[n] = d
  BY <1>1, <1>2, <1>3, <1>6, <1>7, <1>8 DEF Swapped, Other
<1>11. RightLinked(w, p, c, k1)
  <2>1. w \in Trees
    BY <1>8 DEF Swapped
  <2> QED
    BY <1>1, <1>6, <2>1, <1>9, Does
<1> HIDE DEF k1
<1>12. LeftLinked(k1, p, d, k2)
  <2>1. k1 \in Trees
    BY <1>11 DEF RightLinked
  <2> QED
    BY <1>1, <1>6, <2>1, <1>10, Does
<1> HIDE DEF k2
<1>13. RightLinked(k2, b, g, k3)
  <2>1. k2 \in Trees
    BY <1>12 DEF LeftLinked
  <2> QED
    BY <1>1, <1>6, <2>1, Does
<1> HIDE DEF k3
<1>14. Blackened(k3, g, k4)
  <2>1. k3 \in Trees
    BY <1>13 DEF RightLinked
  <2> QED
    BY <1>1, <1>6, <2>1, Does
<1> HIDE DEF k4
<1>15. Freed(k4, n, r)
  <2>1. k4 \in Trees
    BY <1>14 DEF Blackened, Shaped
  <2> QED
    BY <1>1, <1>6, <2>1, Does
<1> HIDE DEF r
<1>16. ASSUME NEW x \in Keys, x # n
      PROVE  /\ r.left[x] = (IF x = p THEN d ELSE w.left[x])
             /\ r.right[x] = (IF x = b THEN g ELSE (IF x = p THEN c ELSE w.right[x]))
             /\ r.up[x] = (IF x = g THEN b
                ELSE (IF x = d THEN p ELSE (IF x = c THEN p ELSE w.up[x])))
             /\ x \in r.nodes <=> x \in w.nodes
             /\ x \in r.red <=> (x # g /\ x \in w.red)
             /\ x \in r.redlink <=> x \in w.redlink
             /\ x \in r.isroot <=> x \in w.isroot
  BY <1>16, <1>11, <1>12, <1>13, <1>14, <1>15
       DEF RightLinked, LeftLinked, Blackened, Shaped, Freed
<1>17. ASSUME NEW x \in s.nodes \ D
      PROVE  /\ r.left[x] = (IF s.left[x] = p THEN m ELSE s.left[x])
             /\ r.right[x] = (IF s.right[x] = p THEN m ELSE s.right[x])
             /\ x \in r.red <=> x \in s.red
             /\ x \in r.redlink <=> x \in s.redlink
             /\ s.up[x] \notin D => r.up[x] = s.up[x]
  <2>1. x \in Keys /\ x \in Ptr /\ x # p /\ x # n /\ x # b /\ x # m /\ x # g
    BY <1>1, <1>6
  <2>2. r.left[x] = (IF s.left[x] = p THEN m ELSE s.left[x])
    <3>1. s.left[x] \notin {n, b, m, g}
      BY <1>5
    <3>2. w1.left[x] = Other(p, n, s.left[x])
      BY <2>1, <1>7 DEF Other, Swapped
    <3>3. w.left[x] = Other(m, n, w1.left[x])
      BY <2>1, <1>8 DEF Other, Swapped
    <3>4. r.left[x] = w.left[x]
      BY <1>16, <2>1
    <3> QED
      BY <1>1, <3>1, <3>2, <3>3, <3>4 DEF Other
  <2>3. r.right[x] = (IF s.right[x] = p THEN m ELSE s.right[x])
    <3>1. s.right[x] \notin {n, b, m, g}
      BY <1>5
    <3>2. w1.right[x] = Other(p, n, s.right[x])
      BY <2>1, <1>7 DEF Other, Swapped
    <3>3. w.right[x] = Other(m, n, w1.right[x])
      BY <2>1, <1>8 DEF Other, Swapped
    <3>4. r.right[x] = w.right[x]
      BY <1>16, <2>1
    <3> QED
      BY <1>1, <3>1, <3>2, <3>3, <3>4 DEF Other
  <2>4. (x \in r.red <=> x \in s.red) /\ (x \in r.redlink <=> x \in s.redlink)
    BY <1>16, <2>1, <1>7, <1>8 DEF Other, Swapped
  <2>5. s.up[x] \notin D => r.up[x] = s.up[x]
    BY <1>1, <1>2, <1>16, <2>1, <1>7, <1>8 DEF Other, Swapped
  <2> QED
    BY <2>2, <2>3, <2>4, <2>5
<1>18. /\ r.left[p] = d /\ r.right[p] = c
       /\ r.left[b] = a /\ r.right[b] = g
       /\ r.left[m] = b /\ r.right[m] = p
       /\ r.left[g] = e /\ r.right[g] = f
  <2>1. r.left[p] = d /\ r.right[p] = c
    BY <1>1, <1>2, <1>3, <1>16, <1>7, <1>8 DEF Other, Swapped
  <2>2. r.left[b] = a /\ r.right[b] = g
    BY <1>1, <1>2, <1>3, <1>16, <1>7, <1>8 DEF Other, Swapped
  <2>3. r.left[m] = b /\ r.right[m] = p
    BY <1>1, <1>2, <1>3, <1>16, <1>7, <1>8 DEF Other, Swapped
  <2>4. r.left[g] = e /\ r.right[g] = f
    BY <1>1, <1>2, <1>3, <1>16, <1>7, <1>8 DEF Other, Swapped
  <2> QED
    BY <2>1, <2>2, <2>3, <2>4
<1>19. /\ r.up[m] = s.up[p] /\ r.up[p] = m /\ r.up[b] = m /\ r.up[g] = b
       /\ a # Null => r.up[a] = b
       /\ c # Null => r.up[c] = p
       /\ d # Null => r.up[d] = p
       /\ e # Null => r.up[e] = g
       /\ f # Null => r.up[f] = g
  <2>1. r.up[m] = s.up[p]
    BY <1>1, <1>2, <1>16, <1>7, <1>8 DEF Other, Swapped
  <2>2. r.up[p] = m
    BY <1>1, <1>2, <1>16, <1>7, <1>8 DEF Other, Swapped
  <2>3. r.up[b] = m
    BY <1>1, <1>2, <1>16, <1>7, <1>8 DEF Other, Swapped
  <2>4. r.up[g] = b
    BY <1>1, <1>2, <1>16, <1>7, <1>8 DEF Other, Swapped
  <2>5. a # Null => r.up[a] = b
    BY <1>1, <1>2, <1>16, <1>7, <1>8 DEF Other, Swapped
  <2>6. c # Null => r.up[c] = p
    BY <1>1, <1>2, <1>16, <1>7, <1>8 DEF Other, Swapped
  <2>7. d # Null => r.up[d] = p
    BY <1>1, <1>2, <1>16, <1>7, <1>8 DEF Other, Swapped
  <2>8. e # Null => r.up[e] = g
    BY <1>1, <1>2, <1>16, <1>7, <1>8 DEF Other, Swapped
  <2>9. f # Null => r.up[f] = g
    BY <1>1, <1>2, <1>16, <1>7, <1>8 DEF Other, Swapped
  <2> QED
    BY <2>1, <2>2, <2>3, <2>4, <2>5, <2>6, <2>7, <2>8, <2>9
<1>20. /\ p \notin r.red /\ (p \in r.redlink <=> n \in s.redlink) /\ b \in r.red
       /\ (b \in r.redlink <=> b \in s.redlink) /\ m \notin r.red /\ m \in r.redlink
       /\ g \notin r.red /\ (g \in r.redlink <=> g \in s.redlink)
  <2>1. p \in Ptr /\ n \in Ptr /\ b \in Ptr /\ m \in Ptr /\ g \in Ptr
    BY <1>1, <1>6
  <2>a. p \in s.redlink
    BY SoundNode DEF RedBroRedNephew, Coloured
  <2>2. p \notin r.red /\ (p \in r.redlink <=> n \in s.redlink)
    BY <1>1, <1>4, <1>16, <2>1, <2>a, <1>7, <1>8 DEF Other, Swapped
  <2>3. b \in r.red /\ (b \in r.redlink <=> b \in s.redlink)
    BY <1>1, <1>4, <1>16, <2>1, <2>a, <1>7, <1>8 DEF Other, Swapped
  <2>4. m \notin r.red /\ m \in r.redlink
    BY <1>1, <1>4, <1>16, <2>1, <2>a, <1>7, <1>8 DEF Other, Swapped
  <2>5. g \notin r.red /\ (g \in r.redlink <=> g \in s.redlink)
    BY <1>1, <1>4, <1>16, <2>1, <2>a, <1>7, <1>8 DEF Other, Swapped
  <2> QED
    BY <2>2, <2>3, <2>4, <2>5
<1>21. r \in Trees /\ r.nodes = s.nodes \ {n}
  <2>1. r \in Trees
    BY <1>15 DEF Freed
  <2>2. n \notin r.nodes
    BY <1>15 DEF Freed
  <2>3. \A x \in Keys : x # n => (x \in r.nodes <=> x \in s.nodes)
    BY <1>1, <1>4, <1>16, <1>7, <1>8 DEF Other, Swapped
  <2> QED
    BY <1>1, <2>1, <2>2, <2>3 DEF Trees
<1>22. r.isroot = {IF top = p THEN m ELSE top}
  <2>1. r.isroot \subseteq Keys /\ top \in Keys
    BY <1>21 DEF Trees
  <2>2. n \notin r.isroot
    BY <1>15 DEF Freed
  <2>3. \A x \in Keys : x # n => (x \in r.isroot <=> x = (IF top = p THEN m ELSE top))
    BY <1>1, <1>6, <1>16, <1>7, <1>8 DEF Other, Swapped
  <2> QED
    BY <1>1, <2>1, <2>2, <2>3
<1>23. TakenFromNephew(s, r, p, n, b, m, g)
  <2>1. Turned(s, r, {p, n, b, m, g}, p, m)
    BY <1>17 DEF Turned
  <2>2. a = s.left[b] /\ c = s.left[n] /\ d = s.right[m] /\ e = s.left[g] /\ f = s.right[g]
    BY DEF a, c, d, e, f
  <2> HIDE DEF D
  <2> QED
    BY <1>18, <1>19, <1>20, <1>21, <2>1, <2>2 DEF TakenFromNephew
<1> HIDE DEF D
<1> QED
  BY <1>a, <1>22, <1>23

(* The steps of RemoveRedBro on the structure.                             *)
ToTakenFromRed(s, p, n, b, m) ==
  LET w1 == Swap(s, p, n)
      w == Swap(w1, n, b)
      k1 == LinkRight(w, p, w.left[p])
      k2 == LinkLeft(k1, b, w.left[n])
      k3 == LinkLeft(k2, p, m)
      k4 == SetBlackLink(k3, b)
      k5 == SetRed(k4, m)
      k6 == SetRedLink(k5, p)
  IN Free(k6, n)

(* They have this result.                                                  *)
LEMMA TakenFromRedIs ==
  ASSUME NEW s, NEW top, NEW lo, NEW hi, NEW h, s \in Trees, Labels(lo, hi, h),
         NEW p, NEW n, NEW b, NEW m, Sound(s, top, lo, hi, h, n, Null), RedBro(s, p, n, b, m),
         s.isroot = {top}
  PROVE  TakenFromRed(s, ToTakenFromRed(s, p, n, b, m), p, n, b, m)
       /\ ToTakenFromRed(s, p, n, b, m).isroot = {IF top = p THEN b ELSE top}
<1> DEFINE w1 == Swap(s, p, n)
           w == Swap(w1, n, b)
           k1 == LinkRight(w, p, w.left[p])
           k2 == LinkLeft(k1, b, w.left[n])
           k3 == LinkLeft(k2, p, m)
           k4 == SetBlackLink(k3, b)
           k5 == SetRed(k4, m)
           k6 == SetRedLink(k5, p)
           r == Free(k6, n)
           D == {p, n, b, m}
           a == s.left[b]
           c == s.left[n]
           d == s.left[m]
           e == s.right[m]
<1>a. r = ToTakenFromRed(s, p, n, b, m)
  BY DEF ToTakenFromRed
<1>0. RedBroAround(s, top, lo, hi, h, p, n, b, m)
  BY RedBroApart
<1>1. /\ p \in Keys /\ p # Null /\ n \in Keys /\ n # Null /\ b \in Keys /\ b # Null
         /\ m \in Keys /\ m # Null
      /\ Null \notin Keys /\ s.nodes \subseteq Keys /\ Null \notin s.nodes /\ Null \notin s.red
      /\ p # n /\ p # b /\ p # m /\ n # b /\ n # m /\ b # m /\ n # top /\ b # top /\ m # top
      /\ s.up[n] = p /\ s.up[b] = p /\ s.up[m] = b
  BY <1>0 DEF RedBroAround
<1>2. /\ a \in s.nodes \cup {Null}
         /\ (a # Null => a \in s.nodes \ D /\ a \in Keys /\ s.up[a] = b)
      /\ c \in s.nodes \cup {Null}
         /\ (c # Null => c \in s.nodes \ D /\ c \in Keys /\ s.up[c] = n)
      /\ d \in s.nodes \cup {Null}
         /\ (d # Null => d \in s.nodes \ D /\ d \in Keys /\ s.up[d] = m)
      /\ e \in s.nodes \cup {Null}
         /\ (e # Null => e \in s.nodes \ D /\ e \in Keys /\ s.up[e] = m)
      /\ s.up[p] \notin D /\ (d # Null => d # e)
  BY <1>0 DEF RedBroAround
<1>3. /\ s.left[p] = b /\ s.right[p] = n
      /\ s.left[n] = c /\ s.right[n] = c
      /\ s.left[b] = a /\ s.right[b] = m
      /\ s.left[m] = d /\ s.right[m] = e
  <2>1. Linked(s, n)
    BY SoundLinked
  <2>2. s.right[n] = s.left[n]
    BY <2>1 DEF Linked, RedBro
  <2> QED
    BY <2>2 DEF RedBro
<1>4. /\ p \in s.nodes /\ n \in s.nodes /\ b \in s.nodes /\ m \in s.nodes /\ p \notin s.red
      /\ n \notin s.red /\ b \in s.red /\ m \notin s.red /\ m \notin s.redlink
  BY DEF RedBro
<1>5. \A x \in s.nodes \ D : s.left[x] \notin {n, b, m} /\ s.right[x] \notin {n, b, m}
  <2>1. Linked(s, n)
    BY SoundLinked
  <2> QED
    BY <1>1, <1>4, <2>1 DEF Linked
<1>6. Keys \subseteq Ptr /\ Null \in Ptr /\ a \in Ptr /\ c \in Ptr /\ d \in Ptr /\ e \in Ptr
  <2> HIDE DEF a, c, d, e
  <2> QED
    BY <1>1, <1>2 DEF Ptr
<1>7. Swapped(s, p, n, w1)
  <2> QED
    BY <1>1, <1>6, Does
<1> HIDE DEF w1
<1>8. Swapped(w1, n, b, w)
  <2>1. w1 \in Trees
    BY <1>7 DEF Swapped
  <2> QED
    BY <1>1, <1>6, <2>1, Does
<1> HIDE DEF w
<1> HIDE DEF a, c, d, e
<1>9. w.left[p] = c
  BY <1>1, <1>2, <1>3, <1>6, <1>7, <1>8 DEF Swapped, Other
<1>10. w.left[n] = a
  BY <1>1, <1>2, <1>3, <1>6, <1>7, <1>8 DEF Swapped, Other
<1>11. RightLinked(w, p, c, k1)
  <2>1. w \in Trees
    BY <1>8 DEF Swapped
  <2> QED
    BY <1>1, <1>6, <2>1, <1>9, Does
<1> HIDE DEF k1
<1>12. LeftLinked(k1, b, a, k2)
  <2>1. k1 \in Trees
    BY <1>11 DEF RightLinked
  <2> QED
    BY <1>1, <1>6, <2>1, <1>10, Does
<1> HIDE DEF k2
<1>13. LeftLinked(k2, p, m, k3)
  <2>1. k2 \in Trees
    BY <1>12 DEF LeftLinked
  <2> QED
    BY <1>1, <1>6, <2>1, Does
<1> HIDE DEF k3
<1>14. BlackLinked(k3, b, k4)
  <2>1. k3 \in Trees
    BY <1>13 DEF LeftLinked
  <2> QED
    BY <1>1, <1>6, <2>1, Does
<1> HIDE DEF k4
<1>15. Reddened(k4, m, k5)
  <2>1. k4 \in Trees
    BY <1>14 DEF BlackLinked, Shaped
  <2> QED
    BY <1>1, <1>6, <2>1, Does
<1> HIDE DEF k5
<1>16. RedLinked(k5, p, k6)
  <2>1. k5 \in Trees
    BY <1>15 DEF Reddened, Shaped
  <2> QED
    BY <1>1, <1>6, <2>1, Does
<1> HIDE DEF k6
<1>17. Freed(k6, n, r)
  <2>1. k6 \in Trees
    BY <1>16 DEF RedLinked, Shaped
  <2> QED
    BY <1>1, <1>6, <2>1, Does
<1> HIDE DEF r
<1>18. ASSUME NEW x \in Keys, x # n
      PROVE  /\ r.left[x] = (IF x = p THEN m ELSE (IF x = b THEN a ELSE w.left[x]))
             /\ r.right[x] = (IF x = p THEN c ELSE w.right[x])
             /\ r.up[x] = (IF x = m THEN p
                ELSE (IF x = a THEN b ELSE (IF x = c THEN p ELSE w.up[x])))
             /\ x \in r.nodes <=> x \in w.nodes
             /\ x \in r.red <=> (x = m \/ x \in w.red)
             /\ x \in r.redlink <=> (x = p \/ (x # b /\ x \in w.redlink))
             /\ x \in r.isroot <=> x \in w.isroot
  BY <1>18, <1>11, <1>12, <1>13, <1>14, <1>15, <1>16, <1>17
       DEF RightLinked, LeftLinked, BlackLinked, Shaped, Reddened, RedLinked, Freed
<1>19. ASSUME NEW x \in s.nodes \ D
      PROVE  /\ r.left[x] = (IF s.left[x] = p THEN b ELSE s.left[x])
             /\ r.right[x] = (IF s.right[x] = p THEN b ELSE s.right[x])
             /\ x \in r.red <=> x \in s.red
             /\ x \in r.redlink <=> x \in s.redlink
             /\ s.up[x] \notin D => r.up[x] = s.up[x]
  <2>1. x \in Keys /\ x \in Ptr /\ x # p /\ x # n /\ x # b /\ x # m
    BY <1>1, <1>6
  <2>2. r.left[x] = (IF s.left[x] = p THEN b ELSE s.left[x])
    <3>1. s.left[x] \notin {n, b, m}
      BY <1>5
    <3>2. w1.left[x] = Other(p, n, s.left[x])
      BY <2>1, <1>7 DEF Other, Swapped
    <3>3. w.left[x] = Other(n, b, w1.left[x])
      BY <2>1, <1>8 DEF Other, Swapped
    <3>4. r.left[x] = w.left[x]
      BY <1>18, <2>1
    <3> QED
      BY <1>1, <3>1, <3>2, <3>3, <3>4 DEF Other
  <2>3. r.right[x] = (IF s.right[x] = p THEN b ELSE s.right[x])
    <3>1. s.right[x] \notin {n, b, m}
      BY <1>5
    <3>2. w1.right[x] = Other(p, n, s.right[x])
      BY <2>1, <1>7 DEF Other, Swapped
    <3>3. w.right[x] = Other(n, b, w1.right[x])
      BY <2>1, <1>8 DEF Other, Swapped
    <3>4. r.right[x] = w.right[x]
      BY <1>18, <2>1
    <3> QED
      BY <1>1, <3>1, <3>2, <3>3, <3>4 DEF Other
  <2>4. (x \in r.red <=> x \in s.red) /\ (x \in r.redlink <=> x \in s.redlink)
    BY <1>18, <2>1, <1>7, <1>8 DEF Other, Swapped
  <2>5. s.up[x] \notin D => r.up[x] = s.up[x]
    BY <1>1, <1>2, <1>18, <2>1, <1>7, <1>8 DEF Other, Swapped
  <2> QED
    BY <2>2, <2>3, <2>4, <2>5
<1>20. /\ r.left[p] = m /\ r.right[p] = c
       /\ r.left[b] = a /\ r.right[b] = p
       /\ r.left[m] = d /\ r.right[m] = e
  <2>1. r.left[p] = m /\ r.right[p] = c
    BY <1>1, <1>2, <1>3, <1>18, <1>7, <1>8 DEF Other, Swapped
  <2>2. r.left[b] = a /\ r.right[b] = p
    BY <1>1, <1>2, <1>3, <1>18, <1>7, <1>8 DEF Other, Swapped
  <2>3. r.left[m] = d /\ r.right[m] = e
    BY <1>1, <1>2, <1>3, <1>18, <1>7, <1>8 DEF Other, Swapped
  <2> QED
    BY <2>1, <2>2, <2>3
<1>21. /\ r.up[b] = s.up[p] /\ r.up[p] = b /\ r.up[m] = p
       /\ a # Null => r.up[a] = b
       /\ c # Null => r.up[c] = p
       /\ d # Null => r.up[d] = m
       /\ e # Null => r.up[e] = m
  <2>1. r.up[b] = s.up[p]
    BY <1>1, <1>2, <1>18, <1>7, <1>8 DEF Other, Swapped
  <2>2. r.up[p] = b
    BY <1>1, <1>2, <1>18, <1>7, <1>8 DEF Other, Swapped
  <2>3. r.up[m] = p
    BY <1>1, <1>2, <1>18, <1>7, <1>8 DEF Other, Swapped
  <2>4. a # Null => r.up[a] = b
    BY <1>1, <1>2, <1>18, <1>7, <1>8 DEF Other, Swapped
  <2>5. c # Null => r.up[c] = p
    BY <1>1, <1>2, <1>18, <1>7, <1>8 DEF Other, Swapped
  <2>6. d # Null => r.up[d] = m
    BY <1>1, <1>2, <1>18, <1>7, <1>8 DEF Other, Swapped
  <2>7. e # Null => r.up[e] = m
    BY <1>1, <1>2, <1>18, <1>7, <1>8 DEF Other, Swapped
  <2> QED
    BY <2>1, <2>2, <2>3, <2>4, <2>5, <2>6, <2>7
<1>22. /\ p \notin r.red /\ p \in r.redlink /\ b \notin r.red /\ b \notin r.redlink
          /\ m \in r.red
       /\ (m \in r.redlink <=> m \in s.redlink)
  <2>1. p \in Ptr /\ n \in Ptr /\ b \in Ptr /\ m \in Ptr
    BY <1>1, <1>6
  <2>2. p \notin r.red /\ p \in r.redlink
    BY <1>1, <1>4, <1>18, <2>1, <1>7, <1>8 DEF Other, Swapped
  <2>3. b \notin r.red /\ b \notin r.redlink
    BY <1>1, <1>4, <1>18, <2>1, <1>7, <1>8 DEF Other, Swapped
  <2>4. m \in r.red /\ (m \in r.redlink <=> m \in s.redlink)
    BY <1>1, <1>4, <1>18, <2>1, <1>7, <1>8 DEF Other, Swapped
  <2> QED
    BY <2>2, <2>3, <2>4
<1>23. r \in Trees /\ r.nodes = s.nodes \ {n}
  <2>1. r \in Trees
    BY <1>17 DEF Freed
  <2>2. n \notin r.nodes
    BY <1>17 DEF Freed
  <2>3. \A x \in Keys : x # n => (x \in r.nodes <=> x \in s.nodes)
    BY <1>1, <1>4, <1>18, <1>7, <1>8 DEF Other, Swapped
  <2> QED
    BY <1>1, <2>1, <2>2, <2>3 DEF Trees
<1>24. r.isroot = {IF top = p THEN b ELSE top}
  <2>1. r.isroot \subseteq Keys /\ top \in Keys
    BY <1>23 DEF Trees
  <2>2. n \notin r.isroot
    BY <1>17 DEF Freed
  <2>3. \A x \in Keys : x # n => (x \in r.isroot <=> x = (IF top = p THEN b ELSE top))
    BY <1>1, <1>6, <1>18, <1>7, <1>8 DEF Other, Swapped
  <2> QED
    BY <1>1, <2>1, <2>2, <2>3
<1>25. TakenFromRed(s, r, p, n, b, m)
  <2>1. Turned(s, r, {p, n, b, m}, p, b)
    BY <1>19 DEF Turned
  <2>2. a = s.left[b] /\ c = s.left[n] /\ d = s.left[m] /\ e = s.right[m]
    BY DEF a, c, d, e
  <2> HIDE DEF D
  <2> QED
    BY <1>20, <1>21, <1>22, <1>23, <2>1, <2>2 DEF TakenFromRed
<1> HIDE DEF D
<1> QED
  BY <1>a, <1>24, <1>25

(* The steps of RemoveLeftBorrow on the structure.                         *)
ToBorrowedLeft(s, p, n, b, m) ==
  LET w1 == Swap(s, n, p)
      w == Swap(w1, n, m)
      k1 == LinkRight(w, p, w.left[n])
      k2 == LinkLeft(k1, b, w.right[n])
      k3 == SetBlackLink(k2, b)
  IN Free(k3, n)

(* They have this result.                                                  *)
LEMMA BorrowedLeftIs ==
  ASSUME NEW s, NEW top, NEW lo, NEW hi, NEW h, s \in Trees, Labels(lo, hi, h),
         NEW p, NEW n, NEW b, NEW m, Sound(s, top, lo, hi, h, n, Null),
         LeftBorrow(s, p, n, b, m),
         s.isroot = {top}
  PROVE  BorrowedLeft(s, ToBorrowedLeft(s, p, n, b, m), p, n, b, m)
       /\ ToBorrowedLeft(s, p, n, b, m).isroot = {IF top = p THEN m ELSE top}
<1> DEFINE w1 == Swap(s, n, p)
           w == Swap(w1, n, m)
           k1 == LinkRight(w, p, w.left[n])
           k2 == LinkLeft(k1, b, w.right[n])
           k3 == SetBlackLink(k2, b)
           r == Free(k3, n)
           D == {p, n, b, m}
           c == s.left[n]
           f == s.right[b]
           d == s.left[m]
           e == s.right[m]
<1>a. r = ToBorrowedLeft(s, p, n, b, m)
  BY DEF ToBorrowedLeft
<1>0. LeftBorrowAround(s, top, lo, hi, h, p, n, b, m)
  BY LeftBorrowApart
<1>1. /\ p \in Keys /\ p # Null /\ n \in Keys /\ n # Null /\ b \in Keys /\ b # Null
         /\ m \in Keys /\ m # Null
      /\ Null \notin Keys /\ s.nodes \subseteq Keys /\ Null \notin s.nodes /\ Null \notin s.red
      /\ p # n /\ p # b /\ p # m /\ n # b /\ n # m /\ b # m /\ n # top /\ b # top /\ m # top
      /\ s.up[n] = p /\ s.up[b] = p /\ s.up[m] = b
  BY <1>0 DEF LeftBorrowAround
<1>2. /\ c \in s.nodes \cup {Null}
         /\ (c # Null => c \in s.nodes \ D /\ c \in Keys /\ s.up[c] = n)
      /\ f \in s.nodes \cup {Null}
         /\ (f # Null => f \in s.nodes \ D /\ f \in Keys /\ s.up[f] = b)
      /\ d \in s.nodes \cup {Null}
         /\ (d # Null => d \in s.nodes \ D /\ d \in Keys /\ s.up[d] = m)
      /\ e \in s.nodes \cup {Null}
         /\ (e # Null => e \in s.nodes \ D /\ e \in Keys /\ s.up[e] = m)
      /\ s.up[p] \notin D /\ (d # Null => d # e)
  BY <1>0 DEF LeftBorrowAround
<1>3. /\ s.left[p] = n /\ s.right[p] = b
      /\ s.left[n] = c /\ s.right[n] = c
      /\ s.left[b] = m /\ s.right[b] = f
      /\ s.left[m] = d /\ s.right[m] = e
  <2>1. Linked(s, n)
    BY SoundLinked
  <2>2. s.right[n] = s.left[n]
    BY <2>1 DEF Linked, LeftBorrow
  <2> QED
    BY <2>2 DEF LeftBorrow
<1>4. /\ p \in s.nodes /\ n \in s.nodes /\ b \in s.nodes /\ m \in s.nodes /\ n \notin s.red
      /\ b \notin s.red /\ b \in s.redlink /\ m \in s.red
  BY DEF LeftBorrow
<1>5. \A x \in s.nodes \ D : s.left[x] \notin {n, b, m} /\ s.right[x] \notin {n, b, m}
  <2>1. Linked(s, n)
    BY SoundLinked
  <2> QED
    BY <1>1, <1>4, <2>1 DEF Linked
<1>6. Keys \subseteq Ptr /\ Null \in Ptr /\ c \in Ptr /\ f \in Ptr /\ d \in Ptr /\ e \in Ptr
  <2> HIDE DEF c, f, d, e
  <2> QED
    BY <1>1, <1>2 DEF Ptr
<1>7. Swapped(s, n, p, w1)
  <2> QED
    BY <1>1, <1>6, Does
<1> HIDE DEF w1
<1>8. Swapped(w1, n, m, w)
  <2>1. w1 \in Trees
    BY <1>7 DEF Swapped
  <2> QED
    BY <1>1, <1>6, <2>1, Does
<1> HIDE DEF w
<1> HIDE DEF c, f, d, e
<1>9. w.left[n] = d
  BY <1>1, <1>2, <1>3, <1>6, <1>7, <1>8 DEF Swapped, Other
<1>10. w.right[n] = e
  BY <1>1, <1>2, <1>3, <1>6, <1>7, <1>8 DEF Swapped, Other
<1>11. RightLinked(w, p, d, k1)
  <2>1. w \in Trees
    BY <1>8 DEF Swapped
  <2> QED
    BY <1>1, <1>6, <2>1, <1>9, Does
<1> HIDE DEF k1
<1>12. LeftLinked(k1, b, e, k2)
  <2>1. k1 \in Trees
    BY <1>11 DEF RightLinked
  <2> QED
    BY <1>1, <1>6, <2>1, <1>10, Does
<1> HIDE DEF k2
<1>13. BlackLinked(k2, b, k3)
  <2>1. k2 \in Trees
    BY <1>12 DEF LeftLinked
  <2> QED
    BY <1>1, <1>6, <2>1, Does
<1> HIDE DEF k3
<1>14. Freed(k3, n, r)
  <2>1. k3 \in Trees
    BY <1>13 DEF BlackLinked, Shaped
  <2> QED
    BY <1>1, <1>6, <2>1, Does
<1> HIDE DEF r
<1>15. ASSUME NEW x \in Keys, x # n
      PROVE  /\ r.left[x] = (IF x = b THEN e ELSE w.left[x])
             /\ r.right[x] = (IF x = p THEN d ELSE w.right[x])
             /\ r.up[x] = (IF x = e THEN b ELSE (IF x = d THEN p ELSE w.up[x]))
             /\ x \in r.nodes <=> x \in w.nodes
             /\ x \in r.red <=> x \in w.red
             /\ x \in r.redlink <=> (x # b /\ x \in w.redlink)
             /\ x \in r.isroot <=> x \in w.isroot
  BY <1>15, <1>11, <1>12, <1>13, <1>14 DEF RightLinked, LeftLinked, BlackLinked, Shaped, Freed
<1>16. ASSUME NEW x \in s.nodes \ D
      PROVE  /\ r.left[x] = (IF s.left[x] = p THEN m ELSE s.left[x])
             /\ r.right[x] = (IF s.right[x] = p THEN m ELSE s.right[x])
             /\ x \in r.red <=> x \in s.red
             /\ x \in r.redlink <=> x \in s.redlink
             /\ s.up[x] \notin D => r.up[x] = s.up[x]
  <2>1. x \in Keys /\ x \in Ptr /\ x # p /\ x # n /\ x # b /\ x # m
    BY <1>1, <1>6
  <2>2. r.left[x] = (IF s.left[x] = p THEN m ELSE s.left[x])
    <3>1. s.left[x] \notin {n, b, m}
      BY <1>5
    <3>2. w1.left[x] = Other(n, p, s.left[x])
      BY <2>1, <1>7 DEF Other, Swapped
    <3>3. w.left[x] = Other(n, m, w1.left[x])
      BY <2>1, <1>8 DEF Other, Swapped
    <3>4. r.left[x] = w.left[x]
      BY <1>15, <2>1
    <3> QED
      BY <1>1, <3>1, <3>2, <3>3, <3>4 DEF Other
  <2>3. r.right[x] = (IF s.right[x] = p THEN m ELSE s.right[x])
    <3>1. s.right[x] \notin {n, b, m}
      BY <1>5
    <3>2. w1.right[x] = Other(n, p, s.right[x])
      BY <2>1, <1>7 DEF Other, Swapped
    <3>3. w.right[x] = Other(n, m, w1.right[x])
      BY <2>1, <1>8 DEF Other, Swapped
    <3>4. r.right[x] = w.right[x]
      BY <1>15, <2>1
    <3> QED
      BY <1>1, <3>1, <3>2, <3>3, <3>4 DEF Other
  <2>4. (x \in r.red <=> x \in s.red) /\ (x \in r.redlink <=> x \in s.redlink)
    BY <1>15, <2>1, <1>7, <1>8 DEF Other, Swapped
  <2>5. s.up[x] \notin D => r.up[x] = s.up[x]
    BY <1>1, <1>2, <1>15, <2>1, <1>7, <1>8 DEF Other, Swapped
  <2> QED
    BY <2>2, <2>3, <2>4, <2>5
<1>17. /\ r.left[p] = c /\ r.right[p] = d
       /\ r.left[b] = e /\ r.right[b] = f
       /\ r.left[m] = p /\ r.right[m] = b
  <2>1. r.left[p] = c /\ r.right[p] = d
    BY <1>1, <1>2, <1>3, <1>15, <1>7, <1>8 DEF Other, Swapped
  <2>2. r.left[b] = e /\ r.right[b] = f
    BY <1>1, <1>2, <1>3, <1>15, <1>7, <1>8 DEF Other, Swapped
  <2>3. r.left[m] = p /\ r.right[m] = b
    BY <1>1, <1>2, <1>3, <1>15, <1>7, <1>8 DEF Other, Swapped
  <2> QED
    BY <2>1, <2>2, <2>3
<1>18. /\ r.up[m] = s.up[p] /\ r.up[p] = m /\ r.up[b] = m
       /\ c # Null => r.up[c] = p
       /\ f # Null => r.up[f] = b
       /\ d # Null => r.up[d] = p
       /\ e # Null => r.up[e] = b
  <2>1. r.up[m] = s.up[p]
    BY <1>1, <1>2, <1>15, <1>7, <1>8 DEF Other, Swapped
  <2>2. r.up[p] = m
    BY <1>1, <1>2, <1>15, <1>7, <1>8 DEF Other, Swapped
  <2>3. r.up[b] = m
    BY <1>1, <1>2, <1>15, <1>7, <1>8 DEF Other, Swapped
  <2>4. c # Null => r.up[c] = p
    BY <1>1, <1>2, <1>15, <1>7, <1>8 DEF Other, Swapped
  <2>5. f # Null => r.up[f] = b
    BY <1>1, <1>2, <1>15, <1>7, <1>8 DEF Other, Swapped
  <2>6. d # Null => r.up[d] = p
    BY <1>1, <1>2, <1>15, <1>7, <1>8 DEF Other, Swapped
  <2>7. e # Null => r.up[e] = b
    BY <1>1, <1>2, <1>15, <1>7, <1>8 DEF Other, Swapped
  <2> QED
    BY <2>1, <2>2, <2>3, <2>4, <2>5, <2>6, <2>7
<1>19. /\ p \notin r.red /\ (p \in r.redlink <=> n \in s.redlink) /\ b \notin r.red
       /\ b \notin r.redlink /\ (m \in r.red <=> p \in s.red)
       /\ (m \in r.redlink <=> p \in s.redlink)
  <2>1. p \in Ptr /\ n \in Ptr /\ b \in Ptr /\ m \in Ptr
    BY <1>1, <1>6
  <2>2. p \notin r.red /\ (p \in r.redlink <=> n \in s.redlink)
    BY <1>1, <1>4, <1>15, <2>1, <1>7, <1>8 DEF Other, Swapped
  <2>3. b \notin r.red /\ b \notin r.redlink
    BY <1>1, <1>4, <1>15, <2>1, <1>7, <1>8 DEF Other, Swapped
  <2>4. (m \in r.red <=> p \in s.red) /\ (m \in r.redlink <=> p \in s.redlink)
    BY <1>1, <1>4, <1>15, <2>1, <1>7, <1>8 DEF Other, Swapped
  <2> QED
    BY <2>2, <2>3, <2>4
<1>20. r \in Trees /\ r.nodes = s.nodes \ {n}
  <2>1. r \in Trees
    BY <1>14 DEF Freed
  <2>2. n \notin r.nodes
    BY <1>14 DEF Freed
  <2>3. \A x \in Keys : x # n => (x \in r.nodes <=> x \in s.nodes)
    BY <1>1, <1>4, <1>15, <1>7, <1>8 DEF Other, Swapped
  <2> QED
    BY <1>1, <2>1, <2>2, <2>3 DEF Trees
<1>21. r.isroot = {IF top = p THEN m ELSE top}
  <2>1. r.isroot \subseteq Keys /\ top \in Keys
    BY <1>20 DEF Trees
  <2>2. n \notin r.isroot
    BY <1>14 DEF Freed
  <2>3. \A x \in Keys : x # n => (x \in r.isroot <=> x = (IF top = p THEN m ELSE top))
    BY <1>1, <1>6, <1>15, <1>7, <1>8 DEF Other, Swapped
  <2> QED
    BY <1>1, <2>1, <2>2, <2>3
<1>22. BorrowedLeft(s, r, p, n, b, m)
  <2>1. Turned(s, r, {p, n, b, m}, p, m)
    BY <1>16 DEF Turned
  <2>2. c = s.left[n] /\ f = s.right[b] /\ d = s.left[m] /\ e = s.right[m]
    BY DEF c, f, d, e
  <2> HIDE DEF D
  <2> QED
    BY <1>17, <1>18, <1>19, <1>20, <2>1, <2>2 DEF BorrowedLeft
<1> HIDE DEF D
<1> QED
  BY <1>a, <1>21, <1>22

(* The steps of RemoveRightBorrow on the structure.                        *)
ToBorrowedRight(s, p, n, b, m) ==
  LET w1 == Swap(s, b, p)
      w == Swap(w1, n, p)
      k1 == LinkLeft(w, b, m)
      k2 == LinkLeft(k1, p, w.right[n])
      k3 == SetBlack(k2, m)
  IN Free(k3, n)

(* They have this result.                                                  *)
LEMMA BorrowedRightIs ==
  ASSUME NEW s, NEW top, NEW lo, NEW hi, NEW h, s \in Trees, Labels(lo, hi, h),
         NEW p, NEW n, NEW b, NEW m, Sound(s, top, lo, hi, h, n, Null),
         RightBorrow(s, p, n, b, m),
         s.isroot = {top}
  PROVE  BorrowedRight(s, ToBorrowedRight(s, p, n, b, m), p, n, b, m)
       /\ ToBorrowedRight(s, p, n, b, m).isroot = {IF top = p THEN b ELSE top}
<1> DEFINE w1 == Swap(s, b, p)
           w == Swap(w1, n, p)
           k1 == LinkLeft(w, b, m)
           k2 == LinkLeft(k1, p, w.right[n])
           k3 == SetBlack(k2, m)
           r == Free(k3, n)
           D == {p, n, b, m}
           f == s.right[b]
           c == s.left[n]
           d == s.left[m]
           e == s.right[m]
<1>a. r = ToBorrowedRight(s, p, n, b, m)
  BY DEF ToBorrowedRight
<1>0. RightBorrowAround(s, top, lo, hi, h, p, n, b, m)
  BY RightBorrowApart
<1>1. /\ p \in Keys /\ p # Null /\ n \in Keys /\ n # Null /\ b \in Keys /\ b # Null
         /\ m \in Keys /\ m # Null
      /\ Null \notin Keys /\ s.nodes \subseteq Keys /\ Null \notin s.nodes /\ Null \notin s.red
      /\ p # n /\ p # b /\ p # m /\ n # b /\ n # m /\ b # m /\ n # top /\ b # top /\ m # top
      /\ s.up[n] = p /\ s.up[b] = p /\ s.up[m] = b
  BY <1>0 DEF RightBorrowAround
<1>2. /\ f \in s.nodes \cup {Null}
         /\ (f # Null => f \in s.nodes \ D /\ f \in Keys /\ s.up[f] = b)
      /\ c \in s.nodes \cup {Null}
         /\ (c # Null => c \in s.nodes \ D /\ c \in Keys /\ s.up[c] = n)
      /\ d \in s.nodes \cup {Null}
         /\ (d # Null => d \in s.nodes \ D /\ d \in Keys /\ s.up[d] = m)
      /\ e \in s.nodes \cup {Null}
         /\ (e # Null => e \in s.nodes \ D /\ e \in Keys /\ s.up[e] = m)
      /\ s.up[p] \notin D /\ (d # Null => d # e)
  BY <1>0 DEF RightBorrowAround
<1>3. /\ s.left[p] = b /\ s.right[p] = n
      /\ s.left[n] = c /\ s.right[n] = c
      /\ s.left[b] = m /\ s.right[b] = f
      /\ s.left[m] = d /\ s.right[m] = e
  <2>1. Linked(s, n)
    BY SoundLinked
  <2>2. s.right[n] = s.left[n]
    BY <2>1 DEF Linked, RightBorrow
  <2> QED
    BY <2>2 DEF RightBorrow
<1>4. /\ p \in s.nodes /\ n \in s.nodes /\ b \in s.nodes /\ m \in s.nodes /\ n \notin s.red
      /\ b \notin s.red /\ b \in s.redlink /\ m \in s.red
  BY DEF RightBorrow
<1>5. \A x \in s.nodes \ D : s.left[x] \notin {n, b, m} /\ s.right[x] \notin {n, b, m}
  <2>1. Linked(s, n)
    BY SoundLinked
  <2> QED
    BY <1>1, <1>4, <2>1 DEF Linked
<1>6. Keys \subseteq Ptr /\ Null \in Ptr /\ f \in Ptr /\ c \in Ptr /\ d \in Ptr /\ e \in Ptr
  <2> HIDE DEF f, c, d, e
  <2> QED
    BY <1>1, <1>2 DEF Ptr
<1>7. Swapped(s, b, p, w1)
  <2> QED
    BY <1>1, <1>6, Does
<1> HIDE DEF w1
<1>8. Swapped(w1, n, p, w)
  <2>1. w1 \in Trees
    BY <1>7 DEF Swapped
  <2> QED
    BY <1>1, <1>6, <2>1, Does
<1> HIDE DEF w
<1> HIDE DEF f, c, d, e
<1>9. w.right[n] = f
  BY <1>1, <1>2, <1>3, <1>6, <1>7, <1>8 DEF Swapped, Other
<1>10. LeftLinked(w, b, m, k1)
  <2>1. w \in Trees
    BY <1>8 DEF Swapped
  <2> QED
    BY <1>1, <1>6, <2>1, Does
<1> HIDE DEF k1
<1>11. LeftLinked(k1, p, f, k2)
  <2>1. k1 \in Trees
    BY <1>10 DEF LeftLinked
  <2> QED
    BY <1>1, <1>6, <2>1, <1>9, Does
<1> HIDE DEF k2
<1>12. Blackened(k2, m, k3)
  <2>1. k2 \in Trees
    BY <1>11 DEF LeftLinked
  <2> QED
    BY <1>1, <1>6, <2>1, Does
<1> HIDE DEF k3
<1>13. Freed(k3, n, r)
  <2>1. k3 \in Trees
    BY <1>12 DEF Blackened, Shaped
  <2> QED
    BY <1>1, <1>6, <2>1, Does
<1> HIDE DEF r
<1>14. ASSUME NEW x \in Keys, x # n
      PROVE  /\ r.left[x] = (IF x = p THEN f ELSE (IF x = b THEN m ELSE w.left[x]))
             /\ r.right[x] = w.right[x]
             /\ r.up[x] = (IF x = f THEN p ELSE (IF x = m THEN b ELSE w.up[x]))
             /\ x \in r.nodes <=> x \in w.nodes
             /\ x \in r.red <=> (x # m /\ x \in w.red)
             /\ x \in r.redlink <=> x \in w.redlink
             /\ x \in r.isroot <=> x \in w.isroot
  BY <1>14, <1>10, <1>11, <1>12, <1>13 DEF LeftLinked, Blackened, Shaped, Freed
<1>15. ASSUME NEW x \in s.nodes \ D
      PROVE  /\ r.left[x] = (IF s.left[x] = p THEN b ELSE s.left[x])
             /\ r.right[x] = (IF s.right[x] = p THEN b ELSE s.right[x])
             /\ x \in r.red <=> x \in s.red
             /\ x \in r.redlink <=> x \in s.redlink
             /\ s.up[x] \notin D => r.up[x] = s.up[x]
  <2>1. x \in Keys /\ x \in Ptr /\ x # p /\ x # n /\ x # b /\ x # m
    BY <1>1, <1>6
  <2>2. r.left[x] = (IF s.left[x] = p THEN b ELSE s.left[x])
    <3>1. s.left[x] \notin {n, b, m}
      BY <1>5
    <3>2. w1.left[x] = Other(b, p, s.left[x])
      BY <2>1, <1>7 DEF Other, Swapped
    <3>3. w.left[x] = Other(n, p, w1.left[x])
      BY <2>1, <1>8 DEF Other, Swapped
    <3>4. r.left[x] = w.left[x]
      BY <1>14, <2>1
    <3> QED
      BY <1>1, <3>1, <3>2, <3>3, <3>4 DEF Other
  <2>3. r.right[x] = (IF s.right[x] = p THEN b ELSE s.right[x])
    <3>1. s.right[x] \notin {n, b, m}
      BY <1>5
    <3>2. w1.right[x] = Other(b, p, s.right[x])
      BY <2>1, <1>7 DEF Other, Swapped
    <3>3. w.right[x] = Other(n, p, w1.right[x])
      BY <2>1, <1>8 DEF Other, Swapped
    <3>4. r.right[x] = w.right[x]
      BY <1>14, <2>1
    <3> QED
      BY <1>1, <3>1, <3>2, <3>3, <3>4 DEF Other
  <2>4. (x \in r.red <=> x \in s.red) /\ (x \in r.redlink <=> x \in s.redlink)
    BY <1>14, <2>1, <1>7, <1>8 DEF Other, Swapped
  <2>5. s.up[x] \notin D => r.up[x] = s.up[x]
    BY <1>1, <1>2, <1>14, <2>1, <1>7, <1>8 DEF Other, Swapped
  <2> QED
    BY <2>2, <2>3, <2>4, <2>5
<1>16. /\ r.left[p] = f /\ r.right[p] = c
       /\ r.left[b] = m /\ r.right[b] = p
       /\ r.left[m] = d /\ r.right[m] = e
  <2>1. r.left[p] = f /\ r.right[p] = c
    BY <1>1, <1>2, <1>3, <1>14, <1>7, <1>8 DEF Other, Swapped
  <2>2. r.left[b] = m /\ r.right[b] = p
    BY <1>1, <1>2, <1>3, <1>14, <1>7, <1>8 DEF Other, Swapped
  <2>3. r.left[m] = d /\ r.right[m] = e
    BY <1>1, <1>2, <1>3, <1>14, <1>7, <1>8 DEF Other, Swapped
  <2> QED
    BY <2>1, <2>2, <2>3
<1>17. /\ r.up[b] = s.up[p] /\ r.up[p] = b /\ r.up[m] = b
       /\ f # Null => r.up[f] = p
       /\ c # Null => r.up[c] = p
       /\ d # Null => r.up[d] = m
       /\ e # Null => r.up[e] = m
  <2>1. r.up[b] = s.up[p]
    BY <1>1, <1>2, <1>14, <1>7, <1>8 DEF Other, Swapped
  <2>2. r.up[p] = b
    BY <1>1, <1>2, <1>14, <1>7, <1>8 DEF Other, Swapped
  <2>3. r.up[m] = b
    BY <1>1, <1>2, <1>14, <1>7, <1>8 DEF Other, Swapped
  <2>4. f # Null => r.up[f] = p
    BY <1>1, <1>2, <1>14, <1>7, <1>8 DEF Other, Swapped
  <2>5. c # Null => r.up[c] = p
    BY <1>1, <1>2, <1>14, <1>7, <1>8 DEF Other, Swapped
  <2>6. d # Null => r.up[d] = m
    BY <1>1, <1>2, <1>14, <1>7, <1>8 DEF Other, Swapped
  <2>7. e # Null => r.up[e] = m
    BY <1>1, <1>2, <1>14, <1>7, <1>8 DEF Other, Swapped
  <2> QED
    BY <2>1, <2>2, <2>3, <2>4, <2>5, <2>6, <2>7
<1>18. /\ p \notin r.red /\ (p \in r.redlink <=> n \in s.redlink)
          /\ (b \in r.red <=> p \in s.red)
       /\ (b \in r.redlink <=> p \in s.redlink) /\ m \notin r.red
       /\ (m \in r.redlink <=> m \in s.redlink)
  <2>1. p \in Ptr /\ n \in Ptr /\ b \in Ptr /\ m \in Ptr
    BY <1>1, <1>6
  <2>2. p \notin r.red /\ (p \in r.redlink <=> n \in s.redlink)
    BY <1>1, <1>4, <1>14, <2>1, <1>7, <1>8 DEF Other, Swapped
  <2>3. (b \in r.red <=> p \in s.red) /\ (b \in r.redlink <=> p \in s.redlink)
    BY <1>1, <1>4, <1>14, <2>1, <1>7, <1>8 DEF Other, Swapped
  <2>4. m \notin r.red /\ (m \in r.redlink <=> m \in s.redlink)
    BY <1>1, <1>4, <1>14, <2>1, <1>7, <1>8 DEF Other, Swapped
  <2> QED
    BY <2>2, <2>3, <2>4
<1>19. r \in Trees /\ r.nodes = s.nodes \ {n}
  <2>1. r \in Trees
    BY <1>13 DEF Freed
  <2>2. n \notin r.nodes
    BY <1>13 DEF Freed
  <2>3. \A x \in Keys : x # n => (x \in r.nodes <=> x \in s.nodes)
    BY <1>1, <1>4, <1>14, <1>7, <1>8 DEF Other, Swapped
  <2> QED
    BY <1>1, <2>1, <2>2, <2>3 DEF Trees
<1>20. r.isroot = {IF top = p THEN b ELSE top}
  <2>1. r.isroot \subseteq Keys /\ top \in Keys
    BY <1>19 DEF Trees
  <2>2. n \notin r.isroot
    BY <1>13 DEF Freed
  <2>3. \A x \in Keys : x # n => (x \in r.isroot <=> x = (IF top = p THEN b ELSE top))
    BY <1>1, <1>6, <1>14, <1>7, <1>8 DEF Other, Swapped
  <2> QED
    BY <1>1, <2>1, <2>2, <2>3
<1>21. BorrowedRight(s, r, p, n, b, m)
  <2>1. Turned(s, r, {p, n, b, m}, p, b)
    BY <1>15 DEF Turned
  <2>2. f = s.right[b] /\ c = s.left[n] /\ d = s.left[m] /\ e = s.right[m]
    BY DEF f, c, d, e
  <2> HIDE DEF D
  <2> QED
    BY <1>16, <1>17, <1>18, <1>19, <2>1, <2>2 DEF BorrowedRight
<1> HIDE DEF D
<1> QED
  BY <1>a, <1>20, <1>21

(* The steps of RemoveLeftMerge on the structure.                          *)
ToMergedLeft(s, p, n, b) ==
  LET w == Swap(s, p, n)
      k1 == LinkRight(w, p, w.left[b])
      k2 == LinkLeft(k1, b, p)
      k3 == LinkLeft(k2, n, b)
      k4 == SetRed(k3, p)
  IN SetRedLink(k4, b)

(* They have this result.                                                  *)
LEMMA MergedLeftIs ==
  ASSUME NEW s, NEW top, NEW lo, NEW hi, NEW h, s \in Trees, Labels(lo, hi, h),
         NEW p, NEW n, NEW b, Sound(s, top, lo, hi, h, n, Null), LeftMerge(s, p, n, b),
         s.isroot = {top}
  PROVE  MergedLeft(s, ToMergedLeft(s, p, n, b), p, n, b)
       /\ ToMergedLeft(s, p, n, b).isroot = {IF top = p THEN n ELSE top}
<1> DEFINE w == Swap(s, p, n)
           k1 == LinkRight(w, p, w.left[b])
           k2 == LinkLeft(k1, b, p)
           k3 == LinkLeft(k2, n, b)
           k4 == SetRed(k3, p)
           r == SetRedLink(k4, b)
           D == {p, n, b}
           c == s.left[n]
           d == s.left[b]
           e == s.right[b]
<1>a. r = ToMergedLeft(s, p, n, b)
  BY DEF ToMergedLeft
<1>0. LeftMergeAround(s, top, lo, hi, h, p, n, b)
  BY LeftMergeApart
<1>1. /\ p \in Keys /\ p # Null /\ n \in Keys /\ n # Null /\ b \in Keys /\ b # Null
      /\ Null \notin Keys /\ s.nodes \subseteq Keys /\ Null \notin s.nodes /\ Null \notin s.red
      /\ p # n /\ p # b /\ n # b /\ n # top /\ b # top
      /\ s.up[n] = p /\ s.up[b] = p
  BY <1>0 DEF LeftMergeAround
<1>2. /\ c \in s.nodes \cup {Null}
         /\ (c # Null => c \in s.nodes \ D /\ c \in Keys /\ s.up[c] = n)
      /\ d \in s.nodes \cup {Null}
         /\ (d # Null => d \in s.nodes \ D /\ d \in Keys /\ s.up[d] = b)
      /\ e \in s.nodes \cup {Null}
         /\ (e # Null => e \in s.nodes \ D /\ e \in Keys /\ s.up[e] = b)
      /\ s.up[p] \notin D /\ (d # Null => d # e)
  BY <1>0 DEF LeftMergeAround
<1>3. /\ s.left[p] = n /\ s.right[p] = b
      /\ s.left[n] = c /\ s.right[n] = c
      /\ s.left[b] = d /\ s.right[b] = e
  <2>1. Linked(s, n)
    BY SoundLinked
  <2>2. s.right[n] = s.left[n]
    BY <2>1 DEF Linked, LeftMerge
  <2> QED
    BY <2>2 DEF LeftMerge
<1>4. /\ p \in s.nodes /\ n \in s.nodes /\ b \in s.nodes /\ n \notin s.red /\ b \notin s.red
      /\ b \notin s.redlink
  BY DEF LeftMerge
<1>5. \A x \in s.nodes \ D : s.left[x] \notin {n, b} /\ s.right[x] \notin {n, b}
  <2>1. Linked(s, n)
    BY SoundLinked
  <2> QED
    BY <1>1, <1>4, <2>1 DEF Linked
<1>6. Keys \subseteq Ptr /\ Null \in Ptr /\ c \in Ptr /\ d \in Ptr /\ e \in Ptr
  <2> HIDE DEF c, d, e
  <2> QED
    BY <1>1, <1>2 DEF Ptr
<1>7. Swapped(s, p, n, w)
  <2> QED
    BY <1>1, <1>6, Does
<1> HIDE DEF w
<1> HIDE DEF c, d, e
<1>8. w.left[b] = d
  BY <1>1, <1>2, <1>3, <1>6, <1>7 DEF Swapped, Other
<1>9. RightLinked(w, p, d, k1)
  <2>1. w \in Trees
    BY <1>7 DEF Swapped
  <2> QED
    BY <1>1, <1>6, <2>1, <1>8, Does
<1> HIDE DEF k1
<1>10. LeftLinked(k1, b, p, k2)
  <2>1. k1 \in Trees
    BY <1>9 DEF RightLinked
  <2> QED
    BY <1>1, <1>6, <2>1, Does
<1> HIDE DEF k2
<1>11. LeftLinked(k2, n, b, k3)
  <2>1. k2 \in Trees
    BY <1>10 DEF LeftLinked
  <2> QED
    BY <1>1, <1>6, <2>1, Does
<1> HIDE DEF k3
<1>12. Reddened(k3, p, k4)
  <2>1. k3 \in Trees
    BY <1>11 DEF LeftLinked
  <2> QED
    BY <1>1, <1>6, <2>1, Does
<1> HIDE DEF k4
<1>13. RedLinked(k4, b, r)
  <2>1. k4 \in Trees
    BY <1>12 DEF Reddened, Shaped
  <2> QED
    BY <1>1, <1>6, <2>1, Does
<1> HIDE DEF r
<1>14. ASSUME NEW x \in Keys
      PROVE  /\ r.left[x] = (IF x = n THEN b ELSE (IF x = b THEN p ELSE w.left[x]))
             /\ r.right[x] = (IF x = p THEN d ELSE w.right[x])
             /\ r.up[x] = (IF x = b THEN n
                ELSE (IF x = p THEN b ELSE (IF x = d THEN p ELSE w.up[x])))
             /\ x \in r.nodes <=> x \in w.nodes
             /\ x \in r.red <=> (x = p \/ x \in w.red)
             /\ x \in r.redlink <=> (x = b \/ x \in w.redlink)
             /\ x \in r.isroot <=> x \in w.isroot
  BY <1>14, <1>9, <1>10, <1>11, <1>12, <1>13
       DEF RightLinked, LeftLinked, Reddened, Shaped, RedLinked
<1>15. ASSUME NEW x \in s.nodes \ D
      PROVE  /\ r.left[x] = (IF s.left[x] = p THEN n ELSE s.left[x])
             /\ r.right[x] = (IF s.right[x] = p THEN n ELSE s.right[x])
             /\ x \in r.red <=> x \in s.red
             /\ x \in r.redlink <=> x \in s.redlink
             /\ s.up[x] \notin D => r.up[x] = s.up[x]
  <2>1. x \in Keys /\ x \in Ptr /\ x # p /\ x # n /\ x # b
    BY <1>1, <1>6
  <2>2. r.left[x] = (IF s.left[x] = p THEN n ELSE s.left[x])
    BY <1>5, <1>14, <2>1, <1>7 DEF Other, Swapped
  <2>3. r.right[x] = (IF s.right[x] = p THEN n ELSE s.right[x])
    BY <1>5, <1>14, <2>1, <1>7 DEF Other, Swapped
  <2>4. (x \in r.red <=> x \in s.red) /\ (x \in r.redlink <=> x \in s.redlink)
    BY <1>14, <2>1, <1>7 DEF Other, Swapped
  <2>5. s.up[x] \notin D => r.up[x] = s.up[x]
    BY <1>1, <1>2, <1>14, <2>1, <1>7 DEF Other, Swapped
  <2> QED
    BY <2>2, <2>3, <2>4, <2>5
<1>16. /\ r.left[p] = c /\ r.right[p] = d
       /\ r.left[n] = b /\ r.right[n] = b
       /\ r.left[b] = p /\ r.right[b] = e
  <2>1. r.left[p] = c /\ r.right[p] = d
    BY <1>1, <1>2, <1>3, <1>14, <1>7 DEF Other, Swapped
  <2>2. r.left[n] = b /\ r.right[n] = b
    BY <1>1, <1>2, <1>3, <1>14, <1>7 DEF Other, Swapped
  <2>3. r.left[b] = p /\ r.right[b] = e
    BY <1>1, <1>2, <1>3, <1>14, <1>7 DEF Other, Swapped
  <2> QED
    BY <2>1, <2>2, <2>3
<1>17. /\ r.up[n] = s.up[p] /\ r.up[p] = b /\ r.up[b] = n
       /\ c # Null => r.up[c] = p
       /\ d # Null => r.up[d] = p
       /\ e # Null => r.up[e] = b
  <2>1. r.up[n] = s.up[p]
    BY <1>1, <1>2, <1>14, <1>7 DEF Other, Swapped
  <2>2. r.up[p] = b
    BY <1>1, <1>2, <1>14, <1>7 DEF Other, Swapped
  <2>3. r.up[b] = n
    BY <1>1, <1>2, <1>14, <1>7 DEF Other, Swapped
  <2>4. c # Null => r.up[c] = p
    BY <1>1, <1>2, <1>14, <1>7 DEF Other, Swapped
  <2>5. d # Null => r.up[d] = p
    BY <1>1, <1>2, <1>14, <1>7 DEF Other, Swapped
  <2>6. e # Null => r.up[e] = b
    BY <1>1, <1>2, <1>14, <1>7 DEF Other, Swapped
  <2> QED
    BY <2>1, <2>2, <2>3, <2>4, <2>5, <2>6
<1>18. /\ p \in r.red /\ (p \in r.redlink <=> n \in s.redlink) /\ (n \in r.red <=> p \in s.red)
       /\ (n \in r.redlink <=> p \in s.redlink) /\ b \notin r.red /\ b \in r.redlink
  <2>1. p \in Ptr /\ n \in Ptr /\ b \in Ptr
    BY <1>1, <1>6
  <2>2. p \in r.red /\ (p \in r.redlink <=> n \in s.redlink)
    BY <1>1, <1>4, <1>14, <2>1, <1>7 DEF Other, Swapped
  <2>3. (n \in r.red <=> p \in s.red) /\ (n \in r.redlink <=> p \in s.redlink)
    BY <1>1, <1>4, <1>14, <2>1, <1>7 DEF Other, Swapped
  <2>4. b \notin r.red /\ b \in r.redlink
    BY <1>1, <1>4, <1>14, <2>1, <1>7 DEF Other, Swapped
  <2> QED
    BY <2>2, <2>3, <2>4
<1>19. r \in Trees /\ r.nodes = s.nodes
  <2>1. r \in Trees
    BY <1>13 DEF RedLinked, Shaped
  <2>2. \A x \in Keys : x \in r.nodes <=> x \in s.nodes
    BY <1>1, <1>4, <1>14, <1>7 DEF Other, Swapped
  <2> QED
    BY <1>1, <2>1, <2>2 DEF Trees
<1>20. r.isroot = {IF top = p THEN n ELSE top}
  <2>1. r.isroot \subseteq Keys /\ top \in Keys
    BY <1>19 DEF Trees
  <2>3. \A x \in Keys : x \in r.isroot <=> x = (IF top = p THEN n ELSE top)
    BY <1>1, <1>6, <1>14, <1>7 DEF Other, Swapped
  <2> QED
    BY <1>1, <2>1, <2>3
<1>21. MergedLeft(s, r, p, n, b)
  <2>1. Turned(s, r, {p, n, b}, p, n)
    BY <1>15 DEF Turned
  <2>2. c = s.left[n] /\ d = s.left[b] /\ e = s.right[b]
    BY DEF c, d, e
  <2> HIDE DEF D
  <2> QED
    BY <1>16, <1>17, <1>18, <1>19, <2>1, <2>2 DEF MergedLeft
<1> HIDE DEF D
<1> QED
  BY <1>a, <1>20, <1>21

(* The steps of RemoveRightMerge on the structure.                         *)
ToMergedRight(s, p, n, b) ==
  LET w == Swap(s, n, p)
      k1 == LinkLeft(w, p, b)
      k2 == LinkLeft(k1, n, p)
      k3 == SetRed(k2, b)
  IN SetRedLink(k3, p)

(* They have this result.                                                  *)
LEMMA MergedRightIs ==
  ASSUME NEW s, NEW top, NEW lo, NEW hi, NEW h, s \in Trees, Labels(lo, hi, h),
         NEW p, NEW n, NEW b, Sound(s, top, lo, hi, h, n, Null), RightMerge(s, p, n, b),
         s.isroot = {top}
  PROVE  MergedRight(s, ToMergedRight(s, p, n, b), p, n, b)
       /\ ToMergedRight(s, p, n, b).isroot = {IF top = p THEN n ELSE top}
<1> DEFINE w == Swap(s, n, p)
           k1 == LinkLeft(w, p, b)
           k2 == LinkLeft(k1, n, p)
           k3 == SetRed(k2, b)
           r == SetRedLink(k3, p)
           D == {p, n, b}
           d == s.left[b]
           e == s.right[b]
           c == s.left[n]
<1>a. r = ToMergedRight(s, p, n, b)
  BY DEF ToMergedRight
<1>0. RightMergeAround(s, top, lo, hi, h, p, n, b)
  BY RightMergeApart
<1>1. /\ p \in Keys /\ p # Null /\ n \in Keys /\ n # Null /\ b \in Keys /\ b # Null
      /\ Null \notin Keys /\ s.nodes \subseteq Keys /\ Null \notin s.nodes /\ Null \notin s.red
      /\ p # n /\ p # b /\ n # b /\ n # top /\ b # top
      /\ s.up[n] = p /\ s.up[b] = p
  BY <1>0 DEF RightMergeAround
<1>2. /\ d \in s.nodes \cup {Null}
         /\ (d # Null => d \in s.nodes \ D /\ d \in Keys /\ s.up[d] = b)
      /\ e \in s.nodes \cup {Null}
         /\ (e # Null => e \in s.nodes \ D /\ e \in Keys /\ s.up[e] = b)
      /\ c \in s.nodes \cup {Null}
         /\ (c # Null => c \in s.nodes \ D /\ c \in Keys /\ s.up[c] = n)
      /\ s.up[p] \notin D /\ (d # Null => d # e)
  BY <1>0 DEF RightMergeAround
<1>3. /\ s.left[p] = b /\ s.right[p] = n
      /\ s.left[n] = c /\ s.right[n] = c
      /\ s.left[b] = d /\ s.right[b] = e
  <2>1. Linked(s, n)
    BY SoundLinked
  <2>2. s.right[n] = s.left[n]
    BY <2>1 DEF Linked, RightMerge
  <2> QED
    BY <2>2 DEF RightMerge
<1>4. /\ p \in s.nodes /\ n \in s.nodes /\ b \in s.nodes /\ n \notin s.red /\ b \notin s.red
      /\ b \notin s.redlink
  BY DEF RightMerge
<1>5. \A x \in s.nodes \ D : s.left[x] \notin {n, b} /\ s.right[x] \notin {n, b}
  <2>1. Linked(s, n)
    BY SoundLinked
  <2> QED
    BY <1>1, <1>4, <2>1 DEF Linked
<1>6. Keys \subseteq Ptr /\ Null \in Ptr /\ d \in Ptr /\ e \in Ptr /\ c \in Ptr
  <2> HIDE DEF d, e, c
  <2> QED
    BY <1>1, <1>2 DEF Ptr
<1>7. Swapped(s, n, p, w)
  <2> QED
    BY <1>1, <1>6, Does
<1> HIDE DEF w
<1>8. LeftLinked(w, p, b, k1)
  <2>1. w \in Trees
    BY <1>7 DEF Swapped
  <2> QED
    BY <1>1, <1>6, <2>1, Does
<1> HIDE DEF k1
<1>9. LeftLinked(k1, n, p, k2)
  <2>1. k1 \in Trees
    BY <1>8 DEF LeftLinked
  <2> QED
    BY <1>1, <1>6, <2>1, Does
<1> HIDE DEF k2
<1>10. Reddened(k2, b, k3)
  <2>1. k2 \in Trees
    BY <1>9 DEF LeftLinked
  <2> QED
    BY <1>1, <1>6, <2>1, Does
<1> HIDE DEF k3
<1>11. RedLinked(k3, p, r)
  <2>1. k3 \in Trees
    BY <1>10 DEF Reddened, Shaped
  <2> QED
    BY <1>1, <1>6, <2>1, Does
<1> HIDE DEF r
<1> HIDE DEF d, e, c
<1>12. ASSUME NEW x \in Keys
      PROVE  /\ r.left[x] = (IF x = n THEN p ELSE (IF x = p THEN b ELSE w.left[x]))
             /\ r.right[x] = w.right[x]
             /\ r.up[x] = (IF x = p THEN n ELSE (IF x = b THEN p ELSE w.up[x]))
             /\ x \in r.nodes <=> x \in w.nodes
             /\ x \in r.red <=> (x = b \/ x \in w.red)
             /\ x \in r.redlink <=> (x = p \/ x \in w.redlink)
             /\ x \in r.isroot <=> x \in w.isroot
  BY <1>12, <1>8, <1>9, <1>10, <1>11 DEF LeftLinked, Reddened, Shaped, RedLinked
<1>13. ASSUME NEW x \in s.nodes \ D
      PROVE  /\ r.left[x] = (IF s.left[x] = p THEN n ELSE s.left[x])
             /\ r.right[x] = (IF s.right[x] = p THEN n ELSE s.right[x])
             /\ x \in r.red <=> x \in s.red
             /\ x \in r.redlink <=> x \in s.redlink
             /\ s.up[x] \notin D => r.up[x] = s.up[x]
  <2>1. x \in Keys /\ x \in Ptr /\ x # p /\ x # n /\ x # b
    BY <1>1, <1>6
  <2>2. r.left[x] = (IF s.left[x] = p THEN n ELSE s.left[x])
    BY <1>5, <1>12, <2>1, <1>7 DEF Other, Swapped
  <2>3. r.right[x] = (IF s.right[x] = p THEN n ELSE s.right[x])
    BY <1>5, <1>12, <2>1, <1>7 DEF Other, Swapped
  <2>4. (x \in r.red <=> x \in s.red) /\ (x \in r.redlink <=> x \in s.redlink)
    BY <1>12, <2>1, <1>7 DEF Other, Swapped
  <2>5. s.up[x] \notin D => r.up[x] = s.up[x]
    BY <1>1, <1>2, <1>12, <2>1, <1>7 DEF Other, Swapped
  <2> QED
    BY <2>2, <2>3, <2>4, <2>5
<1>14. /\ r.left[p] = b /\ r.right[p] = c
       /\ r.left[n] = p /\ r.right[n] = p
       /\ r.left[b] = d /\ r.right[b] = e
  <2>1. r.left[p] = b /\ r.right[p] = c
    BY <1>1, <1>2, <1>3, <1>12, <1>7 DEF Other, Swapped
  <2>2. r.left[n] = p /\ r.right[n] = p
    BY <1>1, <1>2, <1>3, <1>12, <1>7 DEF Other, Swapped
  <2>3. r.left[b] = d /\ r.right[b] = e
    BY <1>1, <1>2, <1>3, <1>12, <1>7 DEF Other, Swapped
  <2> QED
    BY <2>1, <2>2, <2>3
<1>15. /\ r.up[n] = s.up[p] /\ r.up[p] = n /\ r.up[b] = p
       /\ d # Null => r.up[d] = b
       /\ e # Null => r.up[e] = b
       /\ c # Null => r.up[c] = p
  <2>1. r.up[n] = s.up[p]
    BY <1>1, <1>2, <1>12, <1>7 DEF Other, Swapped
  <2>2. r.up[p] = n
    BY <1>1, <1>2, <1>12, <1>7 DEF Other, Swapped
  <2>3. r.up[b] = p
    BY <1>1, <1>2, <1>12, <1>7 DEF Other, Swapped
  <2>4. d # Null => r.up[d] = b
    BY <1>1, <1>2, <1>12, <1>7 DEF Other, Swapped
  <2>5. e # Null => r.up[e] = b
    BY <1>1, <1>2, <1>12, <1>7 DEF Other, Swapped
  <2>6. c # Null => r.up[c] = p
    BY <1>1, <1>2, <1>12, <1>7 DEF Other, Swapped
  <2> QED
    BY <2>1, <2>2, <2>3, <2>4, <2>5, <2>6
<1>16. /\ p \notin r.red /\ p \in r.redlink /\ (n \in r.red <=> p \in s.red)
       /\ (n \in r.redlink <=> p \in s.redlink) /\ b \in r.red
       /\ (b \in r.redlink <=> b \in s.redlink)
  <2>1. p \in Ptr /\ n \in Ptr /\ b \in Ptr
    BY <1>1, <1>6
  <2>2. p \notin r.red /\ p \in r.redlink
    BY <1>1, <1>4, <1>12, <2>1, <1>7 DEF Other, Swapped
  <2>3. (n \in r.red <=> p \in s.red) /\ (n \in r.redlink <=> p \in s.redlink)
    BY <1>1, <1>4, <1>12, <2>1, <1>7 DEF Other, Swapped
  <2>4. b \in r.red /\ (b \in r.redlink <=> b \in s.redlink)
    BY <1>1, <1>4, <1>12, <2>1, <1>7 DEF Other, Swapped
  <2> QED
    BY <2>2, <2>3, <2>4
<1>17. r \in Trees /\ r.nodes = s.nodes
  <2>1. r \in Trees
    BY <1>11 DEF RedLinked, Shaped
  <2>2. \A x \in Keys : x \in r.nodes <=> x \in s.nodes
    BY <1>1, <1>4, <1>12, <1>7 DEF Other, Swapped
  <2> QED
    BY <1>1, <2>1, <2>2 DEF Trees
<1>18. r.isroot = {IF top = p THEN n ELSE top}
  <2>1. r.isroot \subseteq Keys /\ top \in Keys
    BY <1>17 DEF Trees
  <2>3. \A x \in Keys : x \in r.isroot <=> x = (IF top = p THEN n ELSE top)
    BY <1>1, <1>6, <1>12, <1>7 DEF Other, Swapped
  <2> QED
    BY <1>1, <2>1, <2>3
<1>19. MergedRight(s, r, p, n, b)
  <2>1. Turned(s, r, {p, n, b}, p, n)
    BY <1>13 DEF Turned
  <2>2. d = s.left[b] /\ e = s.right[b] /\ c = s.left[n]
    BY DEF d, e, c
  <2> HIDE DEF D
  <2> QED
    BY <1>14, <1>15, <1>16, <1>17, <2>1, <2>2 DEF MergedRight
<1> HIDE DEF D
<1> QED
  BY <1>a, <1>18, <1>19

-----------------------------------------------------------------------------
(* rbt_remove.                                                             *)

(* The parent of the node that is removed, and its brother.                *)
LEMMA Brothers ==
  ASSUME NEW s, NEW top, NEW lo, NEW hi, NEW h, s \in Trees, Labels(lo, hi, h),
         NEW n, n \in s.nodes, n # top, Sound(s, top, lo, hi, h, n, Null), NEW p, p = s.up[n]
  PROVE  /\ p \in s.nodes /\ p # n /\ (s.left[p] = n \/ s.right[p] = n)
            /\ s.left[p] # s.right[p]
         /\ n \notin s.red /\ s.left[p] = n => s.right[p] \in s.nodes
         /\ n \notin s.red /\ s.right[p] = n => s.left[p] \in s.nodes
         /\ n \notin s.red /\ s.right[p] = n /\ s.left[p] \in s.red
            => s.right[s.left[p]] \in s.nodes
<1>1. p \in s.nodes /\ (s.left[p] = n \/ s.right[p] = n)
  BY SoundNode DEF Hung
<1>2. p # n
  BY <1>1, SoundNode
<1>3. s.left[p] # s.right[p]
  BY <1>1, <1>2, SoundNode
<1>4. /\ n \in Keys /\ n # Null /\ h[n] \in Nat /\ h[p] \in Nat
      /\ Weighed(s, h, Null, n) /\ Weighed(s, h, Null, p) /\ Coloured(s, p)
      /\ s.left[n] \in s.nodes \cup {Null} /\ s.left[p] \in s.nodes \cup {Null}
         /\ s.right[p] \in s.nodes \cup {Null}
  BY <1>1, SoundNode
<1>5. \A c \in s.nodes : h[c] \in Nat
  BY SoundNode
<1>6. Height(h, s.left[n]) \in Nat /\ Height(h, s.left[p]) \in Nat
        /\ Height(h, s.right[p]) \in Nat
  BY <1>4, <1>5 DEF Height
<1>7. Height(h, s.left[p]) = Height(h, s.right[p])
  <2> DEFINE own == IF p \in s.red \/ p = Null THEN 0 ELSE 1
  <2>1. h[p] = Height(h, s.left[p]) + own /\ h[p] = Height(h, s.right[p]) + own
    BY <1>4 DEF Weighed
  <2>2. own \in Nat
    OBVIOUS
  <2> HIDE DEF own
  <2> QED
    BY <1>4, <1>6, <2>1, <2>2
<1>8. n \notin s.red => h[n] = Height(h, s.left[n]) + 1
  BY <1>4 DEF Weighed
<1>9. n \notin s.red => Height(h, n) # 0
  BY <1>4, <1>6, <1>8 DEF Height
<1>10. n \notin s.red /\ s.left[p] = n => s.right[p] \in s.nodes
  BY <1>4, <1>7, <1>9 DEF Height
<1>11. n \notin s.red /\ s.right[p] = n => s.left[p] \in s.nodes
  BY <1>4, <1>7, <1>9 DEF Height
<1>12. ASSUME n \notin s.red, s.right[p] = n, s.left[p] \in s.red
         PROVE s.right[s.left[p]] \in s.nodes
  <2> DEFINE b == s.left[p]
  <2>1. b \in s.nodes /\ b # Null
    BY <1>4, <1>11, <1>12, SoundNode
  <2>2. h[b] \in Nat /\ Weighed(s, h, Null, b) /\ s.right[b] \in s.nodes \cup {Null}
          /\ Null \notin s.nodes
    BY <2>1, SoundNode
  <2>3. Height(h, b) = h[b] /\ Height(h, n) = h[n]
    BY <1>4, <2>1 DEF Height
  <2>4. h[b] # 0
    BY <1>7, <1>9, <1>12, <2>3
  <2>5. Height(h, s.right[b]) \in Nat
    BY <1>5, <2>2 DEF Height
  <2>6. h[b] = Height(h, s.right[b]) + 0
    BY <1>12, <2>2 DEF Weighed
  <2>7. Height(h, s.right[b]) # 0
    BY <2>4, <2>5, <2>6
  <2> QED
    BY <2>2, <2>7 DEF Height
<1> QED
  BY <1>1, <1>2, <1>3, <1>10, <1>11, <1>12

(* What the invariant says while a node is removed from under a parent.    *)
LEMMA Removal ==
  ASSUME Inv, Removing, NEW lo, NEW hi, NEW h, Fits(lo, hi, h)
  PROVE  /\ t \in Trees /\ Labels(lo, hi, h) /\ Sound(t, root, lo, hi, h, node, Null)
         /\ node \in t.nodes /\ node # root /\ root # Null /\ t.isroot = {root}
         /\ depth = Height(h, root) /\ count = Cardinality(t.nodes)
<1>1. pc = "remove" /\ node \notin t.isroot /\ node \in t.nodes
  BY DEF Removing, Inv, InHand
<1>2. View = t /\ Hole = node /\ Hot = Null
  BY <1>1 DEF View, Hole, Hot
<1>3. Labels(lo, hi, h) /\ Sound(t, root, lo, hi, h, node, Null) /\ depth = Height(h, root)
  BY <1>2 DEF Fits
<1>4. root # Null
  BY <1>1, <1>3 DEF Sound
<1>5. t.isroot = {root}
  BY <1>4 DEF Inv, Counted
<1>6. count = Cardinality(t.nodes) - 0
  BY <1>1 DEF Inv, Counted
<1> QED
  BY <1>1, <1>3, <1>4, <1>5, <1>6, TypesAre

(* What the removal of a node with a parent ends with.                     *)
LEMMA RemovalEnds ==
  ASSUME Inv, node \in t.nodes, count = Cardinality(t.nodes),
         NEW h, depth = Height(h, root),
         t' \in Trees, t'.nodes = t.nodes \ {node}, t'.isroot = {root'} \ {Null},
         NEW lo2, NEW hi2, NEW h2, Labels(lo2, hi2, h2),
         Sound(t', root', lo2, hi2, h2, Null, Null),
         depth' = Height(h2, root'),
         count' = count - 1, Return("ok"), UNCHANGED pool
  PROVE  Inv' /\ t'.nodes = t.nodes \ {node}
<1>1. Calm(t', root', lo2, hi2, h2)
  BY DEF Calm
<1>2. IsFiniteSet(t.nodes)
  BY TypesAre
<1>3. Cardinality(t.nodes \ {node}) = Cardinality(t.nodes) - 1
  BY <1>2, FS_RemoveElement
<1>4. count' = Cardinality(t'.nodes)
  BY <1>3
<1>5. pool' \in 0..PoolSize
  BY TypesAre
<1> QED
  BY <1>1, <1>4, <1>5, Returned

(* RemoveRed keeps the invariant.                                          *)
LEMMA RemoveRedInv ==
  ASSUME Inv, RemoveRed
  PROVE  Inv' /\ t'.nodes = t.nodes \ {node}
<1> DEFINE p == t.up[node]
           l == t.left[node]
           r == ToCutRed(t, p, node)
           top2 == root
<1>0. Removing
  BY DEF RemoveRed, BlackBro
<1>1. PICK lo, hi, h : Fits(lo, hi, h)
  BY DEF Inv
<1>2. /\ t \in Trees /\ Labels(lo, hi, h) /\ Sound(t, root, lo, hi, h, node, Null)
      /\ node \in t.nodes /\ node # root /\ root # Null /\ t.isroot = {root}
      /\ depth = Height(h, root) /\ count = Cardinality(t.nodes)
  BY <1>0, <1>1, Removal
<1>3. /\ p \in t.nodes /\ p # node /\ (t.left[p] = node \/ t.right[p] = node)
         /\ t.left[p] # t.right[p]
      /\ node \notin t.red /\ t.left[p] = node => t.right[p] \in t.nodes
      /\ node \notin t.red /\ t.right[p] = node => t.left[p] \in t.nodes
      /\ node \notin t.red /\ t.right[p] = node /\ t.left[p] \in t.red
         => t.right[t.left[p]] \in t.nodes
  BY <1>2, Brothers
<1>4. Coloured(t, p)
  BY <1>2, <1>3, SoundNode
<1>5. RedOne(t, p, node)
  <2>1. node \in t.red
    BY DEF RemoveRed
  <2>2. t.left[p] = node /\ p \notin t.red
    BY <1>3, <1>4, <2>1 DEF Coloured
  <2> QED
    BY <1>2, <1>3, <2>1, <2>2 DEF RedOne
<1>6. t' = r /\ root' = top2 /\ count' = count - 1 /\ depth' = depth /\ pool' = pool
        /\ Return("ok")
  BY DEF RemoveRed, RemoveDone, ToCutRed
<1> HIDE DEF p
<1>7. CutRed(t, r, p, node) /\ r.isroot = {top2}
  BY <1>2, <1>5, CutRedIs
<1> HIDE DEF r
<1>8. PICK lo2, hi2, h2 : /\ Labels(lo2, hi2, h2) /\ Sound(r, top2, lo2, hi2, h2, Null, Null)
                          /\ Height(h2, top2) = Height(h, root)
  BY <1>2, <1>5, <1>7, CutRedSound
<1>9. r \in Trees /\ r.nodes = t.nodes \ {node}
  BY <1>7 DEF CutRed
<1>10. top2 \in Keys /\ Null \notin Keys
  BY <1>7, <1>9, KeysFinite DEF Trees
<1> HIDE DEF top2
<1>11. t'.isroot = {root'} \ {Null}
  BY <1>6, <1>7, <1>10
<1>12. depth' = Height(h2, root')
  BY <1>2, <1>6, <1>8
<1>13. t' \in Trees /\ t'.nodes = t.nodes \ {node} /\ Sound(t', root', lo2, hi2, h2, Null, Null)
  BY <1>6, <1>8, <1>9
<1> QED
  BY <1>2, <1>6, <1>8, <1>11, <1>12, <1>13, RemovalEnds

(* RemoveRedBroRedNephew keeps the invariant.                              *)
LEMMA RemoveRedBroRedNephewInv ==
  ASSUME Inv, RemoveRedBroRedNephew
  PROVE  Inv' /\ t'.nodes = t.nodes \ {node}
<1> DEFINE p == t.up[node]
           b == Bro
           m == t.right[b]
           g == t.left[m]
           r == ToTakenFromNephew(t, p, node, b, m, g)
           top2 == IF root = p THEN m ELSE root
<1>0. Removing
  BY DEF RemoveRedBroRedNephew, BlackBro
<1>1. PICK lo, hi, h : Fits(lo, hi, h)
  BY DEF Inv
<1>2. /\ t \in Trees /\ Labels(lo, hi, h) /\ Sound(t, root, lo, hi, h, node, Null)
      /\ node \in t.nodes /\ node # root /\ root # Null /\ t.isroot = {root}
      /\ depth = Height(h, root) /\ count = Cardinality(t.nodes)
  BY <1>0, <1>1, Removal
<1>3. /\ p \in t.nodes /\ p # node /\ (t.left[p] = node \/ t.right[p] = node)
         /\ t.left[p] # t.right[p]
      /\ node \notin t.red /\ t.left[p] = node => t.right[p] \in t.nodes
      /\ node \notin t.red /\ t.right[p] = node => t.left[p] \in t.nodes
      /\ node \notin t.red /\ t.right[p] = node /\ t.left[p] \in t.red
         => t.right[t.left[p]] \in t.nodes
  BY <1>2, Brothers
<1>4. Coloured(t, p)
  BY <1>2, <1>3, SoundNode
<1>4a. node \notin t.red /\ b \in t.red
  BY DEF RemoveRedBroRedNephew
<1>4b. t.right[p] = node /\ b = t.left[p] /\ p \notin t.red
  BY <1>3, <1>4, <1>4a DEF Coloured, Bro
<1>4c. b \in t.nodes /\ m \in t.nodes /\ m \notin t.red
  <2>1. b \in t.nodes
    BY <1>3, <1>4a, <1>4b
  <2>2. Coloured(t, b)
    BY <1>2, <2>1, SoundNode
  <2> QED
    BY <1>3, <1>4a, <1>4b, <2>1, <2>2 DEF Coloured
<1>4d. m \in t.redlink
  BY DEF RemoveRedBroRedNephew
<1>4e. g \in t.nodes /\ g \in t.red
  <2>1. Coloured(t, m) /\ (g # Null => g \in t.nodes)
    BY <1>2, <1>4c, SoundNode
  <2>2. g \in t.red
    BY <1>4d, <2>1 DEF Coloured
  <2>3. g # Null
    BY <1>2, <2>2, KeysFinite DEF Trees
  <2> QED
    BY <2>1, <2>2, <2>3
<1>5. RedBroRedNephew(t, p, node, b, m, g)
  BY <1>2, <1>3, <1>4a, <1>4b, <1>4c, <1>4d, <1>4e DEF RedBroRedNephew
<1>6. t' = r /\ root' = top2 /\ count' = count - 1 /\ depth' = depth /\ pool' = pool
        /\ Return("ok")
  BY DEF RemoveRedBroRedNephew, RemoveDone, ToTakenFromNephew
<1> HIDE DEF p, b, m, g
<1>7. TakenFromNephew(t, r, p, node, b, m, g) /\ r.isroot = {top2}
  BY <1>2, <1>5, TakenFromNephewIs
<1> HIDE DEF r
<1>8. PICK lo2, hi2, h2 : /\ Labels(lo2, hi2, h2) /\ Sound(r, top2, lo2, hi2, h2, Null, Null)
                          /\ Height(h2, top2) = Height(h, root)
  BY <1>2, <1>5, <1>7, TakenFromNephewSound
<1>9. r \in Trees /\ r.nodes = t.nodes \ {node}
  BY <1>7 DEF TakenFromNephew
<1>10. top2 \in Keys /\ Null \notin Keys
  BY <1>7, <1>9, KeysFinite DEF Trees
<1> HIDE DEF top2
<1>11. t'.isroot = {root'} \ {Null}
  BY <1>6, <1>7, <1>10
<1>12. depth' = Height(h2, root')
  BY <1>2, <1>6, <1>8
<1>13. t' \in Trees /\ t'.nodes = t.nodes \ {node} /\ Sound(t', root', lo2, hi2, h2, Null, Null)
  BY <1>6, <1>8, <1>9
<1> QED
  BY <1>2, <1>6, <1>8, <1>11, <1>12, <1>13, RemovalEnds

(* RemoveRedBro keeps the invariant.                                       *)
LEMMA RemoveRedBroInv ==
  ASSUME Inv, RemoveRedBro
  PROVE  Inv' /\ t'.nodes = t.nodes \ {node}
<1> DEFINE p == t.up[node]
           b == Bro
           m == t.right[b]
           r == ToTakenFromRed(t, p, node, b, m)
           top2 == IF root = p THEN b ELSE root
<1>0. Removing
  BY DEF RemoveRedBro, BlackBro
<1>1. PICK lo, hi, h : Fits(lo, hi, h)
  BY DEF Inv
<1>2. /\ t \in Trees /\ Labels(lo, hi, h) /\ Sound(t, root, lo, hi, h, node, Null)
      /\ node \in t.nodes /\ node # root /\ root # Null /\ t.isroot = {root}
      /\ depth = Height(h, root) /\ count = Cardinality(t.nodes)
  BY <1>0, <1>1, Removal
<1>3. /\ p \in t.nodes /\ p # node /\ (t.left[p] = node \/ t.right[p] = node)
         /\ t.left[p] # t.right[p]
      /\ node \notin t.red /\ t.left[p] = node => t.right[p] \in t.nodes
      /\ node \notin t.red /\ t.right[p] = node => t.left[p] \in t.nodes
      /\ node \notin t.red /\ t.right[p] = node /\ t.left[p] \in t.red
         => t.right[t.left[p]] \in t.nodes
  BY <1>2, Brothers
<1>4. Coloured(t, p)
  BY <1>2, <1>3, SoundNode
<1>4a. node \notin t.red /\ b \in t.red
  BY DEF RemoveRedBro
<1>4b. t.right[p] = node /\ b = t.left[p] /\ p \notin t.red
  BY <1>3, <1>4, <1>4a DEF Coloured, Bro
<1>4c. b \in t.nodes /\ m \in t.nodes /\ m \notin t.red
  <2>1. b \in t.nodes
    BY <1>3, <1>4a, <1>4b
  <2>2. Coloured(t, b)
    BY <1>2, <2>1, SoundNode
  <2> QED
    BY <1>3, <1>4a, <1>4b, <2>1, <2>2 DEF Coloured
<1>4d. m \notin t.redlink
  BY DEF RemoveRedBro
<1>5. RedBro(t, p, node, b, m)
  BY <1>2, <1>3, <1>4a, <1>4b, <1>4c, <1>4d DEF RedBro
<1>6. t' = r /\ root' = top2 /\ count' = count - 1 /\ depth' = depth /\ pool' = pool
        /\ Return("ok")
  BY DEF RemoveRedBro, RemoveDone, ToTakenFromRed
<1> HIDE DEF p, b, m
<1>7. TakenFromRed(t, r, p, node, b, m) /\ r.isroot = {top2}
  BY <1>2, <1>5, TakenFromRedIs
<1> HIDE DEF r
<1>8. PICK lo2, hi2, h2 : /\ Labels(lo2, hi2, h2) /\ Sound(r, top2, lo2, hi2, h2, Null, Null)
                          /\ Height(h2, top2) = Height(h, root)
  BY <1>2, <1>5, <1>7, TakenFromRedSound
<1>9. r \in Trees /\ r.nodes = t.nodes \ {node}
  BY <1>7 DEF TakenFromRed
<1>10. top2 \in Keys /\ Null \notin Keys
  BY <1>7, <1>9, KeysFinite DEF Trees
<1> HIDE DEF top2
<1>11. t'.isroot = {root'} \ {Null}
  BY <1>6, <1>7, <1>10
<1>12. depth' = Height(h2, root')
  BY <1>2, <1>6, <1>8
<1>13. t' \in Trees /\ t'.nodes = t.nodes \ {node} /\ Sound(t', root', lo2, hi2, h2, Null, Null)
  BY <1>6, <1>8, <1>9
<1> QED
  BY <1>2, <1>6, <1>8, <1>11, <1>12, <1>13, RemovalEnds

(* RemoveLeftBorrow keeps the invariant.                                   *)
LEMMA RemoveLeftBorrowInv ==
  ASSUME Inv, RemoveLeftBorrow
  PROVE  Inv' /\ t'.nodes = t.nodes \ {node}
<1> DEFINE p == t.up[node]
           b == Bro
           m == t.left[b]
           r == ToBorrowedLeft(t, p, node, b, m)
           top2 == IF root = p THEN m ELSE root
<1>0. Removing
  BY DEF RemoveLeftBorrow, BlackBro
<1>1. PICK lo, hi, h : Fits(lo, hi, h)
  BY DEF Inv
<1>2. /\ t \in Trees /\ Labels(lo, hi, h) /\ Sound(t, root, lo, hi, h, node, Null)
      /\ node \in t.nodes /\ node # root /\ root # Null /\ t.isroot = {root}
      /\ depth = Height(h, root) /\ count = Cardinality(t.nodes)
  BY <1>0, <1>1, Removal
<1>3. /\ p \in t.nodes /\ p # node /\ (t.left[p] = node \/ t.right[p] = node)
         /\ t.left[p] # t.right[p]
      /\ node \notin t.red /\ t.left[p] = node => t.right[p] \in t.nodes
      /\ node \notin t.red /\ t.right[p] = node => t.left[p] \in t.nodes
      /\ node \notin t.red /\ t.right[p] = node /\ t.left[p] \in t.red
         => t.right[t.left[p]] \in t.nodes
  BY <1>2, Brothers
<1>4. Coloured(t, p)
  BY <1>2, <1>3, SoundNode
<1>4a. node \notin t.red /\ b \notin t.red /\ b \in t.redlink
  BY DEF RemoveLeftBorrow, BlackBro
<1>4b. t.left[p] = node /\ t.right[p] = b
  BY <1>3 DEF RemoveLeftBorrow, Bro
<1>4c. b \in t.nodes
  BY <1>3, <1>4a, <1>4b
<1>4d. m \in t.nodes /\ m \in t.red
  <2>1. Coloured(t, b) /\ (m # Null => m \in t.nodes)
    BY <1>2, <1>4c, SoundNode
  <2>2. m \in t.red
    BY <1>4a, <2>1 DEF Coloured
  <2>3. m # Null
    BY <1>2, <2>2, KeysFinite DEF Trees
  <2> QED
    BY <2>1, <2>2, <2>3
<1>5. LeftBorrow(t, p, node, b, m)
  BY <1>2, <1>3, <1>4a, <1>4b, <1>4c, <1>4d DEF LeftBorrow
<1>6. t' = r /\ root' = top2 /\ count' = count - 1 /\ depth' = depth /\ pool' = pool
        /\ Return("ok")
  BY DEF RemoveLeftBorrow, RemoveDone, ToBorrowedLeft
<1> HIDE DEF p, b, m
<1>7. BorrowedLeft(t, r, p, node, b, m) /\ r.isroot = {top2}
  BY <1>2, <1>5, BorrowedLeftIs
<1> HIDE DEF r
<1>8. PICK lo2, hi2, h2 : /\ Labels(lo2, hi2, h2) /\ Sound(r, top2, lo2, hi2, h2, Null, Null)
                          /\ Height(h2, top2) = Height(h, root)
  BY <1>2, <1>5, <1>7, BorrowedLeftSound
<1>9. r \in Trees /\ r.nodes = t.nodes \ {node}
  BY <1>7 DEF BorrowedLeft
<1>10. top2 \in Keys /\ Null \notin Keys
  BY <1>7, <1>9, KeysFinite DEF Trees
<1> HIDE DEF top2
<1>11. t'.isroot = {root'} \ {Null}
  BY <1>6, <1>7, <1>10
<1>12. depth' = Height(h2, root')
  BY <1>2, <1>6, <1>8
<1>13. t' \in Trees /\ t'.nodes = t.nodes \ {node} /\ Sound(t', root', lo2, hi2, h2, Null, Null)
  BY <1>6, <1>8, <1>9
<1> QED
  BY <1>2, <1>6, <1>8, <1>11, <1>12, <1>13, RemovalEnds

(* RemoveRightBorrow keeps the invariant.                                  *)
LEMMA RemoveRightBorrowInv ==
  ASSUME Inv, RemoveRightBorrow
  PROVE  Inv' /\ t'.nodes = t.nodes \ {node}
<1> DEFINE p == t.up[node]
           b == Bro
           m == t.left[b]
           r == ToBorrowedRight(t, p, node, b, m)
           top2 == IF root = p THEN b ELSE root
<1>0. Removing
  BY DEF RemoveRightBorrow, BlackBro
<1>1. PICK lo, hi, h : Fits(lo, hi, h)
  BY DEF Inv
<1>2. /\ t \in Trees /\ Labels(lo, hi, h) /\ Sound(t, root, lo, hi, h, node, Null)
      /\ node \in t.nodes /\ node # root /\ root # Null /\ t.isroot = {root}
      /\ depth = Height(h, root) /\ count = Cardinality(t.nodes)
  BY <1>0, <1>1, Removal
<1>3. /\ p \in t.nodes /\ p # node /\ (t.left[p] = node \/ t.right[p] = node)
         /\ t.left[p] # t.right[p]
      /\ node \notin t.red /\ t.left[p] = node => t.right[p] \in t.nodes
      /\ node \notin t.red /\ t.right[p] = node => t.left[p] \in t.nodes
      /\ node \notin t.red /\ t.right[p] = node /\ t.left[p] \in t.red
         => t.right[t.left[p]] \in t.nodes
  BY <1>2, Brothers
<1>4. Coloured(t, p)
  BY <1>2, <1>3, SoundNode
<1>4a. node \notin t.red /\ b \notin t.red /\ b \in t.redlink
  BY DEF RemoveRightBorrow, BlackBro
<1>4b. t.left[p] = b /\ t.right[p] = node
  BY <1>3 DEF RemoveRightBorrow, Bro
<1>4c. b \in t.nodes
  BY <1>3, <1>4a, <1>4b
<1>4d. m \in t.nodes /\ m \in t.red
  <2>1. Coloured(t, b) /\ (m # Null => m \in t.nodes)
    BY <1>2, <1>4c, SoundNode
  <2>2. m \in t.red
    BY <1>4a, <2>1 DEF Coloured
  <2>3. m # Null
    BY <1>2, <2>2, KeysFinite DEF Trees
  <2> QED
    BY <2>1, <2>2, <2>3
<1>5. RightBorrow(t, p, node, b, m)
  BY <1>2, <1>3, <1>4a, <1>4b, <1>4c, <1>4d DEF RightBorrow
<1>6. t' = r /\ root' = top2 /\ count' = count - 1 /\ depth' = depth /\ pool' = pool
        /\ Return("ok")
  BY DEF RemoveRightBorrow, RemoveDone, ToBorrowedRight
<1> HIDE DEF p, b, m
<1>7. BorrowedRight(t, r, p, node, b, m) /\ r.isroot = {top2}
  BY <1>2, <1>5, BorrowedRightIs
<1> HIDE DEF r
<1>8. PICK lo2, hi2, h2 : /\ Labels(lo2, hi2, h2) /\ Sound(r, top2, lo2, hi2, h2, Null, Null)
                          /\ Height(h2, top2) = Height(h, root)
  BY <1>2, <1>5, <1>7, BorrowedRightSound
<1>9. r \in Trees /\ r.nodes = t.nodes \ {node}
  BY <1>7 DEF BorrowedRight
<1>10. top2 \in Keys /\ Null \notin Keys
  BY <1>7, <1>9, KeysFinite DEF Trees
<1> HIDE DEF top2
<1>11. t'.isroot = {root'} \ {Null}
  BY <1>6, <1>7, <1>10
<1>12. depth' = Height(h2, root')
  BY <1>2, <1>6, <1>8
<1>13. t' \in Trees /\ t'.nodes = t.nodes \ {node} /\ Sound(t', root', lo2, hi2, h2, Null, Null)
  BY <1>6, <1>8, <1>9
<1> QED
  BY <1>2, <1>6, <1>8, <1>11, <1>12, <1>13, RemovalEnds

(* RemoveLeftMerge keeps the invariant.                                    *)
LEMMA RemoveLeftMergeInv ==
  ASSUME Inv, RemoveLeftMerge
  PROVE  Inv' /\ t'.nodes = t.nodes
<1> DEFINE p == t.up[node]
           b == Bro
           r == ToMergedLeft(t, p, node, b)
           top2 == IF root = p THEN node ELSE root
<1>0. Removing
  BY DEF RemoveLeftMerge, BlackBro
<1>1. PICK lo, hi, h : Fits(lo, hi, h)
  BY DEF Inv
<1>2. /\ t \in Trees /\ Labels(lo, hi, h) /\ Sound(t, root, lo, hi, h, node, Null)
      /\ node \in t.nodes /\ node # root /\ root # Null /\ t.isroot = {root}
      /\ depth = Height(h, root) /\ count = Cardinality(t.nodes)
  BY <1>0, <1>1, Removal
<1>3. /\ p \in t.nodes /\ p # node /\ (t.left[p] = node \/ t.right[p] = node)
         /\ t.left[p] # t.right[p]
      /\ node \notin t.red /\ t.left[p] = node => t.right[p] \in t.nodes
      /\ node \notin t.red /\ t.right[p] = node => t.left[p] \in t.nodes
      /\ node \notin t.red /\ t.right[p] = node /\ t.left[p] \in t.red
         => t.right[t.left[p]] \in t.nodes
  BY <1>2, Brothers
<1>4. Coloured(t, p)
  BY <1>2, <1>3, SoundNode
<1>4a. node \notin t.red /\ b \notin t.red /\ b \notin t.redlink
  BY DEF RemoveLeftMerge, BlackBro
<1>4b. t.left[p] = node /\ t.right[p] = b
  BY <1>3 DEF RemoveLeftMerge, Bro
<1>4c. b \in t.nodes
  BY <1>3, <1>4a, <1>4b
<1>5. LeftMerge(t, p, node, b)
  BY <1>2, <1>3, <1>4a, <1>4b, <1>4c DEF LeftMerge
<1>6. t' = r /\ root' = top2 /\ UNCHANGED <<depth, count, pool, pc, node, parent, key, answer>>
  BY DEF RemoveLeftMerge, HoleUp, ToMergedLeft
<1> HIDE DEF p, b
<1>7. MergedLeft(t, r, p, node, b) /\ r.isroot = {top2}
  BY <1>2, <1>5, MergedLeftIs
<1> HIDE DEF r
<1>8. PICK lo2, hi2, h2 : /\ Labels(lo2, hi2, h2) /\ Sound(r, top2, lo2, hi2, h2, node, Null)
                          /\ Height(h2, top2) = Height(h, root)
  BY <1>2, <1>5, <1>7, MergedLeftSound
<1>9. r \in Trees /\ r.nodes = t.nodes
  BY <1>7 DEF MergedLeft
<1>10. top2 \in Keys /\ Null \notin Keys
  BY <1>7, <1>9, KeysFinite DEF Trees
<1> HIDE DEF top2
<1>11. t'.isroot = {root'} \ {Null}
  BY <1>6, <1>7, <1>10
<1>12. root' \in Ptr /\ depth = Height(h2, root')
  BY <1>2, <1>6, <1>8, <1>10 DEF Ptr
<1>13. t' \in Trees /\ t'.nodes = t.nodes /\ Sound(t', root', lo2, hi2, h2, node, Null)
  BY <1>6, <1>8, <1>9
<1> QED
  BY <1>0, <1>6, <1>8, <1>11, <1>12, <1>13, HoleGoesUp DEF Removing

(* RemoveRightMerge keeps the invariant.                                   *)
LEMMA RemoveRightMergeInv ==
  ASSUME Inv, RemoveRightMerge
  PROVE  Inv' /\ t'.nodes = t.nodes
<1> DEFINE p == t.up[node]
           b == Bro
           r == ToMergedRight(t, p, node, b)
           top2 == IF root = p THEN node ELSE root
<1>0. Removing
  BY DEF RemoveRightMerge, BlackBro
<1>1. PICK lo, hi, h : Fits(lo, hi, h)
  BY DEF Inv
<1>2. /\ t \in Trees /\ Labels(lo, hi, h) /\ Sound(t, root, lo, hi, h, node, Null)
      /\ node \in t.nodes /\ node # root /\ root # Null /\ t.isroot = {root}
      /\ depth = Height(h, root) /\ count = Cardinality(t.nodes)
  BY <1>0, <1>1, Removal
<1>3. /\ p \in t.nodes /\ p # node /\ (t.left[p] = node \/ t.right[p] = node)
         /\ t.left[p] # t.right[p]
      /\ node \notin t.red /\ t.left[p] = node => t.right[p] \in t.nodes
      /\ node \notin t.red /\ t.right[p] = node => t.left[p] \in t.nodes
      /\ node \notin t.red /\ t.right[p] = node /\ t.left[p] \in t.red
         => t.right[t.left[p]] \in t.nodes
  BY <1>2, Brothers
<1>4. Coloured(t, p)
  BY <1>2, <1>3, SoundNode
<1>4a. node \notin t.red /\ b \notin t.red /\ b \notin t.redlink
  BY DEF RemoveRightMerge, BlackBro
<1>4b. t.left[p] = b /\ t.right[p] = node
  BY <1>3 DEF RemoveRightMerge, Bro
<1>4c. b \in t.nodes
  BY <1>3, <1>4a, <1>4b
<1>5. RightMerge(t, p, node, b)
  BY <1>2, <1>3, <1>4a, <1>4b, <1>4c DEF RightMerge
<1>6. t' = r /\ root' = top2 /\ UNCHANGED <<depth, count, pool, pc, node, parent, key, answer>>
  BY DEF RemoveRightMerge, HoleUp, ToMergedRight
<1> HIDE DEF p, b
<1>7. MergedRight(t, r, p, node, b) /\ r.isroot = {top2}
  BY <1>2, <1>5, MergedRightIs
<1> HIDE DEF r
<1>8. PICK lo2, hi2, h2 : /\ Labels(lo2, hi2, h2) /\ Sound(r, top2, lo2, hi2, h2, node, Null)
                          /\ Height(h2, top2) = Height(h, root)
  BY <1>2, <1>5, <1>7, MergedRightSound
<1>9. r \in Trees /\ r.nodes = t.nodes
  BY <1>7 DEF MergedRight
<1>10. top2 \in Keys /\ Null \notin Keys
  BY <1>7, <1>9, KeysFinite DEF Trees
<1> HIDE DEF top2
<1>11. t'.isroot = {root'} \ {Null}
  BY <1>6, <1>7, <1>10
<1>12. root' \in Ptr /\ depth = Height(h2, root')
  BY <1>2, <1>6, <1>8, <1>10 DEF Ptr
<1>13. t' \in Trees /\ t'.nodes = t.nodes /\ Sound(t', root', lo2, hi2, h2, node, Null)
  BY <1>6, <1>8, <1>9
<1> QED
  BY <1>0, <1>6, <1>8, <1>11, <1>12, <1>13, HoleGoesUp DEF Removing

(* One root for another.                                                   *)
Rerooted(s, old, new, r) ==
  /\ r \in Trees /\ r.nodes = s.nodes /\ r.left = s.left /\ r.right = s.right
  /\ r.red = s.red /\ r.redlink = s.redlink
  /\ r.isroot = (s.isroot \cup ({new} \ {Null})) \ {old}
  /\ \A x \in Keys : r.up[x] = (IF x = new THEN Null ELSE s.up[x])

(* ChangeRoot does that.                                                   *)
LEMMA Reroots ==
  ASSUME NEW s, s \in Trees, NEW old, old \in Keys, NEW new, new \in Ptr
  PROVE  Rerooted(s, old, new, ChangeRoot(s, old, new))
BY ChangeRootIs DEF Rerooted

(* A root without children is the only node.                               *)
LEMMA OnlyNode ==
  ASSUME NEW s, NEW top, NEW lo, NEW hi, NEW h, NEW hole, NEW hot, s \in Trees,
         Labels(lo, hi, h),
         Sound(s, top, lo, hi, h, hole, hot), top \in s.nodes, s.left[top] = Null,
         s.right[top] = Null
  PROVE  s.nodes = {top}
<1> DEFINE S == s.nodes \ {top}
<1>1. SUFFICES ASSUME S # {} PROVE FALSE
  OBVIOUS
<1>2. Tied(s, top, lo, hi, hole)
  BY DEF Tied, Sound, Labels
<1>3. \A x \in S : s.up[x] \in S
  <2> TAKE x \in S
  <2>1. x # Null /\ Hung(s, top, x)
    BY SoundNode
  <2>2. s.up[x] \in s.nodes /\ (x = s.left[s.up[x]] \/ x = s.right[s.up[x]])
    BY <2>1 DEF Hung
  <2> QED
    BY <2>1, <2>2
<1>4. ClosedUp(s, top, S)
  BY <1>3 DEF ClosedUp
<1>5. S \in SUBSET s.nodes
  OBVIOUS
<1>6. top \in S
  BY <1>1, <1>2, <1>4, <1>5, UpEndsAtTop
<1> QED
  BY <1>6

(* The hole has come up to the root: the tree is one level lower.          *)
LEMMA RemoveRootInv ==
  ASSUME Inv, RemoveRoot
  PROVE  Inv' /\ t'.nodes = t.nodes \ {node}
<1> DEFINE q == t.left[node]
           m == ChangeRoot(t, node, q)
           r == Free(m, node)
<1>0. /\ pc = "remove" /\ node \in t.isroot /\ t' = r /\ root' = q /\ depth' = depth - 1
      /\ count' = count - 1 /\ Return("ok") /\ pool' = pool
  BY DEF RemoveRoot
<1>1. PICK lo, hi, h : Fits(lo, hi, h)
  BY DEF Inv
<1>2. /\ t \in Trees /\ Labels(lo, hi, h) /\ Sound(t, root, lo, hi, h, node, Null)
         /\ depth = Height(h, root)
      /\ t.isroot = {root} /\ node = root /\ node \in t.nodes
  <2>1. View = t /\ Hole = node /\ Hot = Null
    BY <1>0 DEF View, Hole, Hot
  <2>2. t \in Trees /\ node \in t.nodes
    BY <1>0, TypesAre DEF Inv, InHand
  <2> QED
    BY <1>0, <1>1, <2>1, <2>2 DEF Fits, Inv, Counted
<1>3. count = Cardinality(t.nodes)
  BY <1>0, TypesAre DEF Inv, Counted
<1>4. /\ node \in Keys /\ node # Null /\ h[node] \in Nat /\ Null \notin Keys
         /\ Null \notin t.nodes
      /\ Placed(t, lo, hi, node, node) /\ Weighed(t, h, Null, node) /\ Coloured(t, node)
         /\ t.up[node] = Null
  BY <1>2, SoundNode, KeysFinite DEF Trees
<1>5. /\ q \in t.nodes \cup {Null} /\ t.right[node] = q /\ q # node
      /\ q # Null => q \in Keys /\ t.up[q] = node /\ lo[q] = lo[node] /\ hi[q] = hi[node]
         /\ q \notin t.red
  BY <1>2, <1>4, SoundNode DEF Placed, Coloured
<1> HIDE DEF q
<1>6. Rerooted(t, node, q, m)
  BY <1>2, <1>4, <1>5, Reroots DEF Ptr
<1> HIDE DEF m
<1>7. Freed(m, node, r)
  BY <1>4, <1>6, Does DEF Rerooted
<1> HIDE DEF r
<1>8. /\ r \in Trees /\ r.nodes = t.nodes \ {node} /\ r.isroot = {q} \ {Null}
      /\ r.red = t.red \ {node} /\ r.redlink = t.redlink \ {node}
  BY <1>2, <1>5, <1>6, <1>7 DEF Rerooted, Freed
<1>9. ASSUME NEW x \in Keys, x # node
      PROVE  r.left[x] = t.left[x] /\ r.right[x] = t.right[x]
           /\ r.up[x] = (IF x = q THEN Null ELSE t.up[x])
  BY <1>6, <1>7, <1>9 DEF Rerooted, Freed
<1>10. t'.isroot = {root'} \ {Null} /\ t' \in Trees /\ t'.nodes = t.nodes \ {node}
  BY <1>0, <1>8
<1>11. Height(h, q) = depth - 1
  <2>1. node \notin t.red
    BY <1>2, <1>4 DEF Sound
  <2>2. h[node] = Height(h, q) + 1 /\ depth = h[node]
    BY <1>2, <1>4, <1>5, <2>1 DEF Weighed, Height, q
  <2>3. Height(h, q) \in Nat
    BY <1>2, <1>5 DEF Height, Labels
  <2> QED
    BY <1>4, <2>2, <2>3
<1>12. Sound(r, q, lo, hi, h, Null, Null)
  <2>1. CASE q = Null
    <3>1. t.nodes = {node}
      BY <1>2, <1>5, <2>1, OnlyNode DEF q
    <3>2. r.nodes = {}
      BY <1>8, <3>1
    <3> QED
      BY <2>1, <3>2 DEF Sound
  <2>2. CASE q # Null
    <3> DEFINE D == {node}
               E == {}
    <3>1. Part(t, root, D, node)
      BY <1>2 DEF Part
    <3>2. Exchange(t, root, node, Null, r, q, Null, Null, D, E, node, q)
      BY <1>2, <1>4, <1>5, <1>8 DEF Exchange
    <3>3. ASSUME NEW x \in t.nodes \ D
          PROVE  /\ r.left[x] = (IF t.left[x] = node THEN q ELSE t.left[x])
                 /\ r.right[x] = (IF t.right[x] = node THEN q ELSE t.right[x])
                 /\ x \in r.red <=> x \in t.red
                 /\ x \in r.redlink <=> x \in t.redlink
                 /\ t.up[x] \notin D => r.up[x] = t.up[x]
                 /\ t.up[x] \in D => x = q
      <4>1. x \in Keys /\ x # node /\ x # Null /\ Placed(t, lo, hi, node, x) /\ Hung(t, root, x)
        BY <1>2, SoundNode
      <4>2. t.left[x] # node /\ t.right[x] # node
        BY <1>4, <4>1 DEF Placed
      <4>3. t.up[x] = node => x = q
        BY <1>2, <1>4, <1>5, <4>1 DEF Hung, q
      <4> QED
        BY <1>5, <1>8, <1>9, <2>2, <4>1, <4>2, <4>3
    <3>4. SameOutside(t, lo, hi, h, r, lo, hi, h, D, E, node, q)
      BY <3>3 DEF SameOutside
    <3>5. SameAbove(t, root, lo, hi, h, r, lo, hi, h, node, q)
      BY <1>2, <1>4, <1>5, <1>9, <2>2 DEF SameAbove
    <3>6. SoundInside(r, lo, hi, h, Null, Null, E, q)
      BY DEF SoundInside
    <3>7. q \notin r.red
      BY <1>5, <1>8, <2>2
    <3> HIDE DEF D, E
    <3> QED
      BY <1>2, <1>8, <2>2, <3>1, <3>2, <3>4, <3>5, <3>6, <3>7, ReplacedSound
  <2> QED
    BY <2>1, <2>2
<1> QED
  BY <1>0, <1>2, <1>3, <1>10, <1>11, <1>12, RemovalEnds

-----------------------------------------------------------------------------
(* The calls that change nothing, and the tree that is taken down.         *)

(* A call that changes nothing, and a step that does nothing.              *)
LEMMA UnchangedInv ==
  ASSUME Inv, NEW code \in {"none", "ok", "exists", "not_found", "no_memory"}, pc = "idle",
         Return(code),
         UNCHANGED <<t, root, depth, count, pool>>
  PROVE  Inv'
<1>1. PICK lo, hi, h : Calm(t, root, lo, hi, h) /\ depth = Height(h, root)
  BY Idle
<1>2. count = Cardinality(t.nodes) /\ t.isroot = {root} \ {Null} /\ pool \in 0..PoolSize
  BY Idle, TypesAre
<1> QED
  BY <1>1, <1>2, Returned

(* rbt_delete_tree.                                                        *)
LEMMA DeleteTreeInv ==
  ASSUME Inv, DeleteTree
  PROVE  Inv' /\ t'.nodes = {}
<1>1. PICK lo, hi, h : Calm(t, root, lo, hi, h)
  BY Idle DEF DeleteTree
<1>2. t' = Empty /\ root' = Null /\ depth' = 0 /\ count' = 0 /\ pool' = PoolSize
        /\ Return("none")
  BY DEF DeleteTree
<1>3. /\ t' \in Trees /\ t'.nodes = {} /\ t'.isroot = {}
  BY <1>2 DEF Trees, Empty, Ptr
<1>4. Calm(t', root', lo, hi, h) /\ depth' = Height(h, root')
  BY <1>1, <1>2, <1>3 DEF Calm, Sound, Height
<1>5. pool' \in 0..PoolSize /\ count' = Cardinality(t'.nodes) /\ t'.isroot = {root'} \ {Null}
  BY <1>2, <1>3, RBTreeAssumption, FS_EmptySet
<1> QED
  BY <1>2, <1>3, <1>4, <1>5, Returned

(* rbt_new_tree.                                                           *)
LEMMA InitInv == Init => Inv
<1> SUFFICES ASSUME Init PROVE Inv
  OBVIOUS
<1> DEFINE lo == [k \in Keys |-> 0]  h == [k \in Keys |-> 0]
<1>1. /\ t = Empty /\ root = Null /\ depth = 0 /\ count = 0 /\ pool = PoolSize
      /\ pc = "idle" /\ node = Null /\ parent = Null /\ key = Null /\ answer = "none"
  BY DEF Init
<1>2. /\ t \in Trees /\ t.nodes = {} /\ t.isroot = {}
  BY <1>1 DEF Trees, Empty, Ptr
<1>3. Labels(lo, lo, h)
  BY DEF Labels
<1> HIDE DEF lo, h
<1>4. Sound(t, root, lo, lo, h, Null, Null)
  BY <1>1, <1>2 DEF Sound
<1>5. Fits(lo, lo, h)
  BY <1>1, <1>3, <1>4 DEF Fits, View, Hole, Hot, Height
<1>6. Cardinality(t.nodes) = 0
  BY <1>2, FS_EmptySet
<1>7. Counted
  BY <1>1, <1>2, <1>6 DEF Counted
<1>8. TypeOK
  <2>1. 0 \in 0..Cardinality(Keys) /\ PoolSize \in 0..PoolSize
    BY KeysFinite, RBTreeAssumption
  <2> QED
    BY <1>1, <1>2, <2>1 DEF TypeOK, Trees, Ptr
<1> QED
  BY <1>1, <1>5, <1>7, <1>8 DEF Inv, InHand

(* A black node weighs.                                                    *)
LEMMA Weightless ==
  ASSUME NEW s, NEW top, NEW lo, NEW hi, NEW h, Calm(s, top, lo, hi, h),
         NEW c, c \in s.nodes \cup {Null}, c \notin s.red, Height(h, c) = 0
  PROVE  c = Null
<1> SUFFICES ASSUME c # Null PROVE FALSE
  OBVIOUS
<1>1. c \in s.nodes
  OBVIOUS
<1>2. h[c] = 0 /\ h[c] = Height(h, s.left[c]) + 1
  BY <1>1, CalmNode DEF Weighed, Height
<1>3. Height(h, s.left[c]) \in Nat
  BY <1>1, CalmNode DEF Height
<1> QED
  BY <1>2, <1>3

(* A black node without a right child has no child at all, and neither has *)
(* the red child of a node without a right child.                          *)
LEMMA Childless ==
  ASSUME NEW s, NEW top, NEW lo, NEW hi, NEW h, Calm(s, top, lo, hi, h),
         NEW n \in s.nodes, s.right[n] = Null
  PROVE  /\ s.left[n] \notin s.red => s.left[n] = Null
         /\ s.left[n] \in s.red => /\ s.left[n] \in s.nodes
                                   /\ s.left[s.left[n]] = Null /\ s.right[s.left[n]] = Null
<1> DEFINE l == s.left[n]
<1>1. /\ Null \notin Keys /\ s.red \subseteq Keys /\ l \in s.nodes \cup {Null}
         /\ Height(h, l) \in Nat
      /\ h[n] \in Nat /\ Weighed(s, h, Null, n)
  BY CalmNode, KeysFinite DEF Calm, Trees, Height
<1>2. Height(h, l) = Height(h, s.right[n])
  <2> DEFINE own == IF n \in s.red \/ n = Null THEN 0 ELSE 1
  <2>1. h[n] = Height(h, l) + own /\ h[n] = Height(h, s.right[n]) + own
    BY <1>1 DEF Weighed
  <2>2. own \in Nat /\ Height(h, s.right[n]) \in Nat
    BY CalmNode DEF Height
  <2> HIDE DEF own, l
  <2> QED
    BY <1>1, <2>1, <2>2
<1>3. Height(h, l) = 0
  BY <1>2 DEF Height
<1> HIDE DEF l
<1>4. l \notin s.red => l = Null
  BY <1>1, <1>3, Weightless
<1>5. ASSUME l \in s.red PROVE l \in s.nodes /\ s.left[l] = Null /\ s.right[l] = Null
  <2>1. l \in s.nodes /\ l # Null
    BY <1>1, <1>5
  <2>2. /\ s.left[l] \in s.nodes \cup {Null} /\ s.right[l] \in s.nodes \cup {Null}
           /\ h[l] \in Nat
        /\ Weighed(s, h, Null, l) /\ Coloured(s, l)
    BY <2>1, CalmNode
  <2>3. h[l] = 0
    BY <1>3, <2>1 DEF Height
  <2>4. Height(h, s.left[l]) \in Nat /\ Height(h, s.right[l]) \in Nat
    BY <2>1, CalmNode DEF Height
  <2>5. h[l] = Height(h, s.left[l]) + 0 /\ h[l] = Height(h, s.right[l]) + 0
    BY <1>5, <2>2 DEF Weighed
  <2>6. Height(h, s.left[l]) = 0 /\ Height(h, s.right[l]) = 0
    BY <2>3, <2>4, <2>5
  <2>7. s.left[l] \notin s.red /\ s.right[l] \notin s.red
    BY <1>5, <2>2 DEF Coloured
  <2> QED
    BY <2>1, <2>2, <2>6, <2>7, Weightless
<1> QED
  BY <1>4, <1>5 DEF l

(* A node without a right child may be the one to be freed.                *)
LEMMA HoleMade ==
  ASSUME NEW s, NEW top, NEW lo, NEW hi, NEW h, Calm(s, top, lo, hi, h),
         NEW n \in s.nodes, s.left[n] = Null, s.right[n] = Null
  PROVE  Sound(s, top, lo, hi, h, n, Null)
<1>1. ASSUME NEW x \in s.nodes PROVE Placed(s, lo, hi, n, x)
  <2>1. Placed(s, lo, hi, Null, x) /\ x # Null /\ n # Null
    BY CalmNode DEF Calm, Sound
  <2> QED
    BY <2>1 DEF Placed
<1> QED
  BY <1>1 DEF Calm, Sound

(* The successor of a node that has a right child.                         *)
LEMMA Successor ==
  ASSUME NEW lo, NEW hi, NEW h, Calm(t, root, lo, hi, h), t.isroot = {root},
         NEW k \in t.nodes, t.right[k] # Null
  PROVE  LET succ == First(t.right[k])
         IN /\ succ \in t.nodes /\ k < succ /\ succ < hi[k] /\ succ # root
            /\ t.left[succ] = Null /\ t.right[succ] = Null
            /\ \A m \in t.nodes : k < m => succ <= m
<1> DEFINE succ == First(t.right[k])
<1>1. t.right[k] \in t.nodes /\ lo[t.right[k]] = k /\ hi[t.right[k]] = hi[k] /\ k \in Int
        /\ hi[k] \in Int
  BY CalmNode
<1>2. succ \in t.nodes /\ t.left[succ] = Null /\ lo[succ] = k /\ hi[succ] <= hi[k]
  BY <1>1, FirstIs
<1>3. succ = NextNode(k)
  BY DEF NextNode
<1> HIDE DEF succ
<1>4. succ \in Int /\ hi[succ] \in Int /\ k < succ /\ succ < hi[succ] /\ succ # Null
  BY <1>2, CalmNode
<1>5. \A m \in t.nodes : k < m => succ <= m
  BY <1>2, <1>3, <1>4, NextIs
<1>6. succ # root
  <2>1. k \in Keys
    BY CalmNode
  <2>2. root = succ => lo[succ] < k
    BY <1>4, <2>1 DEF Calm, Sound
  <2> QED
    BY <1>1, <1>2, <2>2
<1>7. t.right[succ] = Null
  <2> DEFINE r == t.right[succ]
  <2>1. /\ h[succ] \in Nat /\ Weighed(t, h, Null, succ) /\ Coloured(t, succ)
        /\ r \in t.nodes \cup {Null} /\ Height(h, r) \in Nat
    BY <1>2, CalmNode DEF Height
  <2>2. Height(h, r) = 0
    <3> DEFINE own == IF succ \in t.red \/ succ = Null THEN 0 ELSE 1
    <3>1. h[succ] = Height(h, t.left[succ]) + own /\ h[succ] = Height(h, r) + own
      BY <2>1 DEF Weighed
    <3>2. own \in Nat /\ Height(h, t.left[succ]) = 0
      BY <1>2 DEF Height
    <3> HIDE DEF own, r
    <3> QED
      BY <2>1, <3>1, <3>2
  <2>3. r \notin t.red
    BY <2>1 DEF Coloured
  <2> HIDE DEF r
  <2>4. r = Null
    BY <2>1, <2>2, <2>3, Weightless
  <2> QED
    BY <2>4 DEF r
<1> QED
  BY <1>1, <1>2, <1>4, <1>5, <1>6, <1>7 DEF succ

(* The key to remove and its successor change places: the places keep      *)
(* their colours, and the key is the one that may stand anywhere.          *)
LEMMA SwappedSound ==
  ASSUME NEW s, NEW top, NEW lo, NEW hi, NEW h, Calm(s, top, lo, hi, h),
         NEW k \in s.nodes, NEW a \in s.nodes, k < a, a < hi[k], a # top,
         s.left[a] = Null, s.right[a] = Null, \A m \in s.nodes : k < m => a <= m,
         NEW r, Swapped(s, k, a, r)
  PROVE  \E lo2, hi2, h2 : /\ Labels(lo2, hi2, h2)
                           /\ Sound(r, IF top = k THEN a ELSE top, lo2, hi2, h2, k, Null)
                           /\ Height(h2, IF top = k THEN a ELSE top) = Height(h, top)
<1> DEFINE pi(x) == Other(k, a, x)
           f(i) == IF i = k THEN a ELSE i
           lo2 == [x \in Keys |-> f(lo[pi(x)])]
           hi2 == [x \in Keys |-> f(hi[pi(x)])]
           h2 == [x \in Keys |-> h[pi(x)]]
           top2 == IF top = k THEN a ELSE top
<1>1. /\ k \in Keys /\ a \in Keys /\ k \in Int /\ a \in Int /\ k # a /\ Null \notin Keys
         /\ Keys \subseteq Int
      /\ k # Null /\ a # Null
      /\ s \in Trees /\ s.nodes \subseteq Keys /\ Labels(lo, hi, h) /\ Null \notin s.red
  BY CalmNode, KeysFinite DEF Calm, Trees
<1>2. /\ \A x : pi(pi(x)) = x
      /\ \A x \in Keys : pi(x) \in Keys
      /\ \A x : pi(x) = k <=> x = a
      /\ \A x : pi(x) = a <=> x = k
      /\ pi(Null) = Null /\ pi(k) = a
  BY <1>1 DEF Other
<1>3. Labels(lo2, hi2, h2)
  BY <1>1, <1>2 DEF Labels
<1>4. \A x \in Keys : lo2[x] = f(lo[pi(x)]) /\ hi2[x] = f(hi[pi(x)]) /\ h2[x] = h[pi(x)]
  OBVIOUS
<1>5. /\ r \in Trees
      /\ \A x \in Keys : /\ r.up[x] = pi(s.up[pi(x)]) /\ r.left[x] = pi(s.left[pi(x)])
                         /\ r.right[x] = pi(s.right[pi(x)])
                         /\ x \in r.nodes <=> pi(x) \in s.nodes
      /\ \A x \in Ptr : /\ x \in r.red <=> pi(x) \in s.red
                        /\ x \in r.redlink <=> pi(x) \in s.redlink
  BY DEF Swapped
<1> HIDE DEF pi, lo2, hi2, h2
<1>6. r.nodes \subseteq Keys /\ Null \notin r.red
  BY <1>1, <1>5 DEF Trees
<1>7. ASSUME NEW y \in s.nodes
      PROVE  /\ y \in Keys /\ y \in Int /\ y # Null /\ lo[y] < y /\ y < hi[y] /\ lo[y] \in Int
                /\ hi[y] \in Int
             /\ s.left[y] # Null => /\ s.left[y] \in s.nodes /\ s.up[s.left[y]] = y
                                    /\ lo[s.left[y]] = lo[y] /\ hi[s.left[y]] = y
             /\ s.right[y] # Null => /\ s.right[y] \in s.nodes /\ s.up[s.right[y]] = y
                                     /\ lo[s.right[y]] = y /\ hi[s.right[y]] = hi[y]
             /\ Hung(s, top, y) /\ Weighed(s, h, Null, y) /\ Coloured(s, y)
                /\ Placed(s, lo, hi, Null, y)
  BY <1>7, CalmNode DEF Calm, Sound
<1>8. ASSUME NEW x \in r.nodes PROVE Placed(r, lo2, hi2, k, x)
  <2> DEFINE y == pi(x)
  <2>1. x \in Keys /\ y \in s.nodes /\ pi(y) = x /\ y \in Keys
    BY <1>2, <1>5, <1>6
  <2>2. r.left[x] = pi(s.left[y]) /\ r.right[x] = pi(s.right[y]) /\ lo2[x] = f(lo[y])
          /\ hi2[x] = f(hi[y])
    BY <1>4, <1>5, <2>1
  <2> HIDE DEF y
  <2>3. s.left[y] \in s.nodes \cup {Null} /\ s.right[y] \in s.nodes \cup {Null}
    BY <1>7, <2>1
  <2>4. \A c \in s.nodes \cup {Null} : pi(c) \in r.nodes \cup {Null}
          /\ (pi(c) = Null <=> c = Null)
    <3> TAKE c \in s.nodes \cup {Null}
    <3>1. CASE c = Null
      BY <1>2, <3>1
    <3>2. CASE c \in s.nodes
      <4>1. pi(c) \in Keys /\ pi(pi(c)) = c
        BY <1>1, <1>2, <3>2
      <4> QED
        BY <1>1, <1>5, <3>2, <4>1
    <3> QED
      BY <3>1, <3>2
  <2>5. x = k <=> y = a
    BY <1>2, <2>1
  <2>6. x = k => r.left[x] = Null /\ r.right[x] = Null
    BY <1>2, <2>2, <2>5
  <2>7. x # k => f(y) = x
    BY <1>1, <2>1, <2>5 DEF pi, Other
  <2>8. ASSUME x # k PROVE lo2[x] < x /\ x < hi2[x]
    <3>1. x \in Int /\ y # a
      BY <1>1, <2>1, <2>5, <2>8
    <3>2. CASE y = k
      <4>1. x = a
        BY <2>7, <2>8, <3>2
      <4>2. lo[k] < k /\ k < hi[k] /\ lo[k] \in Int /\ hi[k] \in Int
        BY <1>7
      <4> QED
        BY <1>1, <2>2, <3>2, <4>1, <4>2
    <3>3. CASE y # k
      <4>1. x = y
        BY <2>7, <2>8, <3>3
      <4>2. lo[y] < y /\ y < hi[y] /\ lo[y] \in Int /\ hi[y] \in Int /\ y \in Int
        BY <1>7, <2>1
      <4>3. k < y => a < y
        BY <1>1, <2>1, <3>1, <4>2
      <4> QED
        BY <1>1, <2>2, <4>1, <4>2, <4>3
    <3> QED
      BY <3>2, <3>3
  <2>9. ASSUME NEW c \in s.nodes
        PROVE  r.up[pi(c)] = pi(s.up[c]) /\ lo2[pi(c)] = f(lo[c]) /\ hi2[pi(c)] = f(hi[c])
    <3>1. pi(c) \in Keys /\ pi(pi(c)) = c
      BY <1>1, <1>2
    <3> QED
      BY <1>4, <1>5, <3>1
  <2>10. r.left[x] # Null => x # k /\ r.up[r.left[x]] = x /\ lo2[r.left[x]] = lo2[x]
           /\ hi2[r.left[x]] = x
    <3>1. SUFFICES ASSUME r.left[x] # Null
                   PROVE  x # k /\ r.up[r.left[x]] = x /\ lo2[r.left[x]] = lo2[x]
                        /\ hi2[r.left[x]] = x
      OBVIOUS
    <3> DEFINE c == s.left[y]
    <3>2. c # Null /\ c \in s.nodes /\ x # k
      BY <1>2, <2>2, <2>3, <2>6, <3>1
    <3>3. s.up[c] = y /\ lo[c] = lo[y] /\ hi[c] = y
      BY <1>7, <2>1, <3>2
    <3> HIDE DEF c
    <3>4. r.up[pi(c)] = x /\ lo2[pi(c)] = lo2[x] /\ hi2[pi(c)] = x
      BY <2>1, <2>2, <2>7, <2>9, <3>2, <3>3
    <3> QED
      BY <2>2, <3>2, <3>4 DEF c
  <2>11. r.right[x] # Null /\ x # k => r.up[r.right[x]] = x /\ lo2[r.right[x]] = x
           /\ hi2[r.right[x]] = hi2[x]
    <3>1. SUFFICES ASSUME r.right[x] # Null, x # k
                   PROVE  r.up[r.right[x]] = x /\ lo2[r.right[x]] = x
                        /\ hi2[r.right[x]] = hi2[x]
      OBVIOUS
    <3> DEFINE c == s.right[y]
    <3>2. c # Null /\ c \in s.nodes
      BY <1>2, <2>2, <2>3, <3>1
    <3>3. s.up[c] = y /\ lo[c] = y /\ hi[c] = hi[y]
      BY <1>7, <2>1, <3>2
    <3> HIDE DEF c
    <3>4. r.up[pi(c)] = x /\ lo2[pi(c)] = x /\ hi2[pi(c)] = hi2[x]
      BY <2>1, <2>2, <2>7, <2>9, <3>1, <3>2, <3>3
    <3> QED
      BY <2>2, <3>4 DEF c
  <2>12. r.left[x] \in r.nodes \cup {Null} /\ r.right[x] \in r.nodes \cup {Null}
    BY <2>2, <2>3, <2>4
  <2> QED
    BY <1>1, <2>6, <2>8, <2>10, <2>11, <2>12 DEF Placed
<1>9. top \in s.nodes /\ top2 = pi(top) /\ top2 \in r.nodes /\ top2 \in Keys
  <2>1. top \in s.nodes
    BY DEF Calm, Sound
  <2>2. top2 = pi(top)
    BY DEF pi, Other
  <2>3. pi(top) \in Keys /\ pi(pi(top)) = top
    BY <1>1, <1>2, <2>1
  <2> QED
    BY <1>5, <2>1, <2>2, <2>3
<1> HIDE DEF top2
<1>10. ASSUME NEW x \in r.nodes
       PROVE  Hung(r, top2, x) /\ Weighed(r, h2, Null, x) /\ Coloured(r, x)
  <2> DEFINE y == pi(x)
  <2>1. x \in Keys /\ x \in Ptr /\ y \in s.nodes /\ pi(y) = x /\ y \in Keys /\ x # Null
          /\ y # Null
    BY <1>1, <1>2, <1>5, <1>6 DEF Ptr
  <2>2. r.left[x] = pi(s.left[y]) /\ r.right[x] = pi(s.right[y]) /\ r.up[x] = pi(s.up[y])
          /\ h2[x] = h[y]
    BY <1>4, <1>5, <2>1
  <2>3. (x \in r.red <=> y \in s.red) /\ (x \in r.redlink <=> y \in s.redlink)
    BY <1>5, <2>1
  <2> HIDE DEF y
  <2>4. Hung(s, top, y) /\ Weighed(s, h, Null, y) /\ Coloured(s, y)
        /\ s.left[y] \in s.nodes \cup {Null} /\ s.right[y] \in s.nodes \cup {Null}
    BY <1>7, <2>1
  <2>5. Hung(r, top2, x)
    <3>1. x = top2 <=> y = top
      BY <1>2, <1>9, <2>1
    <3>2. CASE y = top
      BY <1>2, <2>2, <2>4, <3>1, <3>2 DEF Hung
    <3>3. CASE y # top
      <4> DEFINE u == s.up[y]
      <4>1. u \in s.nodes /\ (y = s.left[u] \/ y = s.right[u])
        BY <2>4, <3>3 DEF Hung
      <4> HIDE DEF u
      <4>2. u \in Keys /\ pi(u) \in Keys /\ pi(pi(u)) = u
        BY <1>1, <1>2, <4>1
      <4>3. pi(u) \in r.nodes /\ (x = r.left[pi(u)] \/ x = r.right[pi(u)])
        BY <1>5, <2>1, <4>1, <4>2
      <4>4. r.up[x] = pi(u)
        BY <2>2 DEF u
      <4> QED
        BY <3>1, <3>3, <4>3, <4>4 DEF Hung
    <3> QED
      BY <3>2, <3>3
  <2>6. ASSUME NEW c \in s.nodes \cup {Null}
        PROVE  Height(h2, pi(c)) = Height(h, c) /\ (pi(c) \in r.red <=> c \in s.red)
    <3>1. CASE c = Null
      BY <1>1, <1>2, <1>6, <3>1 DEF Height
    <3>2. CASE c # Null
      <4>1. c \in Keys /\ pi(c) \in Keys /\ pi(pi(c)) = c /\ pi(c) # Null /\ pi(c) \in Ptr
        BY <1>1, <1>2, <3>2 DEF Ptr
      <4> QED
        BY <1>4, <1>5, <3>2, <4>1 DEF Height
    <3> QED
      BY <3>1, <3>2
  <2>7. /\ Height(h2, r.left[x]) = Height(h, s.left[y])
           /\ Height(h2, r.right[x]) = Height(h, s.right[y])
        /\ r.left[x] \in r.red <=> s.left[y] \in s.red
        /\ r.right[x] \in r.red <=> s.right[y] \in s.red
    BY <2>2, <2>4, <2>6
  <2>8. Weighed(r, h2, Null, x)
    BY <2>1, <2>2, <2>3, <2>4, <2>7 DEF Weighed
  <2>9. Coloured(r, x)
    BY <2>3, <2>4, <2>7 DEF Coloured
  <2> QED
    BY <2>5, <2>8, <2>9
<1>11. Height(h2, top2) = Height(h, top)
  BY <1>1, <1>2, <1>4, <1>9 DEF Height
<1>12. top2 # Null /\ top2 \notin r.red /\ \A x \in Keys : lo2[top2] < x /\ x < hi2[top2]
  <2>1. top \notin s.red /\ \A x \in Keys : lo[top] < x /\ x < hi[top]
    BY <1>1, <1>9 DEF Calm, Sound
  <2>2. top2 \in Ptr /\ pi(top2) = top
    BY <1>2, <1>9 DEF Ptr
  <2>3. top2 \notin r.red
    BY <1>5, <2>1, <2>2
  <2>4. lo[top] # k /\ hi[top] # k
    BY <1>1, <2>1
  <2>5. lo2[top2] = lo[top] /\ hi2[top2] = hi[top]
    BY <1>4, <1>9, <2>2, <2>4
  <2> QED
    BY <1>1, <1>9, <2>1, <2>3, <2>5
<1>13. Sound(r, top2, lo2, hi2, h2, k, Null)
  BY <1>8, <1>9, <1>10, <1>12 DEF Sound
<1> QED
  BY <1>3, <1>11, <1>13 DEF top2

(* A node whose only child is red: the child takes its place.              *)
ToChild(s, k, l) == Free([SetBlackLink(Swap(s, k, l), l) EXCEPT !.left[l] = Null], k)

(* The rules once the red child is cut off.                                *)
LEMMA ToChildSound ==
  ASSUME NEW s, NEW top, NEW lo, NEW hi, NEW h, Calm(s, top, lo, hi, h), s.isroot = {top},
         NEW k \in s.nodes, s.right[k] = Null, NEW l, l = s.left[k], k \in s.redlink
  PROVE  /\ ToChild(s, k, l) \in Trees /\ ToChild(s, k, l).nodes = s.nodes \ {k}
         /\ ToChild(s, k, l).isroot = {IF top = k THEN l ELSE top}
         /\ \E lo2, hi2, h2 : /\ Labels(lo2, hi2, h2)
                              /\ Sound(ToChild(s, k, l), IF top = k THEN l
                                 ELSE top, lo2, hi2, h2, Null, Null)
                              /\ Height(h2, IF top = k THEN l ELSE top) = Height(h, top)
<1> DEFINE w == Swap(s, k, l)
           b == SetBlackLink(w, l)
           e == [b EXCEPT !.left[l] = Null]
           r == Free(e, k)
           top2 == IF top = k THEN l ELSE top
<1>0. ToChild(s, k, l) = r
  BY DEF ToChild
<1>1. /\ s \in Trees /\ Labels(lo, hi, h) /\ Sound(s, top, lo, hi, h, Null, Null)
         /\ top \in s.nodes
      /\ Null \notin Keys /\ s.nodes \subseteq Keys /\ Null \notin s.red
  BY KeysFinite DEF Calm, Sound, Trees
<1>2. /\ k \in Keys /\ k \in Int /\ k # Null /\ lo[k] \in Int /\ hi[k] \in Int /\ h[k] \in Nat
      /\ lo[k] < k /\ k < hi[k] /\ Weighed(s, h, Null, k) /\ Coloured(s, k) /\ Hung(s, top, k)
  BY CalmNode DEF Calm, Sound
<1>3. l \in s.red /\ l \in s.nodes /\ s.left[l] = Null /\ s.right[l] = Null /\ k \notin s.red
  BY <1>2, Childless DEF Coloured
<1>4. /\ l \in Keys /\ l \in Int /\ l # Null /\ s.up[l] = k /\ lo[l] = lo[k] /\ hi[l] = k
         /\ lo[l] < l /\ l < k
      /\ h[l] = 0 /\ l # k /\ l # top
  <2>1. /\ l \in Keys /\ l \in Int /\ l # Null /\ s.up[l] = k /\ lo[l] = lo[k] /\ hi[l] = k
           /\ lo[l] < l /\ l < k
    BY <1>3, CalmNode
  <2>2. h[l] = Height(h, s.left[l]) + 0
    BY <1>3, CalmNode DEF Weighed
  <2>3. h[l] = 0
    BY <1>3, <2>2 DEF Height
  <2>4. l # top
    BY <1>1, <1>2, <2>1, CalmNode
  <2>5. l # k
    BY <1>3
  <2> QED
    BY <2>1, <2>3, <2>4, <2>5
<1>5. h[k] = 1
  <2>1. h[k] = Height(h, s.left[k]) + 1
    BY <1>2, <1>3 DEF Weighed
  <2> QED
    BY <1>4, <2>1 DEF Height
<1>6. Swapped(s, k, l, w)
  BY <1>1, <1>2, <1>4, Does
<1> HIDE DEF w
<1>7. BlackLinked(w, l, b)
  <2>1. w \in Trees
    BY <1>6 DEF Swapped
  <2> QED
    BY <1>4, <2>1, Does DEF Ptr
<1> HIDE DEF b
<1>8. /\ e \in Trees /\ e.nodes = b.nodes /\ e.right = b.right /\ e.up = b.up /\ e.red = b.red
      /\ e.redlink = b.redlink /\ e.isroot = b.isroot
      /\ \A x \in Keys : e.left[x] = (IF x = l THEN Null ELSE b.left[x])
  <2>1. b \in Trees
    BY <1>7 DEF BlackLinked, Shaped
  <2> QED
    BY <1>4, <2>1 DEF Trees, Ptr
<1> HIDE DEF e
<1>9. Freed(e, k, r)
  BY <1>2, <1>8, Does
<1> HIDE DEF r
<1>10. ASSUME NEW x \in Keys, x # k
       PROVE  /\ r.left[x] = (IF x = l THEN Null ELSE w.left[x]) /\ r.right[x] = w.right[x]
                 /\ r.up[x] = w.up[x]
              /\ x \in r.nodes <=> x \in w.nodes
              /\ x \in r.red <=> x \in w.red
              /\ x \in r.redlink <=> (x # l /\ x \in w.redlink)
              /\ x \in r.isroot <=> x \in w.isroot
  BY <1>10, <1>7, <1>8, <1>9 DEF BlackLinked, Shaped, Freed
<1>11. ASSUME NEW x \in s.nodes \ {k, l}
       PROVE  /\ x \in Keys /\ x # k /\ x # l
              /\ s.left[x] # l /\ s.right[x] # l
              /\ s.up[x] # k /\ s.up[x] # l
  <2>1. x \in Keys /\ x # Null /\ x # k /\ x # l
    BY <1>1
  <2>2. s.left[x] # l /\ s.right[x] # l
    BY <1>4, <2>1, CalmNode
  <2>3. s.up[x] = k => x = s.left[k] \/ x = s.right[k]
    BY <1>2, <2>1, CalmNode
  <2>4. s.up[x] = l => x = s.left[l] \/ x = s.right[l]
    BY <1>4, <2>1, CalmNode
  <2> QED
    BY <1>3, <2>1, <2>2, <2>3, <2>4
<1>12. s.up[k] # k /\ s.up[k] # l
  <2>1. CASE k = top
    BY <1>2, <1>4, <2>1 DEF Hung
  <2>2. CASE k # top
    <3>1. k = s.left[s.up[k]] \/ k = s.right[s.up[k]]
      BY <1>2, <2>2 DEF Hung
    <3>2. s.left[k] # k /\ s.right[k] # k
      BY <1>2, <1>4
    <3> QED
      BY <1>2, <1>3, <3>1, <3>2
  <2> QED
    BY <2>1, <2>2
<1>13. /\ r.left[l] = Null /\ r.right[l] = Null /\ r.up[l] = s.up[k]
       /\ l \notin r.red /\ l \notin r.redlink
  <2>1. Keys \subseteq Ptr
    BY DEF Ptr
  <2>2. w.right[l] = Null /\ w.up[l] = s.up[k] /\ (l \in w.red <=> k \in s.red)
    BY <1>2, <1>4, <1>6, <1>12, <2>1 DEF Swapped, Other
  <2> QED
    BY <1>3, <1>4, <1>10, <2>2
<1>14. ASSUME NEW x \in s.nodes \ {k, l}
       PROVE  /\ r.left[x] = (IF s.left[x] = k THEN l ELSE s.left[x])
              /\ r.right[x] = (IF s.right[x] = k THEN l ELSE s.right[x])
              /\ x \in r.red <=> x \in s.red
              /\ x \in r.redlink <=> x \in s.redlink
              /\ r.up[x] = s.up[x]
  <2>1. x \in Ptr
    BY <1>11 DEF Ptr
  <2>2. /\ w.left[x] = (IF s.left[x] = k THEN l ELSE s.left[x])
        /\ w.right[x] = (IF s.right[x] = k THEN l ELSE s.right[x])
        /\ x \in w.red <=> x \in s.red
        /\ x \in w.redlink <=> x \in s.redlink
        /\ w.up[x] = s.up[x]
    BY <1>6, <1>11, <2>1 DEF Swapped, Other
  <2> QED
    BY <1>10, <1>11, <2>2
<1>15. r \in Trees /\ r.nodes = s.nodes \ {k}
  <2>1. r \in Trees /\ k \notin r.nodes /\ r.nodes \subseteq Keys
    BY <1>9 DEF Freed, Trees
  <2>2. \A x \in Keys : x # k => (x \in r.nodes <=> x \in s.nodes)
    BY <1>3, <1>6, <1>10 DEF Swapped, Other
  <2> QED
    BY <1>1, <2>1, <2>2
<1>16. r.isroot = {top2}
  <2>1. r.isroot \subseteq Keys /\ top \in Keys /\ Keys \subseteq Ptr
    BY <1>1, <1>15 DEF Trees, Ptr
  <2>2. k \notin r.isroot
    BY <1>9 DEF Freed
  <2>3. \A x \in Keys : x # k => (x \in r.isroot <=> x = top2)
    BY <1>4, <1>6, <1>10, <2>1 DEF Swapped, Other
  <2> QED
    BY <1>4, <2>1, <2>2, <2>3
<1> DEFINE D == {k, l}
           E == {l}
           lo2 == lo
           hi2 == [hi EXCEPT ![l] = hi[k]]
           h2 == [h EXCEPT ![l] = h[k]]
<1>17. /\ Labels(lo2, hi2, h2)
       /\ \A x \in Keys : x # l => lo2[x] = lo[x] /\ hi2[x] = hi[x] /\ h2[x] = h[x]
       /\ lo2[l] = lo[k] /\ hi2[l] = hi[k] /\ h2[l] = 1
  BY <1>1, <1>2, <1>4, <1>5 DEF Labels
<1> HIDE DEF lo2, hi2, h2
<1>18. Part(s, top, D, k)
  BY <1>3, <1>4 DEF Part
<1>19. Exchange(s, top, Null, Null, r, top2, Null, Null, D, E, k, l)
  BY <1>1, <1>3, <1>4, <1>15 DEF Exchange
<1>20. SameOutside(s, lo, hi, h, r, lo2, hi2, h2, D, E, k, l)
  BY <1>11, <1>14, <1>17 DEF SameOutside
<1>21. SameAbove(s, top, lo, hi, h, r, lo2, hi2, h2, k, l)
  BY <1>3, <1>4, <1>5, <1>13, <1>17 DEF SameAbove, Height
<1>22. SoundInside(r, lo2, hi2, h2, Null, Null, E, l)
  <2>1. Placed(r, lo2, hi2, Null, l)
    BY <1>2, <1>4, <1>13, <1>17 DEF Placed
  <2>2. Weighed(r, h2, Null, l)
    BY <1>4, <1>13, <1>17 DEF Weighed, Height
  <2>3. Null \notin r.red
    BY <1>1, <1>15 DEF Trees
  <2>4. Coloured(r, l)
    BY <1>13, <2>3 DEF Coloured
  <2> QED
    BY <2>1, <2>2, <2>4 DEF SoundInside
<1>23. Height(h2, top2) = Height(h, top)
  <2>1. top \in Keys /\ top # Null
    BY <1>1
  <2> QED
    BY <1>4, <1>5, <1>17, <2>1 DEF Height
<1>24. k # top \/ (l # Null /\ l \notin r.red /\ l # Null)
  BY <1>4, <1>13
<1> HIDE DEF top2
<1>25. Sound(r, top2, lo2, hi2, h2, Null, Null)
  <2> HIDE DEF D, E
  <2> QED
    BY <1>1, <1>15, <1>17, <1>18, <1>19, <1>20, <1>21, <1>22, <1>24, ReplacedSound
<1> QED
  BY <1>0, <1>15, <1>16, <1>17, <1>23, <1>25 DEF top2

(* rbt_remove finds the node, and the place its removal starts from.       *)
LEMMA RemoveBeginInv ==
  ASSUME Inv, NEW k \in Keys, RemoveBegin(k)
  PROVE  Inv' /\ t'.nodes = (IF pc' = "idle" THEN t.nodes \ {k} ELSE t.nodes)
<1>0. pc = "idle" /\ Search(k) # Null
  BY DEF RemoveBegin
<1>1. PICK lo, hi, h : Calm(t, root, lo, hi, h) /\ depth = Height(h, root)
  BY <1>0, Idle
<1>2. k \in t.nodes
  BY <1>0, <1>1, SearchIs
<1>3. /\ t.isroot = {root} \ {Null} /\ count = Cardinality(t.nodes) /\ t.nodes # {}
         /\ root # Null /\ t \in Trees
      /\ t.isroot = {root}
  <2>1. t.isroot = {root} \ {Null} /\ count = Cardinality(t.nodes)
          /\ (root = Null <=> t.nodes = {})
    BY <1>0, Idle
  <2> QED
    BY <1>1, <1>2, <2>1 DEF Calm
<1>4. Labels(lo, hi, h) /\ Sound(t, root, lo, hi, h, Null, Null) /\ k # Null
        /\ Null \notin t.red
      /\ Null \notin Keys /\ root \in t.nodes /\ root \in Keys
  BY <1>1, <1>2, <1>3, KeysFinite DEF Calm, Sound, Trees
<1>5. CASE t.right[k] = Null /\ k \in t.redlink
  <2> DEFINE l == t.left[k]
             r == ToChild(t, k, l)
             top2 == IF root = k THEN l ELSE root
  <2>1. t' = r /\ root' = top2 /\ count' = count - 1 /\ Return("ok") /\ depth' = depth
          /\ pool' = pool
    BY <1>5 DEF RemoveBegin, ToChild
  <2> HIDE DEF l
  <2>2. /\ r \in Trees /\ r.nodes = t.nodes \ {k} /\ r.isroot = {top2}
        /\ \E lo2, hi2, h2 : /\ Labels(lo2, hi2, h2) /\ Sound(r, top2, lo2, hi2, h2, Null, Null)
                             /\ Height(h2, top2) = Height(h, root)
    <3>1. l = t.left[k]
      BY DEF l
    <3> QED
      BY <1>1, <1>2, <1>3, <1>5, <3>1, ToChildSound
  <2> HIDE DEF r, top2
  <2>3. PICK lo2, hi2, h2 : /\ Labels(lo2, hi2, h2) /\ Sound(r, top2, lo2, hi2, h2, Null, Null)
                            /\ Height(h2, top2) = Height(h, root)
    BY <2>2
  <2>4. Calm(t', root', lo2, hi2, h2) /\ depth' = Height(h2, root')
    BY <1>1, <2>1, <2>2, <2>3 DEF Calm
  <2>5. IsFiniteSet(t.nodes)
    BY TypesAre
  <2>6. Cardinality(t.nodes \ {k}) = Cardinality(t.nodes) - 1
    BY <1>2, <2>5, FS_RemoveElement
  <2>7. count' = Cardinality(t'.nodes) /\ pool' \in 0..PoolSize
    BY <1>3, <2>1, <2>2, <2>6, TypesAre
  <2>8. t'.isroot = {root'} \ {Null}
    <3>1. top2 # Null
      BY <1>4, <2>2 DEF Trees
    <3> QED
      BY <2>1, <2>2, <3>1
  <2> QED
    BY <2>1, <2>2, <2>4, <2>7, <2>8, Returned DEF Return
<1>6. CASE t.right[k] = Null /\ k \notin t.redlink
  <2>1. t' = t /\ root' = root /\ pc' = "remove" /\ node' = k /\ key' = k
        /\ UNCHANGED <<depth, count, pool, parent, answer>>
    BY <1>6 DEF RemoveBegin
  <2>2. t.left[k] = Null
    <3>1. t.left[k] \notin t.red
      BY <1>1, <1>2, <1>6, CalmNode DEF Coloured
    <3> QED
      BY <1>1, <1>2, <1>6, <3>1, Childless
  <2>3. Sound(t, root, lo, hi, h, k, Null)
    BY <1>1, <1>2, <1>6, <2>2, HoleMade
  <2>4. Fits(lo, hi, h)'
    BY <1>1, <1>4, <2>1, <2>3 DEF Fits, View, Hole, Hot
  <2>5. TypeOK'
    BY <2>1, TypesAre DEF TypeOK, Ptr, Trees
  <2>6. Counted'
    BY <1>0, <1>3, <2>1, TypesAre DEF Counted
  <2>7. InHand'
    BY <1>2, <2>1 DEF InHand
  <2> QED
    BY <2>1, <2>4, <2>5, <2>6, <2>7 DEF Inv
<1>7. CASE t.right[k] # Null
  <2> DEFINE a == First(t.right[k])
             r == Swap(t, k, a)
             top2 == IF root = k THEN a ELSE root
  <2>1. /\ a \in t.nodes /\ k < a /\ a < hi[k] /\ a # root
        /\ t.left[a] = Null /\ t.right[a] = Null
        /\ \A m \in t.nodes : k < m => a <= m
    BY <1>1, <1>2, <1>3, <1>7, Successor
  <2>2. a \in Keys /\ a # Null
    BY <1>1, <2>1, CalmNode
  <2>3. k \notin r.redlink => /\ t' = r /\ root' = top2 /\ pc' = "remove" /\ node' = k
                                 /\ key' = k
                              /\ UNCHANGED <<depth, count, pool, parent, answer>>
    BY <1>7 DEF RemoveBegin
  <2> HIDE DEF a
  <2>4. Swapped(t, k, a, r)
    BY <1>3, <2>2, Does
  <2>5. k \notin r.redlink
    <3>1. a \notin t.redlink
      BY <1>1, <1>4, <2>1, CalmNode DEF Coloured
    <3>2. k \in r.redlink <=> a \in t.redlink
      BY <2>4 DEF Swapped, Other, Ptr
    <3> QED
      BY <3>1, <3>2
  <2> HIDE DEF r
  <2>6. r \in Trees /\ r.nodes = t.nodes /\ r.isroot = {top2}
    <3>1. r \in Trees /\ r.nodes \subseteq Keys /\ t.nodes \subseteq Keys
            /\ r.isroot \subseteq Keys /\ top2 \in Keys
      BY <1>3, <1>4, <2>2, <2>4 DEF Swapped, Trees
    <3>2. \A x \in Keys : x \in r.nodes <=> x \in t.nodes
      BY <1>2, <2>1, <2>4 DEF Swapped, Other
    <3>3. \A x \in Keys : x \in r.isroot <=> x = top2
      BY <1>3, <1>4, <2>1, <2>4 DEF Swapped, Other, Ptr
    <3> QED
      BY <3>1, <3>2, <3>3
  <2>7. PICK lo2, hi2, h2 : /\ Labels(lo2, hi2, h2) /\ Sound(r, top2, lo2, hi2, h2, k, Null)
                            /\ Height(h2, top2) = Height(h, root)
    BY <1>1, <1>2, <2>1, <2>4, SwappedSound
  <2>8. /\ t' = r /\ root' = top2 /\ pc' = "remove" /\ node' = k /\ key' = k
        /\ UNCHANGED <<depth, count, pool, parent, answer>>
    BY <2>3, <2>5
  <2>9. top2 \in Ptr /\ top2 # Null
    BY <1>4, <2>2 DEF Ptr
  <2> HIDE DEF top2
  <2>10. Fits(lo2, hi2, h2)'
    BY <1>1, <2>7, <2>8 DEF Fits, View, Hole, Hot
  <2>11. TypeOK'
    BY <2>6, <2>8, <2>9, TypesAre DEF TypeOK, Ptr, Trees
  <2>12. Counted'
    BY <1>0, <1>3, <2>6, <2>8, <2>9, TypesAre DEF Counted
  <2>13. InHand'
    BY <1>2, <2>6, <2>8 DEF InHand
  <2> QED
    BY <2>6, <2>8, <2>10, <2>11, <2>12, <2>13 DEF Inv
<1> QED
  BY <1>5, <1>6, <1>7

-----------------------------------------------------------------------------
(* rbt_insert, on the way up.                                              *)

(* The parent of one node is written.                                      *)
UpTurned(s, n, g, r) ==
  /\ r \in Trees /\ r.nodes = s.nodes /\ r.left = s.left /\ r.right = s.right
  /\ r.red = s.red /\ r.redlink = s.redlink /\ r.isroot = s.isroot
  /\ \A x \in Keys : r.up[x] = (IF x = n THEN g ELSE s.up[x])

(* It changes nothing else.                                                *)
LEMMA UpTurns ==
  ASSUME NEW s, s \in Trees, NEW n, n \in Keys, NEW g, g \in Ptr
  PROVE  UpTurned(s, n, g, [s EXCEPT !.up[n] = g])
<1> DEFINE f == [s.up EXCEPT ![n] = g]
           r == [s EXCEPT !.up[n] = g]
<1>1. r = [s EXCEPT !.up = f]
  BY DEF Trees
<1>2. f \in [Keys -> Ptr] /\ \A x \in Keys : f[x] = (IF x = n THEN g ELSE s.up[x])
  BY DEF Trees
<1> HIDE DEF r, f
<1>3. /\ r \in Trees /\ r.nodes = s.nodes /\ r.left = s.left /\ r.right = s.right /\ r.up = f
      /\ r.red = s.red /\ r.redlink = s.redlink /\ r.isroot = s.isroot
  BY <1>1, <1>2 DEF Trees
<1> QED
  BY <1>2, <1>3 DEF UpTurned, r

(* What the insertion ends with.                                           *)
LEMMA InsertionEnds ==
  ASSUME Inv, pc = "insert", InsertDone, t' \in Trees, t'.nodes = t.nodes,
         t'.isroot = {root'} \ {Null},
         NEW lo, NEW hi, NEW h, Labels(lo, hi, h), Sound(t', root', lo, hi, h, Null, Null),
         depth' = Height(h, root')
  PROVE  Inv' /\ t'.nodes = t.nodes
<1>1. Calm(t', root', lo, hi, h)
  BY DEF Calm
<1>2. count' = Cardinality(t'.nodes) /\ pool' \in 0..PoolSize /\ Return("ok")
  BY TypesAre DEF Inv, Counted, InsertDone
<1> QED
  BY <1>1, <1>2, Returned

(* The steps of InsertRight on the structure.                              *)
ToJoinedRight(s, p, n, g) ==
  LET hung == HangInstead(s, p, n, g)
      k1 == LinkRight(hung, p, s.left[n])
      k2 == LinkLeft(k1, n, p)
      k3 == [k2 EXCEPT !.up[n] = g]
      k4 == SetRed(k3, p)
  IN SetRedLink(k4, n)

(* InsertRight keeps the invariant.                                        *)
LEMMA InsertRightInv ==
  ASSUME Inv, InsertRight
  PROVE  Inv' /\ t'.nodes = t.nodes
<1> DEFINE p == parent
           n == node
           g == t.up[p]
           v == View
           D == {p, n}
           b == t.left[n]
           hung == HangInstead(t, p, n, g)
           k1 == LinkRight(hung, p, b)
           k2 == LinkLeft(k1, n, p)
           k3 == [k2 EXCEPT !.up[n] = g]
           k4 == SetRed(k3, p)
           r == SetRedLink(k4, n)
<1>0. /\ pc = "insert" /\ p \notin t.red /\ p \notin t.redlink /\ p <= n
      /\ t' = r /\ root' = (IF p \in t.isroot THEN n ELSE root) /\ InsertDone /\ depth' = depth
  BY DEF InsertRight, Joining, HangInstead
<1>1. PICK lo, hi, h : Fits(lo, hi, h)
  BY DEF Inv
<1>2. /\ v \in Trees /\ Labels(lo, hi, h) /\ Sound(v, root, lo, hi, h, Null, n)
      /\ t \in Trees /\ n \in t.nodes /\ p \in t.nodes /\ n # p
      /\ t.nodes \subseteq Keys /\ n \in Keys /\ p \in Keys /\ n \in Int /\ p \in Int
         /\ Null \notin Keys
      /\ n \notin t.red /\ n \notin t.redlink
      /\ root \in t.nodes /\ root # n /\ root # Null /\ t.isroot = {root} /\ depth = h[root]
      /\ v.nodes = t.nodes /\ v.red = t.red /\ v.redlink = t.redlink
      /\ \A x \in Keys : /\ v.left[x] = t.left[x]
                         /\ v.right[x] = (IF x = p THEN n ELSE t.right[x])
                         /\ v.up[x] = (IF x = n THEN p ELSE t.up[x])
  <2>1. ~(p > n)
    BY <1>0, <1>1, Inserting
  <2> QED
    BY <1>0, <1>1, <2>1, Inserting
<1> HIDE DEF v
<1>3. JoinRight(v, p, n)
  BY <1>0, <1>2 DEF JoinRight
<1>4. JoinRightAround(v, root, lo, hi, h, p, n)
  BY <1>2, <1>3, JoinRightApart
<1>5. /\ t.up[p] = v.up[p] /\ v.up[n] = p /\ g \notin D /\ n # root /\ p # Null /\ n # Null
      /\ v.left[p] = t.left[p] /\ v.left[n] = b /\ v.right[n] = t.right[n]
      /\ v.left[p] # Null => v.left[p] \in v.nodes \ D /\ v.up[v.left[p]] = p
      /\ b # Null => b \in v.nodes \ D /\ v.up[b] = n
      /\ v.right[n] # Null => v.right[n] \in v.nodes \ D /\ v.up[v.right[n]] = n
      /\ b # Null => b # v.right[n]
      /\ b \in v.nodes \cup {Null}
  BY <1>2, <1>4 DEF JoinRightAround
<1>6. /\ p = root => g = Null
      /\ p # root => g \in t.nodes /\ (v.left[g] = p \/ v.right[g] = p)
  BY <1>2, <1>5, SoundNode DEF Hung
<1>7. ASSUME NEW x \in t.nodes, x \notin D
      PROVE  /\ v.left[x] = p => x = g
             /\ v.right[x] = p => x = g
             /\ v.left[x] # n /\ v.right[x] # n /\ (v.left[x] # Null => v.left[x] # v.right[x])
  <2>1. Placed(v, lo, hi, Null, x) /\ x # Null
    BY <1>2, <1>7, SoundNode
  <2>2. v.left[x] # Null => v.left[x] # v.right[x]
    BY <1>2, <1>7, <2>1, SoundNode
  <2> QED
    BY <1>2, <1>5, <1>7, <2>1, <2>2 DEF Placed
<1>8. Keys \subseteq Ptr /\ Null \in Ptr /\ g \in Ptr /\ b \in Ptr
        /\ (p \in t.isroot \/ g \in Keys)
      /\ (p \in t.isroot <=> p = root)
  BY <1>2, <1>5, <1>6 DEF Ptr
<1>9. Rehung(t, p, n, g, hung)
  <2>1. g = t.up[p]
    OBVIOUS
  <2> HIDE DEF g
  <2> QED
    BY <1>2, <1>8, <2>1, Rehangs
<1> HIDE DEF hung, g, b
<1>10. RightLinked(hung, p, b, k1)
  BY <1>2, <1>8, <1>9, Does DEF Rehung
<1> HIDE DEF k1
<1>11. LeftLinked(k1, n, p, k2)
  BY <1>2, <1>8, <1>10, Does DEF RightLinked
<1> HIDE DEF k2
<1>12. UpTurned(k2, n, g, k3)
  BY <1>2, <1>8, <1>11, UpTurns DEF LeftLinked
<1> HIDE DEF k3
<1>13. Reddened(k3, p, k4)
  BY <1>2, <1>12, Does DEF UpTurned
<1> HIDE DEF k4
<1>14. RedLinked(k4, n, r)
  BY <1>2, <1>13, Does DEF Reddened, Shaped
<1> HIDE DEF r
<1>15. ASSUME NEW x \in Keys
       PROVE  /\ r.left[x] = (IF x = n THEN p ELSE hung.left[x])
              /\ r.right[x] = (IF x = p THEN b ELSE hung.right[x])
              /\ r.up[x] = (IF x = n THEN g ELSE IF x = p THEN n ELSE IF x = b THEN p
                 ELSE hung.up[x])
  BY <1>15, <1>10, <1>11, <1>12, <1>13, <1>14
       DEF RightLinked, LeftLinked, UpTurned, Reddened, RedLinked, Shaped
<1>16. /\ r \in Trees /\ r.nodes = t.nodes /\ r.red = t.red \cup {p}
          /\ r.redlink = t.redlink \cup {n}
       /\ r.isroot = (IF p \in t.isroot THEN (t.isroot \cup {n}) \ {p} ELSE t.isroot)
  BY <1>9, <1>10, <1>11, <1>12, <1>13, <1>14
       DEF Rehung, RightLinked, LeftLinked, UpTurned, Reddened, RedLinked, Shaped
<1>17. ASSUME NEW x \in v.nodes \ D
       PROVE  /\ r.left[x] = (IF v.left[x] = p THEN n ELSE v.left[x])
              /\ r.right[x] = (IF v.right[x] = p THEN n ELSE v.right[x])
              /\ x \in r.red <=> x \in v.red
              /\ x \in r.redlink <=> x \in v.redlink
              /\ v.up[x] \notin D => r.up[x] = v.up[x]
  <2>1. x \in Keys /\ x \in t.nodes /\ x # p /\ x # n /\ x # Null /\ v.left[x] = t.left[x]
          /\ v.right[x] = t.right[x] /\ v.up[x] = t.up[x]
    BY <1>2
  <2>2. r.left[x] = hung.left[x] /\ r.right[x] = hung.right[x]
        /\ hung.left[x] = (IF p # root /\ x = g /\ t.left[g] = p THEN n ELSE t.left[x])
        /\ hung.right[x] = (IF p # root /\ x = g /\ t.left[g] # p THEN n ELSE t.right[x])
        /\ hung.up[x] = t.up[x]
    BY <1>8, <1>9, <1>15, <2>1 DEF Rehung
  <2>3. v.left[x] = p \/ v.right[x] = p => x = g /\ p # root
    BY <1>6, <1>7, <2>1
  <2>4. ~(v.left[x] = p /\ v.right[x] = p)
    BY <1>5, <1>7, <2>1
  <2>5. x = g /\ p # root => v.left[x] = p \/ v.right[x] = p
    BY <1>6
  <2>6. r.left[x] = (IF v.left[x] = p THEN n ELSE v.left[x])
    BY <2>1, <2>2, <2>3
  <2>7. r.right[x] = (IF v.right[x] = p THEN n ELSE v.right[x])
    BY <2>1, <2>2, <2>3, <2>4, <2>5
  <2>8. v.up[x] \notin D => r.up[x] = v.up[x]
    BY <1>5, <1>15, <2>1, <2>2
  <2> QED
    BY <1>2, <1>16, <2>1, <2>6, <2>7, <2>8
<1>18. Turned(v, r, {p, n}, p, n)
  BY <1>17 DEF Turned
<1>19. /\ r.left[p] = v.left[p] /\ r.right[p] = v.left[n]
       /\ r.left[n] = p /\ r.right[n] = v.right[n]
       /\ r.up[n] = v.up[p] /\ r.up[p] = n
  <2>1. hung.left[p] = t.left[p] /\ hung.right[n] = t.right[n]
    BY <1>2, <1>5, <1>9 DEF Rehung, D
  <2> QED
    BY <1>2, <1>5, <1>15, <2>1 DEF g
<1>20. /\ v.left[p] # Null => r.up[v.left[p]] = p
       /\ v.left[n] # Null => r.up[v.left[n]] = p
       /\ v.right[n] # Null => r.up[v.right[n]] = n
  <2>1. ASSUME NEW x \in v.nodes \ D, x # b PROVE r.up[x] = v.up[x]
    <3>1. x \in Keys /\ x # p /\ x # n /\ v.up[x] = t.up[x]
      BY <1>2, <2>1
    <3>2. hung.up[x] = t.up[x]
      BY <1>9, <3>1 DEF Rehung
    <3> QED
      BY <1>15, <2>1, <3>1, <3>2
  <2>2. v.left[p] # Null => r.up[v.left[p]] = p
    BY <1>2, <1>5, <2>1
  <2>3. b # Null => r.up[b] = p
    BY <1>2, <1>5, <1>15
  <2>4. v.right[n] # Null => r.up[v.right[n]] = n
    BY <1>2, <1>5, <2>1
  <2> QED
    BY <1>5, <2>2, <2>3, <2>4
<1>21. p \in r.red /\ p \notin r.redlink /\ n \notin r.red /\ n \in r.redlink
  BY <1>0, <1>2, <1>16
<1>22. JoinedRight(v, r, p, n)
  <2>1. r \in Trees /\ r.nodes = v.nodes
    BY <1>2, <1>16
  <2> HIDE DEF D
  <2> QED
    BY <1>18, <1>19, <1>20, <1>21, <2>1 DEF JoinedRight
<1> DEFINE top2 == IF root = p THEN n ELSE root
<1>23. PICK lo2, hi2, h2 : /\ Labels(lo2, hi2, h2) /\ Sound(r, top2, lo2, hi2, h2, Null, Null)
                           /\ Height(h2, top2) = Height(h, root)
  BY <1>2, <1>3, <1>22, JoinedRightSound
<1>24. t' \in Trees /\ t'.nodes = t.nodes /\ root' = top2 /\ t'.isroot = {root'} \ {Null}
  <2>1. r.isroot = {top2} /\ top2 # Null
    BY <1>2, <1>5, <1>16
  <2> QED
    BY <1>0, <1>8, <1>16, <2>1
<1>25. Sound(t', root', lo2, hi2, h2, Null, Null) /\ depth' = Height(h2, root')
  BY <1>0, <1>2, <1>23, <1>24 DEF Height
<1> QED
  BY <1>0, <1>23, <1>24, <1>25, InsertionEnds

-----------------------------------------------------------------------------
(* A 4-node is split.                                                      *)

(* The three nodes of the 4-node that is split, where they are named in    *)
(* the code.                                                               *)
LEMMA SplitPlace ==
  ASSUME Inv, Splitting, NEW lo, NEW hi, NEW h, Fits(lo, hi, h)
  PROVE  /\ black2 \in t.nodes /\ low \in t.nodes
         /\ black2 \notin t.red /\ black2 \in t.redlink /\ low \in t.red /\ low \notin t.redlink
         /\ View.left[black2] = low /\ View.up[black2] = grandpa
         /\ low > node => View.left[low] = node
         /\ low <= node /\ black2 < node => View.right[black2] = node
         /\ low <= node /\ black2 >= node => View.right[low] = node
<1> DEFINE v == View
           n == node
           w == parent
           p == black2
           l == low
<1>1. /\ v \in Trees /\ Labels(lo, hi, h) /\ Sound(v, root, lo, hi, h, Null, n)
      /\ t \in Trees /\ n \in t.nodes /\ w \in t.nodes /\ n # w
      /\ t.nodes \subseteq Keys /\ n \in Keys /\ w \in Keys /\ n \in Int /\ w \in Int
         /\ Null \notin Keys
      /\ n \notin t.red /\ n \notin t.redlink
      /\ root \in t.nodes /\ root # n /\ root # Null
      /\ v.nodes = t.nodes /\ v.red = t.red /\ v.redlink = t.redlink
      /\ \A x \in Keys : /\ v.left[x] = (IF x = w /\ w > n THEN n ELSE t.left[x])
                         /\ v.right[x] = (IF x = w /\ ~(w > n) THEN n ELSE t.right[x])
                         /\ v.up[x] = (IF x = n THEN w ELSE t.up[x])
  BY Inserting DEF Splitting
<1>2. \A x \in t.nodes : /\ x \in Keys /\ x \in Int /\ x # Null /\ lo[x] \in Int
                            /\ hi[x] \in Int
                         /\ Placed(v, lo, hi, Null, x) /\ Hung(v, root, x) /\ Coloured(v, x)
                         /\ x = root <=> v.up[x] = Null
  BY <1>1, SoundNode
<1>3. root \notin t.red
  BY <1>1 DEF Sound
<1>4. /\ w \in t.red => p = t.up[w] /\ l = w
      /\ w \notin t.red => p = w /\ l = t.left[w] /\ w \in t.redlink
  BY DEF black2, low, Splitting
<1>5. grandpa = t.up[p]
  BY DEF grandpa
<1> HIDE DEF v, n, w, p, l
<1>6. CASE w \in t.red
  <2>1. v.up[w] = p /\ w # root
    BY <1>1, <1>3, <1>4, <1>6
  <2>2. p \in t.nodes /\ (w = v.left[p] \/ w = v.right[p])
    BY <1>1, <1>2, <2>1 DEF Hung
  <2>3. w = v.left[p] /\ p \in t.redlink /\ p \notin t.red
    BY <1>1, <1>2, <1>6, <2>2 DEF Coloured
  <2>4. p # n
    BY <1>1, <2>3
  <2>5. v.up[p] = t.up[p] /\ l = w
    BY <1>1, <1>2, <1>4, <1>6, <2>2, <2>4
  <2>6. l \notin t.redlink
    BY <1>1, <1>2, <1>6, <2>5 DEF Coloured
  <2>7. /\ l > n => v.left[l] = n
        /\ l <= n => v.right[l] = n
    BY <1>1, <2>5
  <2>8. l <= n => n < p
    <3>1. hi[w] = p /\ w # Null
      BY <1>1, <1>2, <2>2, <2>3 DEF Placed
    <3>2. ASSUME v.right[w] = n PROVE n < p
      <4>1. hi[n] = hi[w] /\ n # Null /\ n < hi[n]
        BY <1>1, <1>2, <3>2 DEF Placed
      <4> QED
        BY <4>1, <3>1
    <3> QED
      BY <2>5, <2>7, <3>2
  <2>9. l <= n /\ p < n => v.right[p] = n
    BY <1>1, <1>2, <2>2, <2>8
  <2> QED
    BY <1>1, <1>5, <1>6, <2>2, <2>3, <2>5, <2>6, <2>7, <2>9 DEF v, n, w, p, l
<1>7. CASE w \notin t.red
  <2>1. p = w /\ l = t.left[p] /\ p \in t.redlink /\ p \notin t.red /\ p \in t.nodes
    BY <1>1, <1>4, <1>7
  <2>2. v.left[p] \in t.red /\ v.left[p] # Null /\ v.left[p] \in t.nodes
    <3>1. v.left[p] \in t.red
      BY <1>1, <1>2, <2>1 DEF Coloured
    <3>2. Null \notin t.red
      BY <1>1 DEF Trees
    <3> QED
      BY <1>1, <1>2, <2>1, <3>1, <3>2 DEF Placed
  <2>3. ~ (w > n)
    BY <1>1, <2>1, <2>2
  <2>4. v.left[p] = l /\ v.right[p] = n /\ v.up[p] = t.up[p]
    BY <1>1, <2>1, <2>3
  <2>5. l \notin t.redlink /\ l \in t.red /\ l \in t.nodes
    BY <1>1, <1>2, <2>2, <2>4 DEF Coloured
  <2>6. hi[l] = p /\ lo[n] = p
    BY <1>1, <1>2, <2>1, <2>2, <2>4 DEF Placed
  <2>7. l < p /\ p < n
    BY <1>1, <1>2, <2>5, <2>6 DEF Placed
  <2>8. l < n /\ p < n /\ ~ (l > n) /\ ~ (p >= n)
    BY <1>1, <1>2, <2>1, <2>5, <2>7
  <2> QED
    BY <1>1, <1>5, <2>1, <2>4, <2>5, <2>8 DEF v, n, w, p, l
<1> QED
  BY <1>6, <1>7

(* The pointer from above that leads to p, and to whatever takes its place *)
(* within its interval.                                                    *)
LEMMA FromAbove ==
  ASSUME NEW s, NEW top, NEW lo, NEW hi, NEW h, NEW hot, s \in Trees, Labels(lo, hi, h),
         Sound(s, top, lo, hi, h, Null, hot), NEW p, p \in s.nodes,
         NEW q, q \in Int, lo[p] < q, q < hi[p], NEW g, g = s.up[p]
  PROVE  /\ p # top => /\ g \in s.nodes
                       /\ g > q => s.left[g] = p /\ s.right[g] # p
                       /\ ~ (g > q) => s.right[g] = p /\ s.left[g] # p
         /\ p = top => g = Null
         /\ \A x \in s.nodes : s.left[x] = p \/ s.right[x] = p => x = g /\ p # top
<1>1. /\ p \in Keys /\ p \in Int /\ p # Null /\ lo[p] \in Int /\ hi[p] \in Int
      /\ Hung(s, top, p) /\ (p = top <=> s.up[p] = Null)
  BY SoundNode
<1>2. ASSUME NEW x \in s.nodes, s.left[x] = p \/ s.right[x] = p PROVE x = g /\ p # top
  <2>1. Placed(s, lo, hi, Null, x) /\ x # Null
    BY SoundNode
  <2> QED
    BY <1>1, <1>2, <2>1 DEF Placed
<1>3. ASSUME p # top
      PROVE  /\ g \in s.nodes
             /\ g > q => s.left[g] = p /\ s.right[g] # p
             /\ ~ (g > q) => s.right[g] = p /\ s.left[g] # p
  <2>1. g \in s.nodes /\ (p = s.left[g] \/ p = s.right[g])
    BY <1>1, <1>3 DEF Hung
  <2>2. Placed(s, lo, hi, Null, g) /\ g # Null /\ g \in Int
    BY <2>1, SoundNode
  <2>3. /\ p = s.left[g] => hi[p] = g
        /\ p = s.right[g] => lo[p] = g
    BY <1>1, <2>1, <2>2 DEF Placed
  <2>4. /\ p = s.left[g] => g > q
        /\ p = s.right[g] => ~ (g > q)
    BY <1>1, <2>2, <2>3
  <2> QED
    BY <2>1, <2>4
<1> QED
  BY <1>1, <1>2, <1>3

(* The top of the split node takes the place of p: at once when p is the   *)
(* root, in the end of the insertion otherwise.                            *)
Seat(s, p, q, g) ==
  IF p \in s.isroot THEN (IF p = q THEN s ELSE ChangeRoot(s, p, q)) ELSE Attached(s, g, q)

(* q is what the root, or the node above p, will lead to.                  *)
Seated(s, p, q, g, r) ==
  /\ r \in Trees /\ r.nodes = s.nodes /\ r.red = s.red /\ r.redlink = s.redlink
  /\ r.isroot = (IF p \in s.isroot THEN {q} ELSE s.isroot)
  /\ \A x \in Keys :
       /\ r.left[x] = (IF p \notin s.isroot /\ x = g /\ g > q THEN q ELSE s.left[x])
       /\ r.right[x] = (IF p \notin s.isroot /\ x = g /\ ~ (g > q) THEN q ELSE s.right[x])
       /\ r.up[x] = (IF x = q THEN g ELSE s.up[x])

(* InsertSplitting does that.                                              *)
LEMMA Seats ==
  ASSUME NEW s, s \in Trees, NEW p, p \in Keys, NEW q, q \in Keys, NEW g,
         p \in s.isroot => s.isroot = {p} /\ g = Null /\ (p = q => s.up[p] = Null),
         p \notin s.isroot => g \in Keys
  PROVE  Seated(s, p, q, g, Seat(s, p, q, g))
<1> DEFINE r == Seat(s, p, q, g)
<1>0. q \in Ptr /\ q # Null
  BY KeysFinite DEF Ptr
<1>1. CASE p \in s.isroot /\ p = q
  <2>1. r = s
    BY <1>1 DEF Seat
  <2> HIDE DEF r
  <2>2. Seated(s, p, q, g, r)
    BY <1>1, <2>1 DEF Seated
  <2> QED
    BY <2>2 DEF r
<1>2. CASE p \in s.isroot /\ p # q
  <2> DEFINE w == ChangeRoot(s, p, q)
  <2>1. r = w
    BY <1>2 DEF Seat
  <2> HIDE DEF r
  <2>2. /\ w \in Trees /\ w.nodes = s.nodes /\ w.left = s.left /\ w.right = s.right
        /\ w.red = s.red /\ w.redlink = s.redlink
        /\ w.isroot = (s.isroot \cup ({q} \ {Null})) \ {p}
        /\ \A x \in Keys : w.up[x] = (IF x = q THEN Null ELSE s.up[x])
    BY <1>0, ChangeRootIs
  <2>3. (s.isroot \cup ({q} \ {Null})) \ {p} = {q}
    BY <1>0, <1>2
  <2> HIDE DEF w
  <2>4. Seated(s, p, q, g, r)
    BY <1>2, <2>1, <2>2, <2>3 DEF Seated
  <2> QED
    BY <2>4 DEF r
<1>3. CASE p \notin s.isroot
  <2> DEFINE w == Attached(s, g, q)
  <2>1. r = w
    BY <1>3 DEF Seat
  <2> HIDE DEF r
  <2>2. g \in Int /\ q \in Int /\ g \in Keys
    BY <1>3, KeysFinite
  <2>3. /\ w \in Trees /\ w.nodes = s.nodes
        /\ w.red = s.red /\ w.redlink = s.redlink /\ w.isroot = s.isroot
        /\ \A x \in Keys : /\ w.left[x] = (IF x = g /\ g > q THEN q ELSE s.left[x])
                           /\ w.right[x] = (IF x = g /\ ~ (g > q) THEN q ELSE s.right[x])
                           /\ w.up[x] = (IF x = q THEN g ELSE s.up[x])
    BY <2>2, AttachedIs
  <2> HIDE DEF w
  <2>4. Seated(s, p, q, g, r)
    BY <1>3, <2>1, <2>3 DEF Seated
  <2> QED
    BY <2>4 DEF r
<1> QED
  BY <1>1, <1>2, <1>3

(* Where a split ends.                                                     *)
LEMMA SplitEnds ==
  ASSUME Inv, pc = "insert", t.isroot = {root}, root # Null, NEW p, NEW q, NEW g,
         NEW m, m \in Trees, m.nodes = t.nodes, m.isroot = t.isroot,
         q \in t.nodes, q # Null, q \notin m.red, q \notin m.redlink,
         p = root => t' = Seat(m, p, q, g) /\ root' = q /\ depth' = depth + 1 /\ InsertDone,
         p # root => t' = m /\ InsertUp(q, g) /\ g \in t.nodes /\ g # q,
         NEW lo, NEW hi, NEW h, depth = Height(h, root),
         Seated(m, p, q, g, Seat(m, p, q, g)),
         NEW top, top = (IF root = p THEN q ELSE root),
         NEW lo2, NEW hi2, NEW h2, Labels(lo2, hi2, h2),
         Sound(Seat(m, p, q, g), top, lo2, hi2, h2, Null, IF root = p THEN Null ELSE q),
         Height(h2, top) = Height(h, root) + (IF root = p THEN 1 ELSE 0)
  PROVE  Inv' /\ t'.nodes = t.nodes
<1> DEFINE r == Seat(m, p, q, g)
<1>1. r \in Trees /\ r.nodes = t.nodes /\ (p = root => r.isroot = {q})
  BY DEF Seated
<1>2. CASE root = p
  <2>1. t' = r /\ root' = q /\ depth' = depth + 1 /\ InsertDone /\ top = q
    BY <1>2
  <2>2. Sound(r, q, lo2, hi2, h2, Null, Null) /\ Height(h2, q) = depth + 1
    BY <1>2, <2>1
  <2> HIDE DEF r
  <2>3. t'.isroot = {root'} \ {Null}
    BY <1>1, <1>2, <2>1
  <2>4. Sound(t', root', lo2, hi2, h2, Null, Null) /\ depth' = Height(h2, root')
    BY <2>1, <2>2
  <2> QED
    BY <1>1, <2>1, <2>3, <2>4, InsertionEnds
<1>3. CASE root # p
  <2>1. t' = m /\ InsertUp(q, g) /\ g \in t.nodes /\ g # q /\ top = root
    BY <1>3
  <2>2. r = Attached(m, g, q)
    BY <1>3 DEF Seat
  <2>3. Sound(r, root, lo2, hi2, h2, Null, q) /\ Height(h2, root) = depth + 0
    BY <1>3, <2>1
  <2>4. depth = Height(h2, root)
    BY <2>3, TypesAre
  <2>5. /\ UNCHANGED root /\ UNCHANGED depth /\ UNCHANGED pool /\ UNCHANGED count
           /\ UNCHANGED answer
        /\ pc' = "insert" /\ node' = q /\ parent' = g /\ key' = key
    BY <2>1 DEF InsertUp
  <2>6. key \in t.nodes /\ count = Cardinality(t.nodes) - 1
    BY DEF Inv, InHand, Counted
  <2> HIDE DEF r
  <2>7. Sound(Attached(t', parent', node'), root, lo2, hi2, h2, Null, node')
    BY <2>1, <2>2, <2>3, <2>5
  <2>8. count' = Cardinality(t'.nodes) - 1 /\ t'.isroot = t.isroot /\ t'.nodes = t.nodes
          /\ t' \in Trees
    BY <2>1, <2>5, <2>6
  <2>9. pool' \in 0..PoolSize /\ count' \in 0..Cardinality(Keys)
          /\ answer' \in {"none", "ok", "exists", "not_found", "no_memory"}
    BY <2>5, TypesAre
  <2>10. node' \in t'.nodes /\ parent' \in t'.nodes /\ key' \in t'.nodes /\ node' # parent'
           /\ node' \notin t'.red /\ node' \notin t'.redlink
    BY <2>1, <2>5, <2>6, <2>8
  <2> QED
    BY <2>4, <2>5, <2>7, <2>8, <2>9, <2>10, GoesUp
<1> QED
  BY <1>2, <1>3

(* InsertBelowLow keeps the invariant.                                     *)
LEMMA InsertBelowLowInv ==
  ASSUME Inv, InsertBelowLow
  PROVE  Inv' /\ t'.nodes = t.nodes
<1> DEFINE p == black2
           l == low
           n == node
           g == grandpa
           v == View
           D == {p, l, n}
           c == t.right[l]
           k1 == SetBlack(t, l)
           k2 == SetBlackLink(k1, p)
           k3 == LinkLeft(k2, p, c)
           k4 == LinkLeft(k3, l, n)
           m == LinkRight(k4, l, p)
           r == Seat(m, p, l, g)
<1>0. /\ pc = "insert" /\ Splitting /\ l > n
      /\ p \in t.isroot => t' = ChangeRoot(m, p, l) /\ root' = l /\ depth' = depth + 1
         /\ InsertDone
      /\ p \notin t.isroot => t' = m /\ InsertUp(l, g)
  BY DEF InsertBelowLow, InsertSplitting, LinkBoth, Split, Splitting
<1>1. PICK lo, hi, h : Fits(lo, hi, h)
  BY DEF Inv
<1>2. /\ v \in Trees /\ Labels(lo, hi, h) /\ Sound(v, root, lo, hi, h, Null, n)
      /\ t \in Trees /\ n \in t.nodes /\ t.nodes \subseteq Keys /\ n \in Keys /\ n \in Int
         /\ Null \notin Keys
      /\ n \notin t.red /\ n \notin t.redlink
      /\ root \in t.nodes /\ root # n /\ root # Null /\ t.isroot = {root} /\ depth = h[root]
      /\ v.nodes = t.nodes /\ v.red = t.red /\ v.redlink = t.redlink
  BY <1>0, <1>1, Inserting
<1>3. /\ p \in t.nodes /\ l \in t.nodes
      /\ p \notin t.red /\ p \in t.redlink /\ l \in t.red /\ l \notin t.redlink
      /\ v.left[p] = l /\ v.up[p] = g /\ v.left[l] = n
  BY <1>0, <1>1, SplitPlace
<1> HIDE DEF v
<1>4. BelowLow(v, p, l, n)
  BY <1>2, <1>3 DEF BelowLow
<1> HIDE DEF p, l, n, g
<1>5. BelowLowAround(v, root, lo, hi, h, p, l, n)
  BY <1>2, <1>4, BelowLowApart
<1>6. /\ p \in Keys /\ l \in Keys /\ p \in Int /\ l \in Int /\ p # l /\ p # n /\ l # n
      /\ p # Null /\ l # Null /\ n # Null /\ l # root /\ n # root /\ g \notin D
      /\ lo[p] < l /\ l < p /\ p < hi[p] /\ hi[p] \in Int /\ lo[p] \in Int /\ n < l
      /\ v.right[p] # Null => v.right[p] \in v.nodes \ D /\ v.up[v.right[p]] = p
      /\ v.right[l] # Null => v.right[l] \in v.nodes \ D /\ v.up[v.right[l]] = l
      /\ v.left[n] # Null => v.left[n] \in v.nodes \ D /\ v.up[v.left[n]] = n
      /\ v.right[n] # Null => v.right[n] \in v.nodes \ D /\ v.up[v.right[n]] = n
      /\ v.right[l] \in v.nodes \cup {Null} /\ v.up[l] = p /\ v.up[n] = l
  BY <1>2, <1>3, <1>5 DEF BelowLowAround
<1>7. ASSUME NEW x \in Keys
      PROVE  /\ x # l => v.left[x] = t.left[x]
             /\ v.right[x] = t.right[x]
             /\ x # n => v.up[x] = t.up[x]
  <2>1. parent = l
    <3>1. v.up[n] = parent
      BY <1>0, <1>1, <1>2, Inserting DEF v, n
    <3> QED
      BY <3>1, <1>6
  <2>2. parent > n
    BY <2>1, <1>0
  <2>3. /\ v.left[x] = (IF x = parent /\ parent > n THEN n ELSE t.left[x])
        /\ v.right[x] = (IF x = parent /\ ~ (parent > n) THEN n ELSE t.right[x])
        /\ v.up[x] = (IF x = n THEN parent ELSE t.up[x])
    BY <1>0, <1>1, Inserting DEF v, n
  <2> QED
    BY <2>1, <2>2, <2>3
<1>8. c = v.right[l] /\ c \in Ptr /\ {p, l, n} \subseteq Ptr
  BY <1>2, <1>6, <1>7 DEF Ptr
<1>9. /\ p # root => g \in t.nodes
      /\ p # root /\ g > l => v.left[g] = p /\ v.right[g] # p
      /\ p # root /\ ~ (g > l) => v.right[g] = p /\ v.left[g] # p
      /\ p = root => g = Null
      /\ \A x \in v.nodes : v.left[x] = p \/ v.right[x] = p => x = g /\ p # root
  <2>1. l < hi[p] /\ lo[p] < l /\ v.up[p] = g
    BY <1>3, <1>6
  <2> HIDE DEF c
  <2> QED
    BY <1>2, <1>3, <1>6, <2>1, FromAbove
<1> HIDE DEF c
<1>10. Blackened(t, l, k1)
  BY <1>2, <1>8, Does
<1> HIDE DEF k1
<1>11. BlackLinked(k1, p, k2)
  BY <1>8, <1>10, Does DEF Blackened, Shaped
<1> HIDE DEF k2
<1>12. LeftLinked(k2, p, c, k3)
  BY <1>6, <1>8, <1>11, Does DEF BlackLinked, Shaped
<1> HIDE DEF k3
<1>13. LeftLinked(k3, l, n, k4)
  BY <1>6, <1>8, <1>12, Does DEF LeftLinked
<1> HIDE DEF k4
<1>14. RightLinked(k4, l, p, m)
  BY <1>6, <1>8, <1>13, Does DEF LeftLinked
<1> HIDE DEF m
<1>15. /\ m \in Trees /\ m.nodes = t.nodes /\ m.isroot = t.isroot
       /\ m.red = t.red \ {l} /\ m.redlink = t.redlink \ {p}
  BY <1>10, <1>11, <1>12, <1>13, <1>14
       DEF Blackened, BlackLinked, Shaped, LeftLinked, RightLinked
<1>16. ASSUME NEW x \in Keys
       PROVE  /\ m.left[x] = (IF x = l THEN n ELSE IF x = p THEN c ELSE t.left[x])
              /\ m.right[x] = (IF x = l THEN p ELSE t.right[x])
              /\ m.up[x] = (IF x = p THEN l ELSE IF x = n THEN l ELSE IF x = c THEN p
                 ELSE t.up[x])
  BY <1>16, <1>10, <1>11, <1>12, <1>13, <1>14
       DEF Blackened, BlackLinked, Shaped, LeftLinked, RightLinked
<1>17. p \in t.isroot <=> p = root
  BY <1>2
<1>18. Seated(m, p, l, g, r)
  <2>1. p \in m.isroot => m.isroot = {p} /\ g = Null /\ p # l
    BY <1>2, <1>6, <1>9, <1>15, <1>17
  <2>2. p \notin m.isroot => g \in Keys
    BY <1>2, <1>9, <1>15, <1>17
  <2> QED
    BY <1>6, <1>15, <2>1, <2>2, Seats
<1>19. p = root => t' = r /\ root' = l /\ depth' = depth + 1 /\ InsertDone
  BY <1>0, <1>6, <1>15, <1>17 DEF Seat
<1>20. p # root => t' = m /\ InsertUp(l, g) /\ g \in t.nodes /\ g # l
  BY <1>0, <1>6, <1>9, <1>17
<1> HIDE DEF r
<1>21. ASSUME NEW x \in Keys
       PROVE  /\ r.left[x] = (IF p # root /\ x = g /\ g > l THEN l ELSE IF x = l THEN n
                 ELSE IF x = p THEN c ELSE t.left[x])
              /\ r.right[x] = (IF p # root /\ x = g /\ ~ (g > l) THEN l ELSE IF x = l THEN p
                 ELSE t.right[x])
              /\ r.up[x] = (IF x = l THEN g ELSE IF x = p THEN l ELSE IF x = n THEN l
                 ELSE IF x = c THEN p ELSE t.up[x])
  BY <1>15, <1>16, <1>17, <1>18 DEF Seated
<1>22. /\ r \in Trees /\ r.nodes = v.nodes /\ r.red = v.red \ {l} /\ r.redlink = v.redlink \ {p}
  BY <1>2, <1>15, <1>18 DEF Seated
<1>23. Turned(v, r, {p, l, n}, p, l)
  <2>1. ASSUME NEW x \in v.nodes \ D
        PROVE  /\ r.left[x] = (IF v.left[x] = p THEN l ELSE v.left[x])
               /\ r.right[x] = (IF v.right[x] = p THEN l ELSE v.right[x])
               /\ x \in r.red <=> x \in v.red
               /\ x \in r.redlink <=> x \in v.redlink
               /\ v.up[x] \notin D => r.up[x] = v.up[x]
    <3>1. x \in Keys /\ x # p /\ x # l /\ x # n /\ x \in v.nodes
      BY <1>2
    <3>2. v.left[x] = t.left[x] /\ v.right[x] = t.right[x] /\ v.up[x] = t.up[x]
      BY <1>7, <3>1
    <3>3. r.left[x] = (IF p # root /\ x = g /\ g > l THEN l ELSE v.left[x])
          /\ r.right[x] = (IF p # root /\ x = g /\ ~ (g > l) THEN l ELSE v.right[x])
          /\ r.up[x] = (IF x = c THEN p ELSE v.up[x])
      BY <1>21, <3>1, <3>2
    <3>4. r.left[x] = (IF v.left[x] = p THEN l ELSE v.left[x])
      BY <1>9, <3>1, <3>3
    <3>5. r.right[x] = (IF v.right[x] = p THEN l ELSE v.right[x])
      BY <1>9, <3>1, <3>3
    <3>6. v.up[x] \notin D => r.up[x] = v.up[x]
      <4>1. x = c => v.up[x] = l
        BY <1>2, <1>6, <1>8, <3>1
      <4> QED
        BY <3>3, <4>1
    <3> QED
      BY <1>22, <3>1, <3>4, <3>5, <3>6
  <2> QED
    BY <2>1 DEF Turned
<1>24. /\ r.left[p] = v.right[l] /\ r.right[p] = v.right[p]
       /\ r.left[l] = n /\ r.right[l] = p
       /\ r.left[n] = v.left[n] /\ r.right[n] = v.right[n]
       /\ r.up[l] = v.up[p] /\ r.up[p] = l /\ r.up[n] = l
  BY <1>2, <1>3, <1>6, <1>7, <1>8, <1>21
<1>25. /\ v.right[p] # Null => r.up[v.right[p]] = p
       /\ v.right[l] # Null => r.up[v.right[l]] = p
       /\ v.left[n] # Null => r.up[v.left[n]] = n
       /\ v.right[n] # Null => r.up[v.right[n]] = n
  <2>1. ASSUME NEW x \in v.nodes \ D PROVE r.up[x] = (IF x = c THEN p ELSE v.up[x])
    <3>1. x \in Keys /\ x # p /\ x # l /\ x # n
      BY <1>2, <2>1
    <3> QED
      BY <1>7, <1>21, <3>1
  <2> HIDE DEF D
  <2>2. v.right[p] # Null => r.up[v.right[p]] = p
    BY <1>6, <2>1
  <2>3. v.right[l] # Null => r.up[v.right[l]] = p
    BY <1>6, <1>8, <2>1
  <2>4. v.left[n] # Null => r.up[v.left[n]] = n
    BY <1>6, <1>8, <2>1
  <2>5. v.right[n] # Null => r.up[v.right[n]] = n
    BY <1>6, <1>8, <2>1
  <2> QED
    BY <2>2, <2>3, <2>4, <2>5
<1>26. /\ p \notin r.red /\ p \notin r.redlink /\ l \notin r.red
       /\ (l \in r.redlink <=> l \in v.redlink) /\ n \notin r.red /\ n \notin r.redlink
  BY <1>2, <1>3, <1>6, <1>22
<1>27. SplitBelow(v, r, p, l, n)
  BY <1>22, <1>23, <1>24, <1>25, <1>26 DEF SplitBelow
<1> DEFINE grown == IF root = p THEN 1 ELSE 0
           hot2 == IF root = p THEN Null ELSE l
           top2 == IF root = p THEN l ELSE root
<1>28. grown \in {0, 1} /\ ((p = root /\ grown = 1 /\ hot2 = Null)
         \/ (p # root /\ grown = 0 /\ hot2 = l))
  OBVIOUS
<1>29. PICK lo2, hi2, h2 : /\ Labels(lo2, hi2, h2) /\ Sound(r, top2, lo2, hi2, h2, Null, hot2)
                           /\ Height(h2, top2) = Height(h, root) + grown
  <2> HIDE DEF grown, hot2
  <2> QED
    BY <1>2, <1>4, <1>27, <1>28, SplitBelowSound
<1>30. l \notin m.red /\ l \notin m.redlink /\ depth = Height(h, root)
  BY <1>2, <1>3, <1>6, <1>15 DEF Height
<1> HIDE DEF top2
<1>31. top2 = (IF root = p THEN l ELSE root)
  BY DEF top2
<1> QED
  BY <1>0, <1>2, <1>3, <1>6, <1>15, <1>18, <1>19, <1>20, <1>29, <1>30, <1>31, SplitEnds DEF r

(* InsertAboveBoth keeps the invariant.                                    *)
LEMMA InsertAboveBothInv ==
  ASSUME Inv, InsertAboveBoth
  PROVE  Inv' /\ t'.nodes = t.nodes
<1> DEFINE p == black2
           l == low
           n == node
           g == grandpa
           v == View
           D == {p, l, n}
           k1 == SetBlack(t, l)
           k2 == SetBlackLink(k1, p)
           m == LinkRight(k2, p, n)
           r == Seat(m, p, p, g)
<1>0. /\ pc = "insert" /\ Splitting /\ l <= n /\ p < n
      /\ p \in t.isroot => t' = m /\ root' = root /\ depth' = depth + 1 /\ InsertDone
      /\ p \notin t.isroot => t' = m /\ InsertUp(p, g)
  BY DEF InsertAboveBoth, Split, Splitting
<1>1. PICK lo, hi, h : Fits(lo, hi, h)
  BY DEF Inv
<1>2. /\ v \in Trees /\ Labels(lo, hi, h) /\ Sound(v, root, lo, hi, h, Null, n)
      /\ t \in Trees /\ n \in t.nodes /\ t.nodes \subseteq Keys /\ n \in Keys /\ n \in Int
         /\ Null \notin Keys
      /\ n \notin t.red /\ n \notin t.redlink
      /\ root \in t.nodes /\ root # n /\ root # Null /\ t.isroot = {root} /\ depth = h[root]
      /\ v.nodes = t.nodes /\ v.red = t.red /\ v.redlink = t.redlink
  BY <1>0, <1>1, Inserting
<1>3. /\ p \in t.nodes /\ l \in t.nodes
      /\ p \notin t.red /\ p \in t.redlink /\ l \in t.red /\ l \notin t.redlink
      /\ v.left[p] = l /\ v.up[p] = g /\ v.right[p] = n
  BY <1>0, <1>1, SplitPlace
<1> HIDE DEF v
<1>4. AboveBoth(v, p, l, n)
  BY <1>2, <1>3 DEF AboveBoth
<1> HIDE DEF p, l, n, g
<1>5. AboveBothAround(v, root, lo, hi, h, p, l, n)
  BY <1>2, <1>4, AboveBothApart
<1>6. /\ p \in Keys /\ l \in Keys /\ p \in Int /\ l \in Int /\ p # l /\ p # n /\ l # n
      /\ p # Null /\ l # Null /\ n # Null /\ l # root /\ n # root /\ g \notin D
      /\ lo[p] < p /\ p < hi[p] /\ hi[p] \in Int /\ lo[p] \in Int
      /\ v.left[l] # Null => v.left[l] \in v.nodes \ D /\ v.up[v.left[l]] = l
      /\ v.right[l] # Null => v.right[l] \in v.nodes \ D /\ v.up[v.right[l]] = l
      /\ v.left[n] # Null => v.left[n] \in v.nodes \ D /\ v.up[v.left[n]] = n
      /\ v.right[n] # Null => v.right[n] \in v.nodes \ D /\ v.up[v.right[n]] = n
      /\ v.up[l] = p /\ v.up[n] = p
  BY <1>2, <1>3, <1>5 DEF AboveBothAround
<1>7. ASSUME NEW x \in Keys
      PROVE  /\ v.left[x] = t.left[x]
             /\ x # p => v.right[x] = t.right[x]
             /\ x # n => v.up[x] = t.up[x]
  <2>1. parent = p
    <3>1. v.up[n] = parent
      BY <1>0, <1>1, <1>2, Inserting DEF v, n
    <3> QED
      BY <3>1, <1>6
  <2>2. ~ (parent > n)
    BY <2>1, <1>0, <1>2, <1>6
  <2>3. /\ v.left[x] = (IF x = parent /\ parent > n THEN n ELSE t.left[x])
        /\ v.right[x] = (IF x = parent /\ ~ (parent > n) THEN n ELSE t.right[x])
        /\ v.up[x] = (IF x = n THEN parent ELSE t.up[x])
    BY <1>0, <1>1, Inserting DEF v, n
  <2> QED
    BY <2>1, <2>2, <2>3
<1>8. {p, l, n} \subseteq Ptr
  BY <1>2, <1>6 DEF Ptr
<1>9. /\ p # root => g \in t.nodes
      /\ p # root /\ g > p => v.left[g] = p /\ v.right[g] # p
      /\ p # root /\ ~ (g > p) => v.right[g] = p /\ v.left[g] # p
      /\ p = root => g = Null
      /\ \A x \in v.nodes : v.left[x] = p \/ v.right[x] = p => x = g /\ p # root
  <2>1. p < hi[p] /\ lo[p] < p /\ v.up[p] = g
    BY <1>3, <1>6
  <2> QED
    BY <1>2, <1>3, <1>6, <2>1, FromAbove
<1>10. Blackened(t, l, k1)
  BY <1>2, <1>8, Does
<1> HIDE DEF k1
<1>11. BlackLinked(k1, p, k2)
  BY <1>8, <1>10, Does DEF Blackened, Shaped
<1> HIDE DEF k2
<1>12. RightLinked(k2, p, n, m)
  BY <1>6, <1>8, <1>11, Does DEF BlackLinked, Shaped
<1> HIDE DEF m
<1>15. /\ m \in Trees /\ m.nodes = t.nodes /\ m.isroot = t.isroot
       /\ m.red = t.red \ {l} /\ m.redlink = t.redlink \ {p}
  BY <1>10, <1>11, <1>12 DEF Blackened, BlackLinked, Shaped, RightLinked
<1>16. ASSUME NEW x \in Keys
       PROVE  /\ m.left[x] = t.left[x]
              /\ m.right[x] = (IF x = p THEN n ELSE t.right[x])
              /\ m.up[x] = (IF x = n THEN p ELSE t.up[x])
  BY <1>16, <1>10, <1>11, <1>12 DEF Blackened, BlackLinked, Shaped, RightLinked
<1>17. p \in t.isroot <=> p = root
  BY <1>2
<1>18. Seated(m, p, p, g, r)
  <2>0. p = root => g = Null /\ m.up[p] = Null
    BY <1>3, <1>6, <1>7, <1>9, <1>16
  <2>1. p \in m.isroot => m.isroot = {p} /\ g = Null /\ m.up[p] = Null
    BY <1>2, <1>15, <1>17, <2>0
  <2>2. p \notin m.isroot => g \in Keys
    BY <1>2, <1>9, <1>15, <1>17
  <2> QED
    BY <1>6, <1>15, <2>1, <2>2, Seats
<1>19. p = root => t' = r /\ root' = p /\ depth' = depth + 1 /\ InsertDone
  BY <1>0, <1>15, <1>17 DEF Seat
<1>20. p # root => t' = m /\ InsertUp(p, g) /\ g \in t.nodes /\ g # p
  BY <1>0, <1>6, <1>9, <1>17
<1> HIDE DEF r
<1>21. ASSUME NEW x \in Keys
       PROVE  /\ r.left[x] = (IF p # root /\ x = g /\ g > p THEN p ELSE t.left[x])
              /\ r.right[x] = (IF p # root /\ x = g /\ ~ (g > p) THEN p ELSE IF x = p THEN n
                 ELSE t.right[x])
              /\ r.up[x] = (IF x = p THEN g ELSE IF x = n THEN p ELSE t.up[x])
  BY <1>15, <1>16, <1>17, <1>18 DEF Seated
<1>22. /\ r \in Trees /\ r.nodes = v.nodes /\ r.red = v.red \ {l} /\ r.redlink = v.redlink \ {p}
  BY <1>2, <1>15, <1>18 DEF Seated
<1>23. Turned(v, r, {p, l, n}, p, p)
  <2>1. ASSUME NEW x \in v.nodes \ D
        PROVE  /\ r.left[x] = (IF v.left[x] = p THEN p ELSE v.left[x])
               /\ r.right[x] = (IF v.right[x] = p THEN p ELSE v.right[x])
               /\ x \in r.red <=> x \in v.red
               /\ x \in r.redlink <=> x \in v.redlink
               /\ v.up[x] \notin D => r.up[x] = v.up[x]
    <3>1. x \in Keys /\ x # p /\ x # l /\ x # n /\ x \in v.nodes
      BY <1>2
    <3>2. v.left[x] = t.left[x] /\ v.right[x] = t.right[x] /\ v.up[x] = t.up[x]
      BY <1>7, <3>1
    <3>3. r.left[x] = (IF p # root /\ x = g /\ g > p THEN p ELSE v.left[x])
          /\ r.right[x] = (IF p # root /\ x = g /\ ~ (g > p) THEN p ELSE v.right[x])
          /\ r.up[x] = v.up[x]
      BY <1>21, <3>1, <3>2
    <3>4. r.left[x] = (IF v.left[x] = p THEN p ELSE v.left[x])
      BY <1>9, <3>1, <3>3
    <3>5. r.right[x] = (IF v.right[x] = p THEN p ELSE v.right[x])
      BY <1>9, <3>1, <3>3
    <3> QED
      BY <1>22, <3>1, <3>3, <3>4, <3>5
  <2> QED
    BY <2>1 DEF Turned
<1>24. /\ r.left[p] = l /\ r.right[p] = n
       /\ r.left[l] = v.left[l] /\ r.right[l] = v.right[l]
       /\ r.left[n] = v.left[n] /\ r.right[n] = v.right[n]
       /\ r.up[p] = v.up[p] /\ r.up[l] = p /\ r.up[n] = p
  BY <1>2, <1>3, <1>6, <1>7, <1>21
<1>25. /\ v.left[l] # Null => r.up[v.left[l]] = l
       /\ v.right[l] # Null => r.up[v.right[l]] = l
       /\ v.left[n] # Null => r.up[v.left[n]] = n
       /\ v.right[n] # Null => r.up[v.right[n]] = n
  <2>1. ASSUME NEW x \in v.nodes \ D PROVE r.up[x] = v.up[x]
    <3>1. x \in Keys /\ x # p /\ x # l /\ x # n
      BY <1>2, <2>1
    <3> QED
      BY <1>7, <1>21, <3>1
  <2> HIDE DEF D
  <2> QED
    BY <1>6, <2>1
<1>26. /\ p \notin r.red /\ p \notin r.redlink /\ l \notin r.red
       /\ (l \in r.redlink <=> l \in v.redlink) /\ n \notin r.red /\ n \notin r.redlink
  BY <1>2, <1>3, <1>6, <1>22
<1>27. SplitAbove(v, r, p, l, n)
  BY <1>22, <1>23, <1>24, <1>25, <1>26 DEF SplitAbove
<1> DEFINE grown == IF root = p THEN 1 ELSE 0
           hot2 == IF root = p THEN Null ELSE p
<1>28. grown \in {0, 1} /\ ((p = root /\ grown = 1 /\ hot2 = Null)
         \/ (p # root /\ grown = 0 /\ hot2 = p))
  OBVIOUS
<1>29. PICK lo2, hi2, h2 : /\ Labels(lo2, hi2, h2) /\ Sound(r, root, lo2, hi2, h2, Null, hot2)
                           /\ Height(h2, root) = Height(h, root) + grown
  <2> HIDE DEF grown, hot2
  <2> QED
    BY <1>2, <1>4, <1>27, <1>28, SplitAboveSound
<1>30. p \notin m.red /\ p \notin m.redlink /\ depth = Height(h, root)
  BY <1>2, <1>3, <1>6, <1>15 DEF Height
<1>31. root = (IF root = p THEN p ELSE root)
  OBVIOUS
<1> QED
  BY <1>0, <1>2, <1>3, <1>6, <1>15, <1>18, <1>19, <1>20, <1>29, <1>30, <1>31, SplitEnds DEF r

(* InsertBetween keeps the invariant.                                      *)
LEMMA InsertBetweenInv ==
  ASSUME Inv, InsertBetween
  PROVE  Inv' /\ t'.nodes = t.nodes
<1> DEFINE p == black2
           l == low
           n == node
           g == grandpa
           v == View
           D == {p, l, n}
           b == t.left[n]
           c == t.right[n]
           k1 == SetBlack(t, l)
           k2 == SetBlackLink(k1, p)
           k3 == LinkRight(k2, l, b)
           k4 == LinkLeft(k3, p, c)
           k5 == LinkLeft(k4, n, l)
           m == LinkRight(k5, n, p)
           r == Seat(m, p, n, g)
<1>0. /\ pc = "insert" /\ Splitting /\ l <= n /\ p >= n
      /\ p \in t.isroot => t' = ChangeRoot(m, p, n) /\ root' = n /\ depth' = depth + 1
         /\ InsertDone
      /\ p \notin t.isroot => t' = m /\ InsertUp(n, g)
  BY DEF InsertBetween, InsertSplitting, LinkBoth, Split, Splitting
<1>1. PICK lo, hi, h : Fits(lo, hi, h)
  BY DEF Inv
<1>2. /\ v \in Trees /\ Labels(lo, hi, h) /\ Sound(v, root, lo, hi, h, Null, n)
      /\ t \in Trees /\ n \in t.nodes /\ t.nodes \subseteq Keys /\ n \in Keys /\ n \in Int
         /\ Null \notin Keys
      /\ n \notin t.red /\ n \notin t.redlink
      /\ root \in t.nodes /\ root # n /\ root # Null /\ t.isroot = {root} /\ depth = h[root]
      /\ v.nodes = t.nodes /\ v.red = t.red /\ v.redlink = t.redlink
  BY <1>0, <1>1, Inserting
<1>3. /\ p \in t.nodes /\ l \in t.nodes
      /\ p \notin t.red /\ p \in t.redlink /\ l \in t.red /\ l \notin t.redlink
      /\ v.left[p] = l /\ v.up[p] = g /\ v.right[l] = n
  BY <1>0, <1>1, SplitPlace
<1> HIDE DEF v
<1>4. Between(v, p, l, n)
  BY <1>2, <1>3 DEF Between
<1> HIDE DEF p, l, n, g
<1>5. BetweenAround(v, root, lo, hi, h, p, l, n)
  BY <1>2, <1>4, BetweenApart
<1>6. /\ p \in Keys /\ l \in Keys /\ p \in Int /\ l \in Int /\ p # l /\ p # n /\ l # n
      /\ p # Null /\ l # Null /\ n # Null /\ l # root /\ n # root /\ g \notin D
      /\ lo[p] < l /\ l < n /\ n < p /\ p < hi[p] /\ hi[p] \in Int /\ lo[p] \in Int
      /\ v.right[p] # Null => v.right[p] \in v.nodes \ D /\ v.up[v.right[p]] = p
      /\ v.left[l] # Null => v.left[l] \in v.nodes \ D /\ v.up[v.left[l]] = l
      /\ v.left[n] # Null => v.left[n] \in v.nodes \ D /\ v.up[v.left[n]] = n
      /\ v.right[n] # Null => v.right[n] \in v.nodes \ D /\ v.up[v.right[n]] = n
      /\ v.left[n] \in v.nodes \cup {Null} /\ v.right[n] \in v.nodes \cup {Null}
      /\ v.up[l] = p /\ v.up[n] = l /\ (v.left[n] # Null => v.left[n] # v.right[n])
  BY <1>2, <1>3, <1>5 DEF BetweenAround
<1>7. ASSUME NEW x \in Keys
      PROVE  /\ v.left[x] = t.left[x]
             /\ x # l => v.right[x] = t.right[x]
             /\ x # n => v.up[x] = t.up[x]
  <2>1. parent = l
    <3>1. v.up[n] = parent
      BY <1>0, <1>1, <1>2, Inserting DEF v, n
    <3> QED
      BY <3>1, <1>6
  <2>2. ~ (parent > n)
    BY <2>1, <1>2, <1>6
  <2>3. /\ v.left[x] = (IF x = parent /\ parent > n THEN n ELSE t.left[x])
        /\ v.right[x] = (IF x = parent /\ ~ (parent > n) THEN n ELSE t.right[x])
        /\ v.up[x] = (IF x = n THEN parent ELSE t.up[x])
    BY <1>0, <1>1, Inserting DEF v, n
  <2> QED
    BY <2>1, <2>2, <2>3
<1>8. b = v.left[n] /\ c = v.right[n] /\ b \in Ptr /\ c \in Ptr /\ {p, l, n} \subseteq Ptr
  BY <1>2, <1>6, <1>7 DEF Ptr
<1>9. /\ p # root => g \in t.nodes
      /\ p # root /\ g > n => v.left[g] = p /\ v.right[g] # p
      /\ p # root /\ ~ (g > n) => v.right[g] = p /\ v.left[g] # p
      /\ p = root => g = Null
      /\ \A x \in v.nodes : v.left[x] = p \/ v.right[x] = p => x = g /\ p # root
  <2>1. n < hi[p] /\ lo[p] < n /\ v.up[p] = g
    BY <1>2, <1>3, <1>6
  <2> HIDE DEF b, c
  <2> QED
    BY <1>2, <1>3, <2>1, FromAbove
<1> HIDE DEF b, c
<1>10. Blackened(t, l, k1)
  BY <1>2, <1>8, Does
<1> HIDE DEF k1
<1>11. BlackLinked(k1, p, k2)
  BY <1>8, <1>10, Does DEF Blackened, Shaped
<1> HIDE DEF k2
<1>12. RightLinked(k2, l, b, k3)
  BY <1>6, <1>8, <1>11, Does DEF BlackLinked, Shaped
<1> HIDE DEF k3
<1>13. LeftLinked(k3, p, c, k4)
  BY <1>6, <1>8, <1>12, Does DEF RightLinked
<1> HIDE DEF k4
<1>14. LeftLinked(k4, n, l, k5)
  BY <1>2, <1>8, <1>13, Does DEF LeftLinked
<1> HIDE DEF k5
<1>14a. RightLinked(k5, n, p, m)
  BY <1>2, <1>8, <1>14, Does DEF LeftLinked
<1> HIDE DEF m
<1>15. /\ m \in Trees /\ m.nodes = t.nodes /\ m.isroot = t.isroot
       /\ m.red = t.red \ {l} /\ m.redlink = t.redlink \ {p}
  BY <1>10, <1>11, <1>12, <1>13, <1>14, <1>14a
       DEF Blackened, BlackLinked, Shaped, LeftLinked, RightLinked
<1>16. ASSUME NEW x \in Keys
       PROVE  /\ m.left[x] = (IF x = n THEN l ELSE IF x = p THEN c ELSE t.left[x])
              /\ m.right[x] = (IF x = n THEN p ELSE IF x = l THEN b ELSE t.right[x])
              /\ m.up[x] = (IF x = p THEN n ELSE IF x = l THEN n ELSE IF x = c THEN p
                            ELSE IF x = b THEN l ELSE t.up[x])
  BY <1>16, <1>10, <1>11, <1>12, <1>13, <1>14, <1>14a
       DEF Blackened, BlackLinked, Shaped, LeftLinked, RightLinked
<1>17. p \in t.isroot <=> p = root
  BY <1>2
<1>18. Seated(m, p, n, g, r)
  <2>1. p \in m.isroot => m.isroot = {p} /\ g = Null /\ p # n
    BY <1>2, <1>6, <1>9, <1>15, <1>17
  <2>2. p \notin m.isroot => g \in Keys
    BY <1>2, <1>9, <1>15, <1>17
  <2> QED
    BY <1>2, <1>6, <1>15, <2>1, <2>2, Seats
<1>19. p = root => t' = r /\ root' = n /\ depth' = depth + 1 /\ InsertDone
  BY <1>0, <1>6, <1>15, <1>17 DEF Seat
<1>20. p # root => t' = m /\ InsertUp(n, g) /\ g \in t.nodes /\ g # n
  BY <1>0, <1>6, <1>9, <1>17
<1> HIDE DEF r
<1>21. ASSUME NEW x \in Keys
       PROVE  /\ r.left[x] = (IF p # root /\ x = g /\ g > n THEN n ELSE IF x = n THEN l
                 ELSE IF x = p THEN c ELSE t.left[x])
              /\ r.right[x] = (IF p # root /\ x = g /\ ~ (g > n) THEN n ELSE IF x = n THEN p
                 ELSE IF x = l THEN b ELSE t.right[x])
              /\ r.up[x] = (IF x = n THEN g ELSE IF x = p THEN n ELSE IF x = l THEN n
                 ELSE IF x = c THEN p
                            ELSE IF x = b THEN l ELSE t.up[x])
  BY <1>15, <1>16, <1>17, <1>18 DEF Seated
<1>22. /\ r \in Trees /\ r.nodes = v.nodes /\ r.red = v.red \ {l} /\ r.redlink = v.redlink \ {p}
  BY <1>2, <1>15, <1>18 DEF Seated
<1>23. Turned(v, r, {p, l, n}, p, n)
  <2>1. ASSUME NEW x \in v.nodes \ D
        PROVE  /\ r.left[x] = (IF v.left[x] = p THEN n ELSE v.left[x])
               /\ r.right[x] = (IF v.right[x] = p THEN n ELSE v.right[x])
               /\ x \in r.red <=> x \in v.red
               /\ x \in r.redlink <=> x \in v.redlink
               /\ v.up[x] \notin D => r.up[x] = v.up[x]
    <3>1. x \in Keys /\ x # p /\ x # l /\ x # n /\ x \in v.nodes
      BY <1>2
    <3>2. v.left[x] = t.left[x] /\ v.right[x] = t.right[x] /\ v.up[x] = t.up[x]
      BY <1>7, <3>1
    <3>3. r.left[x] = (IF p # root /\ x = g /\ g > n THEN n ELSE v.left[x])
          /\ r.right[x] = (IF p # root /\ x = g /\ ~ (g > n) THEN n ELSE v.right[x])
          /\ r.up[x] = (IF x = c THEN p ELSE IF x = b THEN l ELSE v.up[x])
      BY <1>21, <3>1, <3>2
    <3>4. r.left[x] = (IF v.left[x] = p THEN n ELSE v.left[x])
      BY <1>9, <3>1, <3>3
    <3>5. r.right[x] = (IF v.right[x] = p THEN n ELSE v.right[x])
      BY <1>9, <3>1, <3>3
    <3>6. v.up[x] \notin D => r.up[x] = v.up[x]
      <4>1. x = c \/ x = b => v.up[x] = n
        BY <1>2, <1>6, <1>8, <3>1
      <4> QED
        BY <3>3, <4>1
    <3> QED
      BY <1>22, <3>1, <3>4, <3>5, <3>6
  <2> QED
    BY <2>1 DEF Turned
<1>24. /\ r.left[p] = v.right[n] /\ r.right[p] = v.right[p]
       /\ r.left[l] = v.left[l] /\ r.right[l] = v.left[n]
       /\ r.left[n] = l /\ r.right[n] = p
       /\ r.up[n] = v.up[p] /\ r.up[p] = n /\ r.up[l] = n
  BY <1>2, <1>3, <1>6, <1>7, <1>8, <1>21
<1>25. /\ v.right[p] # Null => r.up[v.right[p]] = p
       /\ v.left[l] # Null => r.up[v.left[l]] = l
       /\ v.left[n] # Null => r.up[v.left[n]] = l
       /\ v.right[n] # Null => r.up[v.right[n]] = p
  <2>1. ASSUME NEW x \in v.nodes \ D
          PROVE r.up[x] = (IF x = c THEN p ELSE IF x = b THEN l ELSE v.up[x])
    <3>1. x \in Keys /\ x # p /\ x # l /\ x # n
      BY <1>2, <2>1
    <3> QED
      BY <1>7, <1>21, <3>1
  <2> HIDE DEF D
  <2>2. v.right[p] # Null => r.up[v.right[p]] = p
    BY <1>6, <1>8, <2>1
  <2>3. v.left[l] # Null => r.up[v.left[l]] = l
    BY <1>6, <1>8, <2>1
  <2>4. v.left[n] # Null => r.up[v.left[n]] = l
    BY <1>6, <1>8, <2>1
  <2>5. v.right[n] # Null => r.up[v.right[n]] = p
    BY <1>6, <1>8, <2>1
  <2> QED
    BY <2>2, <2>3, <2>4, <2>5
<1>26. /\ p \notin r.red /\ p \notin r.redlink /\ l \notin r.red
       /\ (l \in r.redlink <=> l \in v.redlink) /\ n \notin r.red /\ n \notin r.redlink
  BY <1>2, <1>3, <1>6, <1>22
<1>27. SplitBetween(v, r, p, l, n)
  BY <1>22, <1>23, <1>24, <1>25, <1>26 DEF SplitBetween
<1> DEFINE grown == IF root = p THEN 1 ELSE 0
           hot2 == IF root = p THEN Null ELSE n
           top2 == IF root = p THEN n ELSE root
<1>28. grown \in {0, 1} /\ ((p = root /\ grown = 1 /\ hot2 = Null)
         \/ (p # root /\ grown = 0 /\ hot2 = n))
  OBVIOUS
<1>29. PICK lo2, hi2, h2 : /\ Labels(lo2, hi2, h2) /\ Sound(r, top2, lo2, hi2, h2, Null, hot2)
                           /\ Height(h2, top2) = Height(h, root) + grown
  <2> HIDE DEF grown, hot2
  <2> QED
    BY <1>2, <1>4, <1>27, <1>28, SplitBetweenSound
<1>30. n \notin m.red /\ n \notin m.redlink /\ depth = Height(h, root)
  BY <1>2, <1>15 DEF Height
<1> HIDE DEF top2
<1>31. top2 = (IF root = p THEN n ELSE root)
  BY DEF top2
<1> QED
  BY <1>0, <1>2, <1>6, <1>15, <1>18, <1>19, <1>20, <1>29, <1>30, <1>31, SplitEnds DEF r

-----------------------------------------------------------------------------
(* Every step.                                                             *)

(* What a step does to the invariant and to the set of the nodes.          *)
Keeps(S) == Inv' /\ t'.nodes = S

(* The calls of rbt_insert keep the invariant.                             *)
LEMMA InsertCallInv ==
  ASSUME Inv, NEW k \in Keys, InsertCall(k)
  PROVE  Keeps(IF InsertRoot(k) \/ InsertBegin(k) THEN t.nodes \cup {k} ELSE t.nodes)
<1>1. CASE InsertRoot(k)
  BY <1>1, InsertRootInv DEF Keeps
<1>2. CASE InsertBegin(k)
  BY <1>2, InsertBeginInv DEF Keeps
<1>3. CASE ~ InsertRoot(k) /\ ~ InsertBegin(k)
  <2>1. InsertRootLost(k) \/ InsertExisting(k) \/ InsertNoMemory(k)
    BY <1>3 DEF InsertCall
  <2>2. PICK code \in {"ok", "exists", "no_memory"} :
          pc = "idle" /\ Return(code) /\ UNCHANGED <<t, root, depth, count, pool>>
    BY <2>1 DEF InsertRootLost, InsertExisting, InsertNoMemory
  <2> QED
    BY <1>3, <2>2, UnchangedInv DEF Keeps
<1> QED
  BY <1>1, <1>2, <1>3

(* The calls of rbt_remove keep the invariant.                             *)
LEMMA RemoveCallInv ==
  ASSUME Inv, NEW k \in Keys, RemoveCall(k)
  PROVE  Keeps(IF RemoveBegin(k) /\ pc' = "idle" THEN t.nodes \ {k} ELSE t.nodes)
<1>1. CASE RemoveBegin(k)
  BY <1>1, RemoveBeginInv DEF Keeps
<1>2. CASE ~ RemoveBegin(k)
  <2>1. pc = "idle" /\ Return("not_found") /\ UNCHANGED <<t, root, depth, count, pool>>
    BY <1>2 DEF RemoveCall, RemoveMissing
  <2> QED
    BY <1>2, <2>1, UnchangedInv DEF Keeps
<1> QED
  BY <1>1, <1>2

(* The steps of an insertion, and of a removal.                            *)
Inserts == InsertBelowLow \/ InsertAboveBoth \/ InsertBetween \/ InsertLeft \/ InsertRight
Merges  == RemoveLeftMerge \/ RemoveRightMerge

Removes == \/ RemoveRoot \/ RemoveRed \/ RemoveRedBroRedNephew \/ RemoveRedBro
           \/ RemoveLeftBorrow \/ RemoveRightBorrow

(* The steps of both keep the invariant.                                   *)
LEMMA StepInv ==
  ASSUME Inv, Step
  PROVE  \/ Inserts /\ Keeps(t.nodes)
         \/ Merges /\ Keeps(t.nodes)
         \/ Removes /\ Keeps(t.nodes \ {node})
<1>1. CASE Inserts
  BY <1>1, InsertBelowLowInv, InsertAboveBothInv, InsertBetweenInv, InsertLeftInv,
       InsertRightInv
     DEF Inserts, Keeps
<1>2. CASE Merges
  BY <1>2, RemoveLeftMergeInv, RemoveRightMergeInv DEF Merges, Keeps
<1>3. CASE Removes
  BY <1>3, RemoveRootInv, RemoveRedInv, RemoveRedBroRedNephewInv, RemoveRedBroInv,
     RemoveLeftBorrowInv, RemoveRightBorrowInv DEF Removes, Keeps
<1> QED
  BY <1>1, <1>2, <1>3 DEF Step, Inserts, Merges, Removes

(* Everything keeps the invariant.                                         *)
LEMMA NextInv == Inv /\ [Next]_vars => Inv'
<1> SUFFICES ASSUME Inv, [Next]_vars PROVE Inv'
  OBVIOUS
<1>1. ASSUME NEW k \in Keys, InsertCall(k) \/ RemoveCall(k) PROVE Inv'
  BY <1>1, InsertCallInv, RemoveCallInv DEF Keeps
<1>2. CASE Step
  BY <1>2, StepInv DEF Keeps
<1>3. CASE DeleteTree
  BY <1>3, DeleteTreeInv
<1>4. CASE UNCHANGED vars
  <2>1. Inv => Inv
    OBVIOUS
  <2> QED
    BY <1>4 DEF vars, Inv, TypeOK, Fits, View, Hole, Hot, Attached, Counted, InHand
<1> QED
  BY <1>1, <1>2, <1>3, <1>4 DEF Next

(* The tree is a left-leaning red-black tree at every turn of the loops,   *)
(* but for the node that is being attached and the one that is being       *)
(* removed, which the invariant names.                                     *)
THEOREM InvHolds == Spec => []Inv
BY InitInv, NextInv, PTL DEF Spec

-----------------------------------------------------------------------------
(* What the invariant says between two calls.                              *)

(* A node without a left child has no right child.                         *)
LEMMA NoOnlyRight ==
  ASSUME NEW s, NEW top, NEW lo, NEW hi, NEW h, Calm(s, top, lo, hi, h),
         NEW n \in s.nodes, s.left[n] = Null
  PROVE  s.right[n] = Null
<1> DEFINE r == s.right[n]
<1>1. r \in s.nodes \cup {Null} /\ r \notin s.red /\ Weighed(s, h, Null, n)
  BY CalmNode DEF Coloured
<1>2. Height(h, r) = 0
  <2> DEFINE own == IF n \in s.red \/ n = Null THEN 0 ELSE 1
  <2>1. h[n] = Height(h, s.left[n]) + own /\ h[n] = Height(h, r) + own
          /\ Height(h, s.left[n]) = 0
    BY <1>1 DEF Weighed, Height
  <2>2. own \in Nat /\ Height(h, r) \in Nat
    BY CalmNode DEF Height
  <2> HIDE DEF own, r
  <2> QED
    BY <2>1, <2>2
<1> HIDE DEF r
<1>3. r = Null
  BY <1>1, <1>2, Weightless
<1> QED
  BY <1>3 DEF r

(* Between calls the invariant says what the properties say.               *)
LEMMA RulesFollow == Inv => RulesHold
<1> SUFFICES ASSUME Inv PROVE RulesHold
  OBVIOUS
<1>1. TypeOK
  BY DEF Inv
<1>2. ASSUME pc = "idle"
      PROVE  /\ root # Null => root \notin t.red /\ t.isroot = {root}
             /\ \A n \in t.nodes :
                  /\ CheckIntegrity(t, n)
                  /\ t.right[n] \notin t.red
                  /\ t.left[n] \in t.red <=> n \in t.redlink
                  /\ n \in t.red => Children(n) \cap t.red = {}
                  /\ Null \in {t.left[n], t.right[n]} => Blacks(n) = depth
  <2>1. PICK lo, hi, h : Calm(t, root, lo, hi, h) /\ depth = Height(h, root)
    BY <1>2, Idle
  <2>2. t.isroot = {root} \ {Null} /\ (root = Null <=> t.nodes = {})
    BY <1>2, Idle
  <2>3. root # Null => root \notin t.red /\ t.isroot = {root} /\ root \in t.nodes
    BY <2>1, <2>2 DEF Calm, Sound
  <2>4. Null \notin t.red
    BY TypesAre, KeysFinite DEF Trees
  <2>5. ASSUME NEW n \in t.nodes
        PROVE  /\ CheckIntegrity(t, n)
               /\ t.right[n] \notin t.red
               /\ t.left[n] \in t.red <=> n \in t.redlink
               /\ n \in t.red => Children(n) \cap t.red = {}
               /\ Null \in {t.left[n], t.right[n]} => Blacks(n) = depth
    <3>1. Coloured(t, n)
      BY <2>1, CalmNode
    <3>2. Null \in {t.left[n], t.right[n]} => Blacks(n) = depth
      <4>1. root # Null
        BY <2>2
      <4>2. depth = h[root]
        BY <2>1, <4>1 DEF Height
      <4>3. Null \in {t.left[n], t.right[n]} => Blacks(n) = h[root]
        BY <2>1, BlacksAre
      <4> QED
        BY <4>2, <4>3
    <3>3. CheckIntegrity(t, n)
      <4>1. t.left[n] # Null => n > t.left[n]
        <5>1. t.left[n] # Null => t.left[n] \in t.nodes /\ hi[t.left[n]] = n
          BY <2>1, CalmNode
        <5>2. ASSUME t.left[n] # Null
              PROVE  n > t.left[n]
          <6> DEFINE l == t.left[n]
          <6>1. l \in t.nodes /\ hi[l] = n
            BY <5>1, <5>2
          <6> HIDE DEF l
          <6>2. l \in Int /\ l < hi[l] /\ n \in Int
            BY <2>1, <6>1, CalmNode
          <6> QED
            BY <6>1, <6>2 DEF l
        <5> QED
          BY <5>2
      <4>2. t.right[n] # Null => n < t.right[n]
        <5>1. ASSUME t.right[n] # Null
              PROVE  n < t.right[n]
          <6> DEFINE r == t.right[n]
          <6>1. r \in t.nodes /\ lo[r] = n
            BY <2>1, <5>1, CalmNode
          <6> HIDE DEF r
          <6>2. r \in Int /\ lo[r] < r /\ n \in Int
            BY <2>1, <6>1, CalmNode
          <6> QED
            BY <6>1, <6>2 DEF r
        <5> QED
          BY <5>1
      <4>3. t.right[n] # Null => t.left[n] # Null
        BY <2>1, <2>4, <3>1, NoOnlyRight
      <4> QED
        BY <2>4, <3>1, <4>1, <4>2, <4>3 DEF CheckIntegrity, Coloured
    <3> QED
      BY <2>4, <3>1, <3>2, <3>3 DEF Coloured, Children
  <2> QED
    BY <2>3, <2>5
<1> QED
  BY <1>1, <1>2 DEF RulesHold

(* Between calls the invariant says what the properties say.               *)
LEMMA LinksFollow ==
  ASSUME NEW lo, NEW hi, NEW h, Calm(t, root, lo, hi, h)
  PROVE  LinksAgree
<1>1. SUFFICES ASSUME NEW n \in t.nodes
               PROVE  /\ Children(n) \subseteq t.nodes /\ \A c \in Children(n) : t.up[c] = n
                      /\ n # root => n \in Children(t.up[n])
                      /\ t.left[n] = t.right[n] => t.left[n] = Null
  BY DEF LinksAgree
<1>2. /\ n # Null
      /\ t.left[n] # Null => t.left[n] \in t.nodes /\ t.up[t.left[n]] = n
      /\ t.right[n] # Null => t.right[n] \in t.nodes /\ t.up[t.right[n]] = n
      /\ n # root => t.up[n] \in t.nodes /\ (n = t.left[t.up[n]] \/ n = t.right[t.up[n]])
  BY CalmNode
<1>3. t.left[n] # Null => t.left[n] # t.right[n]
  <2>1. ASSUME t.left[n] # Null, t.left[n] = t.right[n] PROVE FALSE
    <3>1. lo[t.left[n]] = lo[n] /\ lo[t.right[n]] = n /\ lo[n] \in Int /\ n \in Int /\ lo[n] < n
      BY <2>1, CalmNode
    <3> QED
      BY <2>1, <3>1
  <2> QED
    BY <2>1
<1> QED
  BY <1>2, <1>3 DEF Children

(* Between calls the invariant says what the properties say.               *)
LEMMA WalksFollow == Inv => WalksInOrder
<1> SUFFICES ASSUME Inv, pc = "idle" PROVE WalksInOrder
  BY DEF WalksInOrder
<1>1. PICK lo, hi, h : Calm(t, root, lo, hi, h)
  BY Idle
<1>2. t.isroot = {root} \ {Null} /\ count = Cardinality(t.nodes)
        /\ (root = Null <=> t.nodes = {})
  BY Idle
<1>3. LinksAgree
  BY <1>1, LinksFollow
<1>4. \A k \in Keys : Search(k) = IF k \in t.nodes THEN k ELSE Null
  BY <1>1, SearchIs
<1>5. ASSUME NEW n \in t.nodes
      PROVE  LET above == {m \in t.nodes : m > n}
             IN IF above = {} THEN NextNode(n) = Null /\ Last(root) = n
                ELSE NextNode(n) \in above /\ \A m \in above : NextNode(n) <= m
  <2> DEFINE x == NextNode(n)  z == Last(root)
  <2>1. root # Null /\ t.isroot = {root} /\ n \in Int /\ Null \notin t.nodes
    BY <1>1, <1>2, CalmNode
  <2>2. \/ x = Null /\ \A m \in t.nodes : m <= n
        \/ x \in t.nodes /\ n < x /\ \A m \in t.nodes : n < m => x <= m
    BY <1>1, <2>1, NextIs
  <2>3. z \in t.nodes /\ \A m \in t.nodes : m <= z
    BY <1>1, <2>1, EndsAre
  <2>4. \A m \in t.nodes : m \in Int
    BY <1>1, CalmNode
  <2> HIDE DEF x, z
  <2>5. CASE \E m \in t.nodes : m > n
    <3>1. x \in t.nodes /\ n < x /\ \A m \in t.nodes : n < m => x <= m
      BY <2>1, <2>2, <2>4, <2>5
    <3> QED
      BY <2>1, <2>4, <2>5, <3>1 DEF x
  <2>6. CASE ~ \E m \in t.nodes : m > n
    <3>1. x = Null /\ z = n
      BY <2>1, <2>2, <2>3, <2>4, <2>6
    <3> QED
      BY <2>6, <3>1 DEF x, z
  <2> QED
    BY <2>5, <2>6
<1>6. ASSUME NEW n \in t.nodes
      PROVE  LET below == {m \in t.nodes : m < n}
             IN IF below = {} THEN PrevNode(n) = Null /\ First(root) = n
                ELSE PrevNode(n) \in below /\ \A m \in below : PrevNode(n) >= m
  <2> DEFINE x == PrevNode(n)  z == First(root)
  <2>1. root # Null /\ t.isroot = {root} /\ n \in Int /\ Null \notin t.nodes
    BY <1>1, <1>2, CalmNode
  <2>2. \/ x = Null /\ \A m \in t.nodes : n <= m
        \/ x \in t.nodes /\ x < n /\ \A m \in t.nodes : m < n => m <= x
    BY <1>1, <2>1, PrevIs
  <2>3. z \in t.nodes /\ \A m \in t.nodes : z <= m
    BY <1>1, <2>1, EndsAre
  <2>4. \A m \in t.nodes : m \in Int
    BY <1>1, CalmNode
  <2> HIDE DEF x, z
  <2>5. CASE \E m \in t.nodes : m < n
    <3>1. x \in t.nodes /\ x < n /\ \A m \in t.nodes : m < n => m <= x
      BY <2>1, <2>2, <2>4, <2>5
    <3> QED
      BY <2>1, <2>4, <2>5, <3>1 DEF x
  <2>6. CASE ~ \E m \in t.nodes : m < n
    <3>1. x = Null /\ z = n
      BY <2>1, <2>2, <2>3, <2>4, <2>6
    <3> QED
      BY <2>6, <3>1 DEF x, z
  <2> QED
    BY <2>5, <2>6
<1> QED
  BY <1>2, <1>3, <1>4, <1>5, <1>6 DEF WalksInOrder

(* rbtree.h 6-18: after every call the tree keeps the rules of a           *)
(* left-leaning red-black tree, whatever keys were inserted and removed    *)
(* and in whatever order, and whenever memory ran out.                     *)
THEOREM RulesAlwaysHold == Spec => []RulesHold
BY InvHolds, RulesFollow, PTL

(* After every call rbt_search finds what is in the tree, and rbt_first,   *)
(* rbt_next, rbt_last and rbt_prev walk it in order, over links that       *)
(* agree both ways.                                                        *)
THEOREM WalksAlwaysInOrder == Spec => []WalksInOrder
BY InvHolds, WalksFollow, PTL

-----------------------------------------------------------------------------
(* The tree implements the dictionary.                                     *)

(* The keys that are in, for a caller.                                     *)
Stored == IF pc = "insert" THEN t.nodes \ {key} ELSE t.nodes

(* What the call is in the dictionary.                                     *)
LEMMA InsertCallIs ==
  ASSUME Inv, NEW k \in Keys, InsertCall(k)
  PROVE  \/ pc' = "idle" /\ (Dict!Insert(k) \/ Dict!Refuse(k) \/ Dict!LoseFirst(k))
         \/ pc' # "idle" /\ UNCHANGED <<Stored, answer>>
<1>1. pc = "idle"
  BY DEF InsertCall, InsertRoot, InsertRootLost, InsertExisting, InsertNoMemory, InsertBegin
<1>2. PICK lo, hi, h : Calm(t, root, lo, hi, h)
  BY <1>1, Idle
<1>3. (root = Null <=> t.nodes = {})
        /\ (root # Null => (Descend(root, k) = k <=> k \in t.nodes))
  BY <1>1, <1>2, Idle, SearchIs
<1>4. Stored = t.nodes
  BY <1>1 DEF Stored
<1>5. t'.nodes = (IF InsertRoot(k) \/ InsertBegin(k) THEN t.nodes \cup {k} ELSE t.nodes)
  BY InsertCallInv DEF Keeps
<1>6. CASE InsertRoot(k)
  <2>1. pc' = "idle" /\ answer' = "ok" /\ t'.nodes = t.nodes \cup {k} /\ k \notin t.nodes
    BY <1>3, <1>5, <1>6 DEF InsertRoot, Return
  <2> QED
    BY <1>1, <2>1 DEF Dict!Insert
<1>7. CASE InsertBegin(k)
  <2>1. pc' = "insert" /\ key' = k /\ answer' = answer /\ t'.nodes = t.nodes \cup {k}
          /\ k \notin t.nodes
    BY <1>3, <1>5, <1>7 DEF InsertBegin
  <2> QED
    BY <1>4, <2>1 DEF Stored
<1>8. CASE InsertRootLost(k)
  <2>1. pc' = "idle" /\ answer' = "ok" /\ t' = t /\ t.nodes = {}
    BY <1>3, <1>8 DEF InsertRootLost, Return
  <2> QED
    BY <1>1, <2>1 DEF Dict!LoseFirst
<1>9. CASE InsertExisting(k)
  <2>1. pc' = "idle" /\ answer' = "exists" /\ t' = t /\ k \in t.nodes
    BY <1>3, <1>9 DEF InsertExisting, Return
  <2> QED
    BY <1>1, <2>1 DEF Dict!Insert
<1>10. CASE InsertNoMemory(k)
  <2>1. pc' = "idle" /\ answer' = "no_memory" /\ t' = t /\ k \notin t.nodes
    BY <1>3, <1>10 DEF InsertNoMemory, Return
  <2> QED
    BY <1>1, <2>1 DEF Dict!Refuse
<1> QED
  BY <1>6, <1>7, <1>8, <1>9, <1>10 DEF InsertCall

(* What the call is in the dictionary.                                     *)
LEMMA RemoveCallIs ==
  ASSUME Inv, NEW k \in Keys, RemoveCall(k)
  PROVE  \/ pc' = "idle" /\ Dict!Remove(k)
         \/ pc' # "idle" /\ UNCHANGED <<Stored, answer>>
<1>1. pc = "idle"
  BY DEF RemoveCall, RemoveMissing, RemoveBegin
<1>2. PICK lo, hi, h : Calm(t, root, lo, hi, h)
  BY <1>1, Idle
<1>3. Search(k) = (IF k \in t.nodes THEN k ELSE Null) /\ k # Null
  BY <1>2, SearchIs, KeysFinite
<1>4. Stored = t.nodes
  BY <1>1 DEF Stored
<1>5. t'.nodes = (IF RemoveBegin(k) /\ pc' = "idle" THEN t.nodes \ {k} ELSE t.nodes)
  BY RemoveCallInv DEF Keeps
<1>6. CASE RemoveMissing(k)
  <2>1. pc' = "idle" /\ answer' = "not_found" /\ t' = t /\ k \notin t.nodes
    BY <1>3, <1>6 DEF RemoveMissing, Return
  <2> QED
    BY <1>1, <2>1 DEF Dict!Remove
<1>7. CASE RemoveBegin(k)
  <2>1. k \in t.nodes
    BY <1>3, <1>7 DEF RemoveBegin
  <2>2. \/ pc' = "idle" /\ answer' = "ok"
        \/ pc' = "remove" /\ answer' = answer
    BY <1>7, Zenon DEF RemoveBegin, Return
  <2>3. CASE pc' = "idle" /\ answer' = "ok"
    BY <1>1, <1>5, <1>7, <2>1, <2>3 DEF Dict!Remove
  <2>4. CASE pc' = "remove" /\ answer' = answer
    BY <1>4, <1>5, <2>4 DEF Stored
  <2> QED
    BY <2>2, <2>3, <2>4
<1> QED
  BY <1>6, <1>7 DEF RemoveCall

(* What the steps are in the dictionary.                                   *)
LEMMA StepIs ==
  ASSUME Inv, Step
  PROVE  \/ pc = "insert" /\ pc' = "idle" /\ key \in Keys /\ Dict!Insert(key)
         \/ pc = "remove" /\ pc' = "idle" /\ key \in Keys /\ Dict!Remove(key)
         \/ pc' = pc /\ UNCHANGED <<Stored, answer>>
<1>1. t.nodes \subseteq Keys
  BY TypesAre
<1>2. CASE Inserts /\ Keeps(t.nodes)
  <2>1. \/ pc' = "idle" /\ answer' = "ok"
        \/ pc' = pc /\ key' = key /\ answer' = answer
    BY <1>2 DEF Inserts, InsertBelowLow, InsertAboveBoth, InsertBetween, InsertLeft,
         InsertRight,
                InsertSplitting, InsertDone, InsertUp, Return
  <2>2. pc = "insert" /\ t'.nodes = t.nodes /\ key \in t.nodes
    BY <1>2 DEF Keeps, Inserts, InsertBelowLow, InsertAboveBoth, InsertBetween, InsertLeft,
         InsertRight,
                Splitting, Joining, Inv, InHand
  <2>3. CASE pc' = "idle" /\ answer' = "ok"
    BY <1>1, <2>2, <2>3 DEF Dict!Insert
  <2>4. CASE pc' = pc /\ key' = key /\ answer' = answer
    BY <2>2, <2>4 DEF Stored
  <2> QED
    BY <2>1, <2>3, <2>4
<1>3. CASE Merges /\ Keeps(t.nodes)
  <2>1. pc = "remove" /\ t'.nodes = t.nodes /\ pc' = pc /\ answer' = answer
    BY <1>3 DEF Merges, Keeps, RemoveLeftMerge, RemoveRightMerge, BlackBro, Removing, HoleUp
  <2> QED
    BY <2>1 DEF Stored
<1>4. CASE Removes /\ Keeps(t.nodes \ {node})
  <2>1. pc = "remove" /\ pc' = "idle" /\ answer' = "ok"
    BY <1>4 DEF Removes, RemoveRoot, RemoveRed, RemoveRedBroRedNephew, RemoveRedBro,
                RemoveLeftBorrow, RemoveRightBorrow, BlackBro, Removing, RemoveDone, Return
  <2>2. key = node /\ key \in t.nodes /\ t'.nodes = t.nodes \ {key}
    BY <1>4, <2>1 DEF Keeps, Inv, InHand
  <2> QED
    BY <1>1, <2>1, <2>2 DEF Dict!Remove
<1> QED
  BY <1>2, <1>3, <1>4, StepInv

(* Every step is a step of the dictionary, or none.                        *)
LEMMA DictionaryStep ==
  ASSUME Inv, [Next]_vars
  PROVE  [Dict!Next]_<<Stored, answer>>
<1>1. ASSUME NEW k \in Keys, InsertCall(k) \/ RemoveCall(k)
      PROVE  [Dict!Next]_<<Stored, answer>>
  BY <1>1, InsertCallIs, RemoveCallIs DEF Dict!Next
<1>2. CASE Step
  <2>1. CASE \E k \in Keys : Dict!Insert(k) \/ Dict!Remove(k)
    BY <2>1 DEF Dict!Next
  <2> QED
    BY <1>2, <2>1, StepIs
<1>3. CASE DeleteTree
  <2>1. t'.nodes = {} /\ pc' = "idle" /\ answer' = "none"
    BY <1>3, DeleteTreeInv DEF DeleteTree, Return
  <2> QED
    BY <2>1 DEF Dict!Next, Dict!Clear
<1>4. CASE UNCHANGED vars
  BY <1>4 DEF vars, Stored
<1> QED
  BY <1>1, <1>2, <1>3, <1>4 DEF Next

(* A call that returns has done what it was asked.                         *)
LEMMA AnswersTrue ==
  ASSUME Inv, Next, NEW k \in Keys
  PROVE  /\ Inserted(k) => Dict!Insert(k) \/ Dict!Refuse(k) \/ Dict!LoseFirst(k)
         /\ Removed(k) => Dict!Remove(k)
<1>1. pc # "idle" => Step
  BY DEF Next, InsertCall, InsertRoot, InsertRootLost, InsertExisting, InsertNoMemory,
       InsertBegin,
         RemoveCall, RemoveMissing, RemoveBegin, DeleteTree
<1>2. ASSUME Inserted(k) PROVE Dict!Insert(k) \/ Dict!Refuse(k) \/ Dict!LoseFirst(k)
  <2>1. CASE InsertCall(k)
    BY <1>2, <2>1, InsertCallIs DEF Inserted
  <2>2. CASE pc = "insert" /\ key = k
    BY <1>1, <1>2, <2>2, StepIs DEF Inserted
  <2> QED
    BY <1>2, <2>1, <2>2 DEF Inserted
<1>3. ASSUME Removed(k) PROVE Dict!Remove(k)
  <2>1. CASE RemoveCall(k)
    BY <1>3, <2>1, RemoveCallIs DEF Removed
  <2>2. CASE pc = "remove" /\ key = k
    BY <1>1, <1>3, <2>2, StepIs DEF Removed
  <2> QED
    BY <1>3, <2>1, <2>2 DEF Removed
<1> QED
  BY <1>2, <1>3

(* For its callers the tree is a set of keys: a key is in it from the      *)
(* moment its insertion returns to the moment its removal returns, however *)
(* many turns of the loops these take and however the nodes are moved, and *)
(* every answer is the one that set gives - but for the first key, which   *)
(* rbt_insert loses without saying so when memory has run out.             *)
THEOREM DictionaryImplemented == Spec => ImplementsDictionary
<1> DEFINE Answers == \A k \in Keys :
             /\ Inserted(k) => Dict!Insert(k) \/ Dict!Refuse(k) \/ Dict!LoseFirst(k)
             /\ Removed(k) => Dict!Remove(k)
<1>1. Init => Dict!Init
  BY DEF Init, Empty, Dict!Init
<1>2. Inv /\ [Next]_vars => [Dict!Next]_<<Stored, answer>>
  BY DictionaryStep
<1>3. Inv /\ [Next]_vars => [Answers]_vars
  BY AnswersTrue
<1> HIDE DEF Answers
<1>4. Spec => [][Dict!Next]_<<Stored, answer>>
  BY <1>2, InvHolds, PTL DEF Spec
<1>5. Spec => [][Answers]_vars
  BY <1>3, InvHolds, PTL DEF Spec
<1>6. Spec => Dict!Spec
  BY <1>1, <1>4, PTL DEF Spec, Dict!Spec, Stored
<1> QED
  BY <1>5, <1>6 DEF ImplementsDictionary, Answers
=============================================================================
