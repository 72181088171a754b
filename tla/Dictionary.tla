----------------------------- MODULE Dictionary -----------------------------
(***************************************************************************)
(* What an ordered index promises its callers: a set of keys, and answers  *)
(* that depend on that set alone.  The red-black tree and the 2-3 tree of  *)
(* this library are both shown to implement it.                            *)
(* Each of them fails the promise in ways of its own when memory is short; *)
(* Lapses names the ways an implementation is allowed.                     *)
(***************************************************************************)
EXTENDS Integers

CONSTANTS Keys,     \* integers
          Lapses    \* a subset of {"first_lost", "known_refused", "torn"}

VARIABLES keys,    \* the keys that are in the dictionary
          answer   \* what the last operation returned

Answers == {"none", "ok", "exists", "not_found", "no_memory"}

TypeOK == /\ keys \subseteq Keys
          /\ answer \in Answers

Init == keys = {} /\ answer = "none"

Insert(k) ==
  \/ k \in keys /\ answer' = "exists" /\ UNCHANGED keys
  \/ k \notin keys /\ answer' = "ok" /\ keys' = keys \cup {k}

(* Only a key that would have needed a node is refused for want of one,    *)
(* unless the node is made before anything is looked up.                   *)
Refuse(k) ==
  /\ k \notin keys \/ "known_refused" \in Lapses
  /\ answer' = "no_memory" /\ UNCHANGED keys

(* An index that does not look at whether its root was allocated.          *)
LoseFirst(k) == "first_lost" \in Lapses /\ keys = {} /\ answer' = "ok" /\ UNCHANGED keys

(* An insertion that is refused half way: with k put in, everything        *)
(* between two keys is gone, k itself perhaps with it.                     *)
Tear(k) ==
  /\ "torn" \in Lapses /\ k \notin keys
  /\ \E lo, hi \in keys \cup {k} :
       /\ keys' = {j \in keys \cup {k} : j <= lo \/ hi <= j}
       /\ keys' # keys \cup {k}
  /\ answer' = "no_memory"

Remove(k) ==
  \/ k \in keys /\ answer' = "ok" /\ keys' = keys \ {k}
  \/ k \notin keys /\ answer' = "not_found" /\ UNCHANGED keys

Clear == keys' = {} /\ answer' = "none"

Next ==
  \/ Clear
  \/ \E k \in Keys : Insert(k) \/ Refuse(k) \/ LoseFirst(k) \/ Tear(k) \/ Remove(k)

Spec == Init /\ [][Next]_<<keys, answer>>
=============================================================================
