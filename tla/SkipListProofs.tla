--------------------------- MODULE SkipListProofs ---------------------------
(***************************************************************************)
(* The skip list is well-formed after every operation, the search finds     *)
(* what it holds, and to its callers it is a map: for any number of keys,   *)
(* addresses and levels, and whichever level each node is given.           *)
(*                                                                         *)
(* One level of the list is a set R of nodes with their keys k and the      *)
(* pointers next.  What a search, an insertion and a deletion do to one     *)
(* level is shown first, and then put together for the list.               *)
(***************************************************************************)
EXTENDS SkipList, WellFoundedInduction, FiniteSetTheorems, TLAPS

\* The set of natural numbers is well ordered.
LEMMA LeastNumber ==
  ASSUME NEW T, T \subseteq Nat, T # {}
  PROVE  \E m \in T : \A n \in T : m <= n
<1>1. PICK m \in T : \A n \in T : ~(<<n, m>> \in OpToRel(<, Nat))
  BY NatLessThanWellFounded, WFMin
<1>2. \A n \in T : ~(n < m)
  BY <1>1 DEF OpToRel
<1> QED BY <1>2

-----------------------------------------------------------------------------
(***************************************************************************)
(* One level.                                                              *)
(***************************************************************************)
\* Node m comes after n.
IsAfter(k, n, m) == n = Header \/ k[n] < k[m]

\* The pointers lead from each node to the next one in the order of the keys.
Threads(R, k, next) ==
  \A n \in R \cup {Header} :
    \/ next[n] = Null /\ \A m \in R : ~IsAfter(k, n, m)
    \/ /\ next[n] \in R /\ IsAfter(k, n, next[n])
       /\ \A m \in R : IsAfter(k, n, m) => k[next[n]] <= k[m]

\* p is the last node before key, or the header if there is none.
LastBefore(R, k, key, p) ==
  /\ p \in R \cup {Header} /\ (p # Header => k[p] < key)
  /\ \A m \in R : k[m] < key => p # Header /\ k[m] <= k[p]

\* Nodes with keys, no two of them with the same.
Keyed(R, k) ==
  /\ Header \notin R /\ Null \notin R
  /\ \A n \in R : k[n] \in Int
  /\ \A n, m \in R : k[n] = k[m] => n = m

\* Of the nodes of a set with keys below a bound, one has the greatest.
LEMMA Greatest ==
  ASSUME NEW B, NEW k, NEW key \in Int, B # {}, \A n \in B : k[n] \in Int /\ k[n] < key
  PROVE  \E p \in B : \A n \in B : k[n] <= k[p]
<1> DEFINE T == {key - k[n] : n \in B}
<1>1. T \subseteq Nat /\ T # {}
  OBVIOUS
<1>2. PICK d \in T : \A e \in T : d <= e
  <2> HIDE DEF T
  <2> QED BY <1>1, LeastNumber
<1>3. PICK p \in B : d = key - k[p]
  OBVIOUS
<1>4. \A n \in B : key - k[p] <= key - k[n]
  BY <1>2, <1>3
<1>5. \A n \in B : k[n] <= k[p]
  BY <1>3, <1>4
<1> QED BY <1>3, <1>5

LEMMA LastBeforeExists ==
  ASSUME NEW R, NEW k, NEW key \in Int, Keyed(R, k)
  PROVE  \E p : LastBefore(R, k, key, p)
<1> DEFINE B == {n \in R : k[n] < key}
<1>1. CASE B = {}
  <2>1. LastBefore(R, k, key, Header)
    BY <1>1 DEF LastBefore
  <2> QED BY <2>1
<1>2. CASE B # {}
  <2>1. PICK p \in B : \A n \in B : k[n] <= k[p]
    <3>1. \A n \in B : k[n] \in Int /\ k[n] < key
      BY DEF Keyed
    <3> HIDE DEF B
    <3> QED BY <1>2, <3>1, Greatest
  <2>2. LastBefore(R, k, key, p)
    BY <2>1 DEF LastBefore, Keyed
  <2> QED BY <2>2
<1> QED BY <1>1, <1>2

LEMMA LastBeforeUnique ==
  ASSUME NEW R, NEW k, NEW key \in Int, Keyed(R, k),
         NEW p, NEW q, LastBefore(R, k, key, p), LastBefore(R, k, key, q)
  PROVE  p = q
BY DEF LastBefore, Keyed

\* The loop goes on from n as long as the next node is before key.
GoesOn(k, next, key, n) == next[n] # Null /\ k[next[n]] < key

\* Where the loop stops is the last node before key.
LEMMA StopsAtLast ==
  ASSUME NEW R, NEW k, NEW next, NEW key \in Int, Keyed(R, k), Threads(R, k, next),
         NEW n \in R \cup {Header}, n # Header => k[n] < key
  PROVE  LastBefore(R, k, key, n) <=> ~GoesOn(k, next, key, n)
<1>1. CASE next[n] = Null
  <2>1. \A m \in R : n # Header /\ ~(k[n] < k[m])
    BY <1>1 DEF Threads, IsAfter, Keyed
  <2> QED BY <1>1, <2>1 DEF LastBefore, GoesOn, Keyed
<1>2. CASE next[n] # Null
  <2>1. next[n] \in R /\ IsAfter(k, n, next[n])
        /\ \A m \in R : IsAfter(k, n, m) => k[next[n]] <= k[m]
    BY <1>2 DEF Threads
  <2>2. ASSUME GoesOn(k, next, key, n) PROVE ~LastBefore(R, k, key, n)
    BY <2>1, <2>2 DEF LastBefore, GoesOn, IsAfter, Keyed
  <2>3. ASSUME ~GoesOn(k, next, key, n) PROVE LastBefore(R, k, key, n)
    <3>1. ~(k[next[n]] < key)
      BY <1>2, <2>3 DEF GoesOn
    <3>2. \A m \in R : k[m] < key => n # Header /\ k[m] <= k[n]
      BY <2>1, <3>1 DEF IsAfter, Keyed
    <3> QED BY <3>2 DEF LastBefore
  <2> QED BY <2>2, <2>3
<1> QED BY <1>1, <1>2

\* A node the loop goes on to is of the level and before key.
LEMMA GoesOnTo ==
  ASSUME NEW R, NEW k, NEW next, NEW key \in Int, Threads(R, k, next),
         NEW n \in R \cup {Header}, GoesOn(k, next, key, n)
  PROVE  /\ next[n] \in R /\ k[next[n]] < key
         /\ n # Header => k[n] < k[next[n]]
BY DEF Threads, GoesOn, IsAfter

\* The function the loop computes, as a recursion along the pointers.
IsWalk(R, k, next, key, W) ==
  W = [n \in R \cup {Header} |-> IF GoesOn(k, next, key, n) THEN W[next[n]] ELSE n]

LEMMA WalkExists ==
  ASSUME NEW R, NEW k, NEW next, NEW key \in Int, Keyed(R, k), Threads(R, k, next)
  PROVE  \E W : IsWalk(R, k, next, key, W)
<1>1. PICK p : LastBefore(R, k, key, p)
  BY LastBeforeExists
<1> DEFINE W == [n \in R \cup {Header} |-> IF GoesOn(k, next, key, n) THEN p ELSE n]
<1>2. ASSUME NEW n \in R \cup {Header}, GoesOn(k, next, key, n)
      PROVE  W[next[n]] = p
  <2>1. next[n] \in R /\ k[next[n]] < key /\ next[n] # Header
    BY <1>2, GoesOnTo DEF Keyed
  <2>2. CASE GoesOn(k, next, key, next[n])
    BY <2>1, <2>2
  <2>3. CASE ~GoesOn(k, next, key, next[n])
    <3>1. LastBefore(R, k, key, next[n])
      BY <2>1, <2>3, StopsAtLast
    <3> QED BY <1>1, <2>1, <2>3, <3>1, LastBeforeUnique
  <2> QED BY <2>2, <2>3
<1>3. IsWalk(R, k, next, key, W)
  BY <1>2 DEF IsWalk
<1> QED BY <1>3

\* It ends at the last node before key, from wherever before key it begins:
\* of the nodes from which it did not, one would have the greatest key.
LEMMA WalkEnds ==
  ASSUME NEW R, NEW k, NEW next, NEW key \in Int, Keyed(R, k), Threads(R, k, next),
         NEW W, IsWalk(R, k, next, key, W),
         NEW start \in R \cup {Header}, start # Header => k[start] < key
  PROVE  LastBefore(R, k, key, W[start])
<1>0. \A n \in R \cup {Header} : W[n] = IF GoesOn(k, next, key, n) THEN W[next[n]] ELSE n
  BY DEF IsWalk
<1> DEFINE B == {n \in R : k[n] < key /\ ~LastBefore(R, k, key, W[n])}
<1>1. B = {}
  <2> SUFFICES ASSUME B # {} PROVE FALSE
    OBVIOUS
  <2>1. PICK p \in B : \A n \in B : k[n] <= k[p]
    <3>1. \A n \in B : k[n] \in Int /\ k[n] < key
      BY DEF Keyed
    <3> HIDE DEF B
    <3> QED BY <3>1, Greatest
  <2>2. p \in R /\ p # Header /\ k[p] < key /\ k[p] \in Int
    BY DEF Keyed
  <2>3. CASE GoesOn(k, next, key, p)
    <3>1. next[p] \in R /\ k[next[p]] < key /\ k[p] < k[next[p]] /\ k[next[p]] \in Int
      BY <2>2, <2>3, GoesOnTo DEF Keyed
    <3>2. next[p] \in B
      BY <1>0, <2>2, <2>3, <3>1
    <3> QED BY <2>1, <2>2, <3>1, <3>2
  <2>4. CASE ~GoesOn(k, next, key, p)
    <3>1. W[p] = p /\ LastBefore(R, k, key, p)
      BY <1>0, <2>2, <2>4, StopsAtLast
    <3> QED BY <3>1
  <2> QED BY <2>3, <2>4
<1>2. CASE start \in R
  BY <1>1, <1>2 DEF Keyed
<1>3. CASE start = Header /\ GoesOn(k, next, key, Header)
  <2>1. next[Header] \in R /\ k[next[Header]] < key
    BY <1>3, GoesOnTo
  <2> QED BY <1>0, <1>1, <1>3, <2>1
<1>4. CASE start = Header /\ ~GoesOn(k, next, key, Header)
  BY <1>0, <1>4, StopsAtLast
<1> QED BY <1>2, <1>3, <1>4

\* A node put in after the last node before its key.
LEMMA LinkedIn ==
  ASSUME NEW R, NEW k, NEW next, NEW n, NEW k2, NEW next2, NEW p,
         Keyed(R, k), Threads(R, k, next), n \notin R \cup {Header, Null},
         Keyed(R \cup {n}, k2), \A m \in R : k2[m] = k[m],
         LastBefore(R, k, k2[n], p),
         next2[p] = n, next2[n] = next[p],
         \A m \in (R \cup {Header}) \ {p} : next2[m] = next[m]
  PROVE  Threads(R \cup {n}, k2, next2)
<1>1. p # n /\ p \in R \cup {Header} /\ k2[n] \in Int /\ (p # Header => k[p] < k2[n])
      /\ \A m \in R : k[m] < k2[n] => p # Header /\ k[m] <= k[p]
  BY DEF LastBefore, Keyed
<1>2. \A m \in R : k[m] \in Int /\ k[m] # k2[n] /\ (k[m] = k[p] /\ p # Header => m = p)
  BY <1>1 DEF Keyed
<1> SUFFICES ASSUME NEW x \in (R \cup {n}) \cup {Header}
             PROVE  \/ next2[x] = Null /\ \A m \in R \cup {n} : ~IsAfter(k2, x, m)
                    \/ /\ next2[x] \in R \cup {n} /\ IsAfter(k2, x, next2[x])
                       /\ \A m \in R \cup {n} : IsAfter(k2, x, m) => k2[next2[x]] <= k2[m]
  BY DEF Threads
<1>3. CASE x = n
  <2>1. CASE next[p] = Null
    <3>1. \A m \in R : ~(k2[n] < k[m])
      BY <1>1, <1>2, <2>1 DEF Threads, IsAfter, Keyed
    <3> QED BY <1>1, <1>3, <2>1, <3>1 DEF IsAfter
  <2>2. CASE next[p] # Null
    <3>1. next[p] \in R /\ IsAfter(k, p, next[p])
          /\ \A m \in R : IsAfter(k, p, m) => k[next[p]] <= k[m]
      BY <1>1, <2>2 DEF Threads
    <3>2. k2[n] < k[next[p]]
      BY <1>1, <1>2, <3>1 DEF IsAfter
    <3>3. \A m \in R : k2[n] < k[m] => k[next[p]] <= k[m]
      BY <1>1, <1>2, <3>1 DEF IsAfter
    <3> QED BY <1>1, <1>3, <3>1, <3>2, <3>3 DEF IsAfter
  <2> QED BY <2>1, <2>2
<1>4. CASE x = p
  <2>1. \A m \in R : IsAfter(k, p, m) => k2[n] <= k[m]
    BY <1>1, <1>2 DEF IsAfter
  <2>2. IsAfter(k2, p, n)
    BY <1>1 DEF IsAfter
  <2>3. \A m \in R : IsAfter(k2, p, m) <=> IsAfter(k, p, m)
    BY <1>1 DEF IsAfter
  <2> QED BY <1>1, <1>4, <2>1, <2>2, <2>3
<1>5. CASE x # p /\ x # n
  <2>1. x \in R \cup {Header} /\ next2[x] = next[x]
    BY <1>5
  <2>2. IsAfter(k2, x, n) => p # Header /\ p \in R /\ IsAfter(k, x, p)
    BY <1>1, <1>2, <1>5, <2>1 DEF IsAfter
  <2>3. \A m \in R : IsAfter(k2, x, m) <=> IsAfter(k, x, m)
    BY <2>1 DEF IsAfter
  <2>4. CASE next[x] = Null
    <3>1. \A m \in R : ~IsAfter(k, x, m)
      BY <2>1, <2>4 DEF Threads, Keyed
    <3> QED BY <2>1, <2>2, <2>3, <2>4, <3>1
  <2>5. CASE next[x] # Null
    <3>1. next[x] \in R /\ IsAfter(k, x, next[x])
          /\ \A m \in R : IsAfter(k, x, m) => k[next[x]] <= k[m]
      BY <2>1, <2>5 DEF Threads
    <3>2. IsAfter(k2, x, n) => k[next[x]] <= k2[n]
      BY <1>1, <1>2, <2>2, <3>1
    <3> QED BY <2>1, <2>3, <3>1, <3>2
  <2> QED BY <2>4, <2>5
<1> QED BY <1>3, <1>4, <1>5

\* A node taken out: the last one before it leads to where it led.
LEMMA LinkedOut ==
  ASSUME NEW R, NEW k, NEW next, NEW n \in R, NEW next2, NEW p,
         Keyed(R, k), Threads(R, k, next), LastBefore(R, k, k[n], p),
         next2[p] = next[n],
         \A m \in (R \cup {Header}) \ {p, n} : next2[m] = next[m]
  PROVE  Threads(R \ {n}, k, next2)
<1>1. p # n /\ p \in R \cup {Header} /\ k[n] \in Int /\ (p # Header => k[p] < k[n])
      /\ \A m \in R : k[m] < k[n] => p # Header /\ k[m] <= k[p]
  BY DEF LastBefore, Keyed
<1>2. \A m \in R : k[m] \in Int /\ (k[m] = k[n] => m = n)
      /\ (k[m] = k[p] /\ p # Header => m = p)
  BY <1>1 DEF Keyed
<1>3. Header \notin R /\ Null \notin R
  BY DEF Keyed
<1> SUFFICES ASSUME NEW x \in (R \ {n}) \cup {Header}
             PROVE  \/ next2[x] = Null /\ \A m \in R \ {n} : ~IsAfter(k, x, m)
                    \/ /\ next2[x] \in R \ {n} /\ IsAfter(k, x, next2[x])
                       /\ \A m \in R \ {n} : IsAfter(k, x, m) => k[next2[x]] <= k[m]
  BY DEF Threads
<1>4. CASE x = p
  <2>1. \A m \in R \ {n} : IsAfter(k, p, m) => IsAfter(k, n, m)
    BY <1>1, <1>2, <1>3 DEF IsAfter
  <2>2. CASE next[n] = Null
    <3>1. \A m \in R : ~IsAfter(k, n, m)
      BY <1>3, <2>2 DEF Threads
    <3> QED BY <1>4, <2>1, <2>2, <3>1
  <2>3. CASE next[n] # Null
    <3>1. next[n] \in R /\ IsAfter(k, n, next[n])
          /\ \A m \in R : IsAfter(k, n, m) => k[next[n]] <= k[m]
      BY <2>3 DEF Threads
    <3>2. next[n] # n /\ IsAfter(k, p, next[n])
      BY <1>1, <1>2, <1>3, <3>1 DEF IsAfter
    <3> QED BY <1>4, <2>1, <3>1, <3>2
  <2> QED BY <2>2, <2>3
<1>5. CASE x # p
  <2>1. x \in R \cup {Header} /\ x # n /\ next2[x] = next[x]
    BY <1>3, <1>5
  <2>2. CASE next[x] = Null
    <3>1. \A m \in R : ~IsAfter(k, x, m)
      BY <1>3, <2>1, <2>2 DEF Threads
    <3> QED BY <2>1, <2>2, <3>1
  <2>3. CASE next[x] # Null
    <3>1. next[x] \in R /\ IsAfter(k, x, next[x])
          /\ \A m \in R : IsAfter(k, x, m) => k[next[x]] <= k[m]
      BY <2>1, <2>3 DEF Threads
    <3>2. next[x] # n
      <4> SUFFICES ASSUME next[x] = n PROVE FALSE
        OBVIOUS
      <4>1. x = Header \/ k[x] < k[n]
        BY <3>1 DEF IsAfter
      <4>2. CASE x = Header
        <5>1. p \in R
          BY <1>1, <1>5, <4>2
        <5>2. k[n] <= k[p]
          BY <3>1, <4>2, <5>1 DEF IsAfter
        <5> QED BY <1>1, <1>2, <1>3, <5>1, <5>2
      <4>3. CASE x # Header
        <5>1. x \in R /\ k[x] < k[n] /\ p # Header /\ k[x] <= k[p] /\ p \in R
          BY <1>1, <2>1, <4>1, <4>3
        <5>2. k[x] < k[p]
          BY <1>2, <1>5, <5>1
        <5>3. k[n] <= k[p]
          BY <3>1, <5>1, <5>2 DEF IsAfter
        <5> QED BY <1>1, <1>2, <5>1, <5>3
      <4> QED BY <4>2, <4>3
    <3> QED BY <2>1, <3>1, <3>2
  <2> QED BY <2>2, <2>3
<1> QED BY <1>4, <1>5

-----------------------------------------------------------------------------
(***************************************************************************)
(* The list: its levels, the keys of its nodes and its pointers by level.   *)
(***************************************************************************)
OnLevel(L, i) == Reaching(L, i) \ {Header}
KeyOf(L) == [n \in DOMAIN L.nodes |-> L.nodes[n].key]
NextOn(L, i) == [n \in Reaching(L, i) |-> L.forward[n][i]]

\* The node n has pointers for the levels from 0 to one of the list's.
HasLevels(L, n) == \E level \in 0 .. L.level : DOMAIN L.forward[n] = 0 .. level

(***************************************************************************)
(* What every operation keeps.  The levels are threaded, and for the next   *)
(* insertion and deletion to do so again no two nodes have the same key,    *)
(* the list has a level for each of a node's pointers, and its highest      *)
(* level is in use.                                                        *)
(***************************************************************************)
WellFormed(L) ==
  /\ L.level \in 0 .. MaxLevel /\ L.count = Cardinality(DOMAIN L.nodes)
  /\ DOMAIN L.nodes \subseteq Node
  /\ L.nodes \in [DOMAIN L.nodes -> [key : Key, value : Value]]
  /\ \A m, n \in DOMAIN L.nodes : L.nodes[m].key = L.nodes[n].key => m = n
  /\ DOMAIN L.forward = DOMAIN L.nodes \cup {Header}
  /\ DOMAIN L.forward[Header] = 0 .. MaxLevel
  /\ \A n \in DOMAIN L.nodes : HasLevels(L, n)
  /\ L.level = 0 \/ OnLevel(L, L.level) # {}
  /\ \A i \in 0 .. MaxLevel : Threads(OnLevel(L, i), KeyOf(L), NextOn(L, i))

LEMMA LevelFacts ==
  ASSUME NEW L, WellFormed(L), NEW i \in 0 .. MaxLevel
  PROVE  /\ Keyed(OnLevel(L, i), KeyOf(L))
         /\ Threads(OnLevel(L, i), KeyOf(L), NextOn(L, i))
         /\ Reaching(L, i) = OnLevel(L, i) \cup {Header}
         /\ OnLevel(L, i) \subseteq DOMAIN L.nodes
         /\ i > L.level => OnLevel(L, i) = {}
<1>1. Header \in Reaching(L, i)
  BY DEF WellFormed, Reaching
<1>2. OnLevel(L, i) \subseteq DOMAIN L.nodes
  BY DEF WellFormed, Reaching, OnLevel
<1>3. \A n \in DOMAIN L.nodes : KeyOf(L)[n] = L.nodes[n].key /\ L.nodes[n].key \in Int
  BY ListAssumption DEF WellFormed, KeyOf
<1>4. Header \notin DOMAIN L.nodes /\ Null \notin DOMAIN L.nodes
  BY ListAssumption DEF WellFormed
<1>5. Keyed(OnLevel(L, i), KeyOf(L))
  BY <1>2, <1>3, <1>4 DEF Keyed, WellFormed
<1>6. i > L.level => OnLevel(L, i) = {}
  <2> SUFFICES ASSUME i > L.level, NEW n \in OnLevel(L, i) PROVE FALSE
    OBVIOUS
  <2>1. PICK level \in 0 .. L.level : DOMAIN L.forward[n] = 0 .. level
    BY <1>2 DEF WellFormed, HasLevels
  <2>2. i \in 0 .. level /\ L.level \in Int
    BY <2>1 DEF OnLevel, Reaching, WellFormed
  <2> QED BY <2>1, <2>2
<1> QED BY <1>1, <1>2, <1>5, <1>6 DEF OnLevel, WellFormed

\* Every node is on the lowest level, and one that is on a level is on those below.
LEMMA LowerLevels ==
  ASSUME NEW L, WellFormed(L)
  PROVE  /\ OnLevel(L, 0) = DOMAIN L.nodes
         /\ \A i \in 0 .. MaxLevel, j \in 0 .. MaxLevel : i <= j =>
              Reaching(L, j) \subseteq Reaching(L, i)
<1>1. Header \notin DOMAIN L.nodes
  BY ListAssumption DEF WellFormed
<1>2. OnLevel(L, 0) = DOMAIN L.nodes
  <2>1. \A n \in DOMAIN L.nodes : 0 \in DOMAIN L.forward[n]
    BY DEF WellFormed, HasLevels
  <2> QED BY <1>1, <2>1 DEF OnLevel, Reaching, WellFormed
<1>3. ASSUME NEW i \in 0 .. MaxLevel, NEW j \in 0 .. MaxLevel, i <= j,
             NEW n \in Reaching(L, j)
      PROVE  n \in Reaching(L, i)
  <2>1. CASE n = Header
    BY <2>1 DEF Reaching, WellFormed
  <2>2. CASE n # Header
    <3>1. n \in DOMAIN L.nodes
      BY <2>2 DEF Reaching, WellFormed
    <3>2. PICK level \in 0 .. L.level : DOMAIN L.forward[n] = 0 .. level
      BY <3>1 DEF WellFormed, HasLevels
    <3>3. j \in 0 .. level
      BY <3>2 DEF Reaching
    <3>4. i \in 0 .. level
      BY <1>3, <3>3
    <3> QED BY <1>3, <3>2, <3>4 DEF Reaching
  <2> QED BY <2>1, <2>2
<1> QED BY <1>2, <1>3

\* One level of a search ends at the last node before the key.
LEMMA StopsBeforeIs ==
  ASSUME NEW L, WellFormed(L), NEW i \in 0 .. MaxLevel, NEW key \in Int,
         NEW start \in Reaching(L, i), start # Header => L.nodes[start].key < key
  PROVE  LastBefore(OnLevel(L, i), KeyOf(L), key, StopsBefore(L, i, start, key))
<1> DEFINE R == OnLevel(L, i)
           k == KeyOf(L)
           next == NextOn(L, i)
<1>1. Keyed(R, k) /\ Threads(R, k, next) /\ Reaching(L, i) = R \cup {Header}
      /\ R \subseteq DOMAIN L.nodes
  BY LevelFacts
<1>2. \A n \in R \cup {Header} :
        /\ next[n] = L.forward[n][i]
        /\ GoesOn(k, next, key, n) <=>
             L.forward[n][i] # Null /\ L.nodes[L.forward[n][i]].key < key
  <2> SUFFICES ASSUME NEW n \in R \cup {Header}
               PROVE  /\ next[n] = L.forward[n][i]
                      /\ GoesOn(k, next, key, n) <=>
                           L.forward[n][i] # Null /\ L.nodes[L.forward[n][i]].key < key
    OBVIOUS
  <2>1. next[n] = L.forward[n][i]
    BY <1>1 DEF NextOn
  <2>2. next[n] = Null \/ (next[n] \in DOMAIN L.nodes /\ k[next[n]] = L.nodes[next[n]].key)
    <3>1. next[n] = Null \/ next[n] \in R
      BY <1>1 DEF Threads
    <3> QED BY <1>1, <3>1 DEF KeyOf
  <2> QED BY <2>1, <2>2 DEF GoesOn
<1> DEFINE W == CHOOSE f : f = [n \in Reaching(L, i) |->
                  LET m == L.forward[n][i]
                  IN IF m # Null /\ L.nodes[m].key < key THEN f[m] ELSE n]
<1>3. \E f : f = [n \in Reaching(L, i) |->
                  LET m == L.forward[n][i]
                  IN IF m # Null /\ L.nodes[m].key < key THEN f[m] ELSE n]
  <2> HIDE DEF R, k, next
  <2>1. PICK f : IsWalk(R, k, next, key, f)
    BY <1>1, WalkExists
  <2>2. f = [n \in R \cup {Header} |-> IF GoesOn(k, next, key, n) THEN f[next[n]] ELSE n]
    BY <2>1 DEF IsWalk
  <2>3. f = [n \in Reaching(L, i) |->
                  LET m == L.forward[n][i]
                  IN IF m # Null /\ L.nodes[m].key < key THEN f[m] ELSE n]
    <3>1. \A n \in R \cup {Header} :
            (IF GoesOn(k, next, key, n) THEN f[next[n]] ELSE n) =
              LET m == L.forward[n][i]
              IN IF m # Null /\ L.nodes[m].key < key THEN f[m] ELSE n
      BY <1>2
    <3> QED BY <1>1, <2>2, <3>1
  <2> QED BY <2>3
<1>4. W = [n \in Reaching(L, i) |->
                  LET m == L.forward[n][i]
                  IN IF m # Null /\ L.nodes[m].key < key THEN W[m] ELSE n]
  BY <1>3
<1>5. StopsBefore(L, i, start, key) = W[start]
  BY DEF StopsBefore
<1> HIDE DEF W, R, k, next
<1>6. IsWalk(R, k, next, key, W)
  BY <1>1, <1>2, <1>4 DEF IsWalk
<1>7. start \in R \cup {Header} /\ (start # Header => k[start] < key)
  BY <1>1 DEF k, KeyOf
<1>8. LastBefore(R, k, key, W[start])
  BY <1>1, <1>6, <1>7, WalkEnds
<1> QED BY <1>5, <1>8 DEF R, k

\* The search passes from each level to the one below at the last node before
\* the key: if there were levels where it did not, consider the highest.
LEMMA PathIs ==
  ASSUME NEW L, WellFormed(L), NEW key \in Int
  PROVE  \A i \in 0 .. L.level : LastBefore(OnLevel(L, i), KeyOf(L), key, Path(L, key)[i])
<1> DEFINE Is(i, p) == LastBefore(OnLevel(L, i), KeyOf(L), key, p)
           From(f, i) == IF i = L.level THEN Header ELSE f[i + 1]
<1>1. L.level \in Nat /\ MaxLevel \in Nat /\ L.level <= MaxLevel
  BY ListAssumption DEF WellFormed
<1>2. ASSUME NEW i \in 0 .. L.level, NEW f, i # L.level => Is(i + 1, f[i + 1])
      PROVE  Is(i, StopsBefore(L, i, From(f, i), key))
  <2>1. i \in 0 .. MaxLevel
    BY <1>1
  <2>2. CASE i = L.level
    <3>1. Header \in Reaching(L, i)
      BY <2>1, LevelFacts
    <3> QED BY <2>1, <2>2, <3>1, StopsBeforeIs
  <2>3. CASE i # L.level
    <3>1. i + 1 \in 0 .. MaxLevel /\ i <= i + 1
      BY <1>1, <2>3
    <3>2. f[i + 1] \in OnLevel(L, i + 1) \cup {Header}
          /\ (f[i + 1] # Header => KeyOf(L)[f[i + 1]] < key)
      BY <1>2, <2>3 DEF LastBefore
    <3>3. f[i + 1] \in Reaching(L, i + 1)
          /\ (f[i + 1] # Header => f[i + 1] \in DOMAIN L.nodes)
      BY <3>1, <3>2, LevelFacts
    <3>4. f[i + 1] \in Reaching(L, i)
      BY <2>1, <3>1, <3>3, LowerLevels
    <3>5. f[i + 1] # Header => L.nodes[f[i + 1]].key < key
      BY <3>2, <3>3 DEF KeyOf
    <3> QED BY <2>1, <2>3, <3>4, <3>5, StopsBeforeIs
  <2> QED BY <2>2, <2>3
<1>3. ASSUME NEW i \in 0 .. L.level, NEW p, NEW q, Is(i, p), Is(i, q) PROVE p = q
  <2>1. i \in 0 .. MaxLevel
    BY <1>1
  <2>2. Keyed(OnLevel(L, i), KeyOf(L))
    BY <2>1, LevelFacts
  <2> QED BY <1>3, <2>2, LastBeforeUnique
<1>4. \A i \in 0 .. L.level : \E p : Is(i, p)
  <2> SUFFICES ASSUME NEW i \in 0 .. L.level PROVE \E p : Is(i, p)
    OBVIOUS
  <2>1. i \in 0 .. MaxLevel
    BY <1>1
  <2>2. Keyed(OnLevel(L, i), KeyOf(L))
    BY <2>1, LevelFacts
  <2> QED BY <2>2, LastBeforeExists
<1> DEFINE Eq(f) == f = [i \in 0 .. L.level |-> StopsBefore(L, i, From(f, i), key)]
           At == CHOOSE f : Eq(f)
<1>5. \E f : Eq(f)
  <2> DEFINE f == [i \in 0 .. L.level |-> CHOOSE p : Is(i, p)]
  <2>1. \A i \in 0 .. L.level : Is(i, f[i])
    <3> HIDE DEF Is
    <3> QED BY <1>4
  <2> HIDE DEF f
  <2>2. ASSUME NEW i \in 0 .. L.level PROVE f[i] = StopsBefore(L, i, From(f, i), key)
    <3>1. i # L.level => i + 1 \in 0 .. L.level
      BY <1>1
    <3>2. i # L.level => Is(i + 1, f[i + 1])
      <4> HIDE DEF Is
      <4> QED BY <2>1, <3>1
    <3>3. Is(i, StopsBefore(L, i, From(f, i), key))
      BY <1>2, <3>2
    <3> HIDE DEF Is, From
    <3> QED BY <1>3, <2>1, <3>3
  <2>3. f = [i \in 0 .. L.level |-> f[i]]
    BY DEF f
  <2>4. Eq(f)
    <3> HIDE DEF From
    <3> QED BY <2>2, <2>3
  <2> QED BY <2>4
<1>6. Eq(At)
  <2> HIDE DEF Eq
  <2> QED BY <1>5
<1>7. Path(L, key) = At
  BY DEF Path
<1> DEFINE T == {L.level - i : i \in {j \in 0 .. L.level : ~Is(j, At[j])}}
<1>8. T = {}
  <2> SUFFICES ASSUME T # {} PROVE FALSE
    OBVIOUS
  <2>1. T \subseteq Nat
    BY <1>1
  <2>2. PICK d \in T : \A e \in T : d <= e
    <3> HIDE DEF T
    <3> QED BY <2>1, LeastNumber
  <2>3. PICK i \in 0 .. L.level : d = L.level - i /\ ~Is(i, At[i])
    <3> HIDE DEF Is, At
    <3> QED BY <2>2
  <2>4. i # L.level => Is(i + 1, At[i + 1])
    <3> SUFFICES ASSUME i # L.level, ~Is(i + 1, At[i + 1]) PROVE FALSE
      OBVIOUS
    <3> HIDE DEF Is, At
    <3>1. i + 1 \in 0 .. L.level
      BY <1>1
    <3>2. L.level - (i + 1) \in T
      BY <3>1
    <3>3. L.level - i <= L.level - (i + 1)
      BY <2>2, <2>3, <3>2
    <3> QED BY <1>1, <3>3
  <2>5. At[i] = StopsBefore(L, i, From(At, i), key)
    <3> HIDE DEF At, From
    <3> QED BY <1>6
  <2>6. Is(i, At[i])
    <3> HIDE DEF At
    <3> QED BY <1>2, <2>4, <2>5
  <2> QED BY <2>3, <2>6
<1> HIDE DEF At, Is
<1>9. \A i \in 0 .. L.level : Is(i, At[i])
  BY <1>8
<1> QED BY <1>7, <1>9 DEF Is

-----------------------------------------------------------------------------
\* search_element finds the node of the key exactly if there is one.
LEMMA FoundIs ==
  ASSUME NEW L, WellFormed(L), NEW key \in Int
  PROVE  /\ \A n \in DOMAIN L.nodes : L.nodes[n].key = key => Found(L, key) = n
         /\ (\A n \in DOMAIN L.nodes : L.nodes[n].key # key) => Found(L, key) = Null
<1> DEFINE R == OnLevel(L, 0)
           k == KeyOf(L)
           next == NextOn(L, 0)
           p == Path(L, key)[0]
           m == L.forward[p][0]
<1>1. 0 \in 0 .. MaxLevel /\ 0 \in 0 .. L.level
  BY ListAssumption DEF WellFormed
<1>2. Keyed(R, k) /\ Threads(R, k, next) /\ R = DOMAIN L.nodes
      /\ Reaching(L, 0) = R \cup {Header}
  BY <1>1, LevelFacts, LowerLevels
<1>3. LastBefore(R, k, key, p)
  BY <1>1, PathIs
<1>4. p \in R \cup {Header} /\ (p # Header => k[p] < key)
  BY <1>3 DEF LastBefore
<1>5. ~GoesOn(k, next, key, p) /\ next[p] = m
  <2>1. next[p] = m
    BY <1>2, <1>4 DEF NextOn
  <2> HIDE DEF R, k, next, p, m
  <2> QED BY <1>2, <1>3, <1>4, <2>1, StopsAtLast
<1>6. Found(L, key) = IF m # Null /\ L.nodes[m].key = key THEN m ELSE Null
  BY DEF Found
<1>7. \A n \in R : k[n] = L.nodes[n].key /\ k[n] \in Int
  BY <1>2 DEF KeyOf, Keyed
<1>8. m = Null \/ m \in R
  BY <1>2, <1>4, <1>5 DEF Threads
<1> HIDE DEF R, k, next, p, m
<1>9. ASSUME NEW n \in R, k[n] = key PROVE m = n /\ m # Null
  <2>1. IsAfter(k, p, n)
    BY <1>4, <1>9 DEF IsAfter
  <2>2. m \in R /\ k[m] <= key
    BY <1>2, <1>4, <1>5, <1>9, <2>1 DEF Threads
  <2>3. m # Null /\ ~(k[m] < key)
    BY <1>2, <1>5, <2>2 DEF GoesOn, Keyed
  <2>4. k[m] = k[n]
    BY <1>7, <1>9, <2>2, <2>3
  <2> QED BY <1>2, <2>2, <2>3, <2>4 DEF Keyed
<1> QED BY <1>2, <1>6, <1>7, <1>8, <1>9

\* A level whose nodes, keys and pointers stay is threaded as before.
LEMMA SameThreads ==
  ASSUME NEW R, NEW k, NEW next, NEW k2, NEW next2, Threads(R, k, next),
         \A m \in R : k2[m] = k[m], \A m \in R \cup {Header} : next2[m] = next[m]
  PROVE  Threads(R, k2, next2)
<1> SUFFICES ASSUME NEW n \in R \cup {Header}
             PROVE  \/ next2[n] = Null /\ \A m \in R : ~IsAfter(k2, n, m)
                    \/ /\ next2[n] \in R /\ IsAfter(k2, n, next2[n])
                       /\ \A m \in R : IsAfter(k2, n, m) => k2[next2[n]] <= k2[m]
  BY DEF Threads
<1>1. \A m \in R : IsAfter(k2, n, m) <=> IsAfter(k, n, m)
  BY DEF IsAfter
<1>2. next2[n] = next[n]
  OBVIOUS
<1> QED BY <1>1, <1>2 DEF Threads

-----------------------------------------------------------------------------
\* After which node a node of this key comes on level i.
Before(L, key, i) == IF i <= L.level THEN Path(L, key)[i] ELSE Header

LEMMA BeforeIs ==
  ASSUME NEW L, WellFormed(L), NEW key \in Int, NEW i \in 0 .. MaxLevel
  PROVE  LastBefore(OnLevel(L, i), KeyOf(L), key, Before(L, key, i))
<1>1. CASE i <= L.level
  <2>1. i \in 0 .. L.level
    BY <1>1 DEF WellFormed
  <2> QED BY <1>1, <2>1, PathIs DEF Before
<1>2. CASE ~(i <= L.level)
  <2>1. i > L.level
    BY <1>2 DEF WellFormed
  <2>2. OnLevel(L, i) = {}
    BY <2>1, LevelFacts
  <2> QED BY <1>2, <2>2 DEF Before, LastBefore
<1> QED BY <1>1, <1>2

\* The levels of a node's pointers are some of those the header has.
LEMMA DomainsAre ==
  ASSUME NEW L, WellFormed(L), NEW m \in DOMAIN L.forward
  PROVE  DOMAIN L.forward[m] \subseteq 0 .. MaxLevel /\ 0 .. MaxLevel \subseteq Nat
<1>1. L.level \in 0 .. MaxLevel /\ MaxLevel \in Nat
  BY ListAssumption DEF WellFormed
<1>2. CASE m = Header
  BY <1>1, <1>2 DEF WellFormed
<1>3. CASE m # Header
  <2>1. m \in DOMAIN L.nodes
    BY <1>3 DEF WellFormed
  <2>2. PICK level \in 0 .. L.level : DOMAIN L.forward[m] = 0 .. level
    BY <2>1 DEF WellFormed, HasLevels
  <2> QED BY <1>1, <2>2
<1> QED BY <1>2, <1>3

LEMMA InsertFields ==
  ASSUME NEW L, WellFormed(L), NEW key, NEW value, NEW level \in 1 .. MaxLevel,
         NEW n \in Node \ DOMAIN L.nodes, NEW I, I = Insert(L, key, value, level, n)
  PROVE  /\ I.level = IF level > L.level THEN level ELSE L.level
         /\ I.count = L.count + 1
         /\ DOMAIN I.nodes = DOMAIN L.nodes \cup {n}
         /\ \A m \in DOMAIN L.nodes : I.nodes[m] = L.nodes[m]
         /\ I.nodes[n] = [key |-> key, value |-> value]
         /\ I.nodes = [m \in DOMAIN I.nodes |-> I.nodes[m]]
         /\ DOMAIN I.forward = DOMAIN L.forward \cup {n}
         /\ \A m \in DOMAIN L.forward :
              /\ DOMAIN I.forward[m] = DOMAIN L.forward[m]
              /\ \A i \in DOMAIN L.forward[m] :
                   I.forward[m][i] = IF i <= level /\ Before(L, key, i) = m THEN n
                                     ELSE L.forward[m][i]
         /\ DOMAIN I.forward[n] = 0 .. level
         /\ \A i \in 0 .. level : I.forward[n][i] = L.forward[Before(L, key, i)][i]
<1>1. n \notin DOMAIN L.nodes /\ n \notin DOMAIN L.forward
  BY ListAssumption DEF WellFormed
<1> DEFINE path == Path(L, key)
           update == [i \in 0 .. level |-> IF i <= L.level THEN path[i] ELSE Header]
           relinked(m) == [i \in DOMAIN L.forward[m] |->
                             IF Links(update, level, m, i) THEN n ELSE L.forward[m][i]]
           F == [m \in DOMAIN L.forward |-> relinked(m)]
           own == [i \in 0 .. level |-> L.forward[update[i]][i]]
<1>2. I = [level   |-> IF level > L.level THEN level ELSE L.level,
           count   |-> L.count + 1,
           nodes   |-> With(L.nodes, n, [key |-> key, value |-> value]),
           forward |-> With(F, n, own)]
  BY DEF Insert
<1>3. \A i \in 0 .. level : update[i] = Before(L, key, i)
  BY DEF Before
<1>4. \A m \in DOMAIN L.forward : \A i \in DOMAIN L.forward[m] :
        Links(update, level, m, i) <=> i <= level /\ Before(L, key, i) = m
  <2> SUFFICES ASSUME NEW m \in DOMAIN L.forward, NEW i \in DOMAIN L.forward[m]
               PROVE  Links(update, level, m, i) <=> i <= level /\ Before(L, key, i) = m
    OBVIOUS
  <2>1. i \in Nat
    BY DomainsAre
  <2>2. i <= level => i \in 0 .. level
    BY <2>1
  <2> HIDE DEF update
  <2> QED BY <1>3, <2>2 DEF Links
<1>5. DOMAIN own = 0 .. level /\ \A i \in 0 .. level : own[i] = L.forward[Before(L, key, i)][i]
  <2> HIDE DEF update
  <2> QED BY <1>3
<1>6. DOMAIN F = DOMAIN L.forward
      /\ \A m \in DOMAIN L.forward :
           /\ DOMAIN F[m] = DOMAIN L.forward[m]
           /\ \A i \in DOMAIN L.forward[m] :
                F[m][i] = IF i <= level /\ Before(L, key, i) = m THEN n ELSE L.forward[m][i]
  <2> HIDE DEF update
  <2> QED BY <1>4
<1> HIDE DEF F, own
<1>7. /\ DOMAIN I.forward = DOMAIN F \cup {n}
      /\ \A m \in DOMAIN F : m # n => I.forward[m] = F[m]
      /\ I.forward[n] = own
  BY <1>2 DEF With
<1>8. /\ DOMAIN I.nodes = DOMAIN L.nodes \cup {n}
      /\ \A m \in DOMAIN L.nodes : m # n => I.nodes[m] = L.nodes[m]
      /\ I.nodes[n] = [key |-> key, value |-> value]
      /\ I.nodes = [m \in DOMAIN I.nodes |-> I.nodes[m]]
  BY <1>2 DEF With
<1>9. I.level = (IF level > L.level THEN level ELSE L.level) /\ I.count = L.count + 1
  BY <1>2
<1> QED BY <1>1, <1>5, <1>6, <1>7, <1>8, <1>9

\* insert_element of a key that is not there, whatever level its node is given.
LEMMA InsertWellFormed ==
  ASSUME NEW L, WellFormed(L), NEW key \in Key, NEW value \in Value,
         \A m \in DOMAIN L.nodes : L.nodes[m].key # key,
         NEW level \in 1 .. MaxLevel, NEW n \in Node \ DOMAIN L.nodes
  PROVE  WellFormed(Insert(L, key, value, level, n))
<1> DEFINE J == Insert(L, key, value, level, n)
<1>1. PICK I : I = J
  OBVIOUS
<1>2. /\ I.level = IF level > L.level THEN level ELSE L.level
      /\ I.count = L.count + 1
      /\ DOMAIN I.nodes = DOMAIN L.nodes \cup {n}
      /\ \A m \in DOMAIN L.nodes : I.nodes[m] = L.nodes[m]
      /\ I.nodes[n] = [key |-> key, value |-> value]
      /\ I.nodes = [m \in DOMAIN I.nodes |-> I.nodes[m]]
      /\ DOMAIN I.forward = DOMAIN L.forward \cup {n}
      /\ \A m \in DOMAIN L.forward :
           /\ DOMAIN I.forward[m] = DOMAIN L.forward[m]
           /\ \A i \in DOMAIN L.forward[m] :
                I.forward[m][i] = IF i <= level /\ Before(L, key, i) = m THEN n
                                  ELSE L.forward[m][i]
      /\ DOMAIN I.forward[n] = 0 .. level
      /\ \A i \in 0 .. level : I.forward[n][i] = L.forward[Before(L, key, i)][i]
  BY <1>1, InsertFields
<1> HIDE DEF J
<1>3. n # Header /\ n # Null /\ n \notin DOMAIN L.nodes /\ n \notin DOMAIN L.forward
      /\ Header \in DOMAIN L.forward /\ DOMAIN L.forward = DOMAIN L.nodes \cup {Header}
      /\ Header \notin DOMAIN L.nodes
  BY ListAssumption DEF WellFormed
<1>4. L.level \in Nat /\ MaxLevel \in Nat /\ L.level <= MaxLevel /\ level \in Nat
      /\ level <= MaxLevel /\ key \in Int /\ I.level \in 0 .. MaxLevel
      /\ L.level <= I.level /\ level <= I.level /\ level >= 1
  BY <1>2, ListAssumption DEF WellFormed
<1>5. I.count = Cardinality(DOMAIN I.nodes)
  <2>1. IsFiniteSet(DOMAIN L.nodes)
    BY ListAssumption, FS_Subset DEF WellFormed
  <2>2. Cardinality(DOMAIN L.nodes \cup {n}) = Cardinality(DOMAIN L.nodes) + 1
    BY <1>3, <2>1, FS_AddElement
  <2> QED BY <1>2, <2>2 DEF WellFormed
<1>6. DOMAIN I.nodes \subseteq Node /\ I.nodes \in [DOMAIN I.nodes -> [key : Key, value : Value]]
  <2>1. \A m \in DOMAIN I.nodes : I.nodes[m] \in [key : Key, value : Value]
    BY <1>2 DEF WellFormed
  <2> QED BY <1>2, <2>1 DEF WellFormed
<1>7. \A m, o \in DOMAIN I.nodes : I.nodes[m].key = I.nodes[o].key => m = o
  BY <1>2, <1>3 DEF WellFormed
<1>8. DOMAIN I.forward = DOMAIN I.nodes \cup {Header} /\ DOMAIN I.forward[Header] = 0 .. MaxLevel
  BY <1>2, <1>3 DEF WellFormed
<1>9. \A m \in DOMAIN I.nodes : HasLevels(I, m)
  <2> SUFFICES ASSUME NEW m \in DOMAIN I.nodes PROVE HasLevels(I, m)
    OBVIOUS
  <2>1. CASE m = n
    BY <1>2, <1>4, <2>1 DEF HasLevels
  <2>2. CASE m # n
    <3>1. m \in DOMAIN L.nodes /\ m \in DOMAIN L.forward
      BY <1>2, <1>3, <2>2
    <3>2. PICK d \in 0 .. L.level : DOMAIN L.forward[m] = 0 .. d
      BY <3>1 DEF WellFormed, HasLevels
    <3>3. d \in 0 .. I.level /\ DOMAIN I.forward[m] = 0 .. d
      BY <1>2, <1>4, <3>1, <3>2
    <3> QED BY <3>3 DEF HasLevels
  <2> QED BY <2>1, <2>2
<1>10. \A i \in 0 .. MaxLevel :
         OnLevel(I, i) = IF i <= level THEN OnLevel(L, i) \cup {n} ELSE OnLevel(L, i)
  <2> SUFFICES ASSUME NEW i \in 0 .. MaxLevel
               PROVE  OnLevel(I, i) = IF i <= level THEN OnLevel(L, i) \cup {n}
                                      ELSE OnLevel(L, i)
    OBVIOUS
  <2>1. n \in OnLevel(I, i) <=> i <= level
    BY <1>2, <1>3, <1>4 DEF OnLevel, Reaching
  <2>2. \A m : m # n => (m \in OnLevel(I, i) <=> m \in OnLevel(L, i))
    BY <1>2 DEF OnLevel, Reaching
  <2>3. n \notin OnLevel(L, i)
    BY <1>3 DEF OnLevel, Reaching
  <2> DEFINE A == OnLevel(I, i)
             B == OnLevel(L, i)
  <2> HIDE DEF A, B
  <2>4. A = IF i <= level THEN B \cup {n} ELSE B
    <3>1. CASE i <= level
      <4>1. \A m : m \in A <=> m \in B \cup {n}
        BY <2>1, <2>2, <3>1 DEF A, B
      <4> QED BY <3>1, <4>1
    <3>2. CASE ~(i <= level)
      <4>1. \A m : m \in A <=> m \in B
        BY <2>1, <2>2, <2>3, <3>2 DEF A, B
      <4> QED BY <3>2, <4>1
    <3> QED BY <3>1, <3>2
  <2> QED BY <2>4 DEF A, B
<1>11. I.level = 0 \/ OnLevel(I, I.level) # {}
  <2>1. CASE level > L.level
    BY <1>2, <1>4, <1>10, <2>1
  <2>2. CASE ~(level > L.level)
    <3>1. I.level = L.level /\ L.level # 0
      BY <1>2, <1>4, <2>2
    <3>2. OnLevel(L, L.level) # {}
      BY <3>1 DEF WellFormed
    <3> QED BY <1>4, <1>10, <3>1, <3>2
  <2> QED BY <2>1, <2>2
<1>12. ASSUME NEW i \in 0 .. MaxLevel
       PROVE  Threads(OnLevel(I, i), KeyOf(I), NextOn(I, i))
  <2> DEFINE R == OnLevel(L, i)
             k == KeyOf(L)
             next == NextOn(L, i)
             k2 == KeyOf(I)
             next2 == NextOn(I, i)
             p == Before(L, key, i)
  <2>1. Keyed(R, k) /\ Threads(R, k, next) /\ Reaching(L, i) = R \cup {Header}
        /\ R \subseteq DOMAIN L.nodes
    BY LevelFacts
  <2>2. LastBefore(R, k, key, p)
    BY <1>4, BeforeIs
  <2>3. \A m \in R : k2[m] = k[m]
    BY <1>2, <2>1 DEF KeyOf
  <2>4. k2[n] = key
    BY <1>2 DEF KeyOf
  <2>5. \A m \in R \cup {Header} : m \in DOMAIN L.forward /\ i \in DOMAIN L.forward[m]
    BY <2>1 DEF Reaching
  <2>6. \A m \in R \cup {Header} : next[m] = L.forward[m][i] /\ next2[m] = I.forward[m][i]
    BY <1>2, <2>1, <2>5 DEF NextOn, Reaching
  <2>7. \A m \in R \cup {Header} :
          next2[m] = IF i <= level /\ p = m THEN n ELSE next[m]
    BY <1>2, <2>5, <2>6
  <2>8. CASE ~(i <= level)
    <3>1. \A m \in R \cup {Header} : next2[m] = next[m]
      BY <2>7, <2>8
    <3>2. OnLevel(I, i) = R
      BY <1>10, <2>8
    <3> HIDE DEF R, k, next, k2, next2
    <3>3. Threads(R, k2, next2)
      BY <2>1, <2>3, <3>1, SameThreads
    <3> QED BY <3>2, <3>3 DEF k2, next2
  <2>9. CASE i <= level
    <3>1. i \in 0 .. level
      BY <2>9
    <3>2. p \in R \cup {Header}
      BY <2>2 DEF LastBefore
    <3>3. next2[n] = next[p]
      <4>1. n \in Reaching(I, i) /\ I.forward[n][i] = L.forward[p][i]
        BY <1>2, <3>1 DEF Reaching
      <4>2. next2[n] = I.forward[n][i]
        BY <4>1 DEF NextOn
      <4> QED BY <2>6, <3>2, <4>1, <4>2
    <3>4. next2[p] = n /\ \A m \in (R \cup {Header}) \ {p} : next2[m] = next[m]
      BY <2>7, <2>9, <3>2
    <3>5. n \notin R \cup {Header, Null}
      BY <1>3, <2>1
    <3>6. Keyed(R \cup {n}, k2)
      <4>1. \A m \in R : k[m] # key
        BY <2>1 DEF KeyOf
      <4> HIDE DEF R, k, k2
      <4> QED BY <1>3, <1>4, <2>1, <2>3, <2>4, <4>1 DEF Keyed
    <3>7. OnLevel(I, i) = R \cup {n}
      BY <1>10, <2>9
    <3> HIDE DEF R, k, next, k2, next2, p
    <3>8. LastBefore(R, k, k2[n], p)
      BY <2>2, <2>4
    <3>9. Threads(R \cup {n}, k2, next2)
      BY <2>1, <2>3, <3>3, <3>4, <3>5, <3>6, <3>8, LinkedIn
    <3> QED BY <3>7, <3>9 DEF k2, next2
  <2> QED BY <2>8, <2>9
<1>13. WellFormed(I)
  BY <1>4, <1>5, <1>6, <1>7, <1>8, <1>9, <1>11, <1>12 DEF WellFormed
<1> QED BY <1>1, <1>13 DEF J

-----------------------------------------------------------------------------
\* On each level of node n, and on no other, the last node before n leads to it.
LEMMA LeadsTo ==
  ASSUME NEW L, WellFormed(L), NEW n \in DOMAIN L.nodes, NEW key, key = L.nodes[n].key,
         NEW i \in 0 .. L.level
  PROVE  L.forward[Path(L, key)[i]][i] = n <=> i \in DOMAIN L.forward[n]
<1> DEFINE R == OnLevel(L, i)
           k == KeyOf(L)
           next == NextOn(L, i)
           p == Path(L, key)[i]
<1>1. i \in 0 .. MaxLevel /\ key \in Int /\ n # Header /\ n # Null
  <2>1. L.level \in 0 .. MaxLevel /\ MaxLevel \in Nat
    BY ListAssumption DEF WellFormed
  <2>2. i \in 0 .. MaxLevel
    BY <2>1
  <2>3. L.nodes[n].key \in Key /\ n \in Node
    BY DEF WellFormed
  <2>4. key \in Int
    BY <2>3, ListAssumption
  <2>5. n # Header /\ n # Null
    BY <2>3, ListAssumption
  <2> QED BY <2>2, <2>4, <2>5
<1>2. Keyed(R, k) /\ Threads(R, k, next) /\ Reaching(L, i) = R \cup {Header}
      /\ R \subseteq DOMAIN L.nodes
  BY <1>1, LevelFacts
<1>3. LastBefore(R, k, key, p)
  BY <1>1, PathIs
<1>4. p \in R \cup {Header} /\ (p # Header => k[p] < key)
  BY <1>3 DEF LastBefore
<1>5. next[p] = L.forward[p][i]
  BY <1>2, <1>4 DEF NextOn
<1>6. n \in R <=> i \in DOMAIN L.forward[n]
  BY <1>1 DEF OnLevel, Reaching, WellFormed
<1>7. next[p] = Null \/ next[p] \in R
  BY <1>2, <1>4 DEF Threads
<1>8. k[n] = key
  BY DEF KeyOf
<1> HIDE DEF R, k, next, p
<1>9. ~GoesOn(k, next, key, p)
  BY <1>1, <1>2, <1>3, <1>4, StopsAtLast
<1>10. ASSUME n \in R PROVE next[p] = n
  <2>1. IsAfter(k, p, n)
    BY <1>4, <1>8 DEF IsAfter
  <2>2. next[p] \in R /\ k[next[p]] <= key
    BY <1>2, <1>4, <1>8, <1>10, <2>1 DEF Threads
  <2>3. ~(k[next[p]] < key)
    BY <1>2, <1>9, <2>2 DEF GoesOn, Keyed
  <2>4. k[next[p]] = k[n]
    BY <1>1, <1>2, <1>8, <2>2, <2>3 DEF Keyed
  <2> QED BY <1>2, <1>10, <2>2, <2>4 DEF Keyed
<1> QED BY <1>1, <1>5, <1>6, <1>7, <1>10 DEF p

\* The highest level that leads anywhere from the header.
LEMMA LevelLeftIs ==
  ASSUME NEW level \in Nat, NEW header
  PROVE  /\ LevelLeft(level, header) \in 0 .. level
         /\ \A i \in 1 .. level : i > LevelLeft(level, header) => header[i] = Null
         /\ LevelLeft(level, header) # 0 => header[LevelLeft(level, header)] # Null
<1> DEFINE used == {i \in 1 .. level : header[i] # Null}
<1>1. CASE used = {}
  BY <1>1 DEF LevelLeft
<1>2. CASE used # {}
  <2>1. PICK r \in used : \A i \in used : i <= r
    <3> DEFINE k == [i \in used |-> i]
    <3>1. level + 1 \in Int /\ \A i \in used : k[i] \in Int /\ k[i] < level + 1
      OBVIOUS
    <3>2. PICK r \in used : \A i \in used : k[i] <= k[r]
      <4> HIDE DEF used, k
      <4> QED BY <1>2, <3>1, Greatest
    <3> QED BY <3>2
  <2>2. \A x \in used : (\A y \in used : x >= y) => x = r
    BY <2>1
  <2>3. Max(used) = r
    <3> HIDE DEF used
    <3>1. \A y \in used : r >= y
      BY <2>1, <2>2 DEF used
    <3> QED BY <2>1, <2>2, <3>1 DEF Max
  <2>4. LevelLeft(level, header) = r
    BY <1>2, <2>3 DEF LevelLeft
  <2> QED BY <2>1, <2>4
<1> QED BY <1>1, <1>2

LEMMA WithoutFields ==
  ASSUME NEW L, WellFormed(L), NEW n \in DOMAIN L.nodes, NEW key, key = L.nodes[n].key,
         NEW D, D = Without(L, key, n)
  PROVE  /\ D.level = LevelLeft(L.level, D.forward[Header])
         /\ D.count = L.count - 1
         /\ D.nodes = [m \in DOMAIN L.nodes \ {n} |-> L.nodes[m]]
         /\ DOMAIN D.forward = DOMAIN L.forward \ {n}
         /\ \A m \in DOMAIN L.forward \ {n} :
              /\ DOMAIN D.forward[m] = DOMAIN L.forward[m]
              /\ \A i \in DOMAIN L.forward[m] :
                   D.forward[m][i] = IF i \in DOMAIN L.forward[n] /\ Path(L, key)[i] = m
                                     THEN L.forward[n][i] ELSE L.forward[m][i]
<1> DEFINE path == Path(L, key)
           linked == {i \in 0 .. L.level : \A j \in 0 .. i : L.forward[path[j]][j] = n}
           unlinked(m) == [i \in DOMAIN L.forward[m] |->
                             IF i \in linked /\ path[i] = m THEN L.forward[n][i]
                             ELSE L.forward[m][i]]
<1>1. D = [level   |-> LevelLeft(L.level, unlinked(Header)),
           count   |-> L.count - 1,
           nodes   |-> [m \in DOMAIN L.nodes \ {n} |-> L.nodes[m]],
           forward |-> [m \in DOMAIN L.forward \ {n} |-> unlinked(m)]]
  BY DEF Without
<1>2. linked = DOMAIN L.forward[n]
  <2>1. PICK d \in 0 .. L.level : DOMAIN L.forward[n] = 0 .. d
    BY DEF WellFormed, HasLevels
  <2>2. \A j \in 0 .. L.level : L.forward[path[j]][j] = n <=> j \in 0 .. d
    BY <2>1, LeadsTo
  <2>3. L.level \in Nat
    BY ListAssumption DEF WellFormed
  <2> HIDE DEF path
  <2>4. \A i \in 0 .. L.level : (\A j \in 0 .. i : L.forward[path[j]][j] = n) <=> i \in 0 .. d
    BY <2>2, <2>3
  <2> QED BY <2>1, <2>3, <2>4
<1> HIDE DEF linked
<1>3. Header \in DOMAIN L.forward \ {n}
  BY ListAssumption DEF WellFormed
<1>4. \A m \in DOMAIN L.forward \ {n} :
        /\ DOMAIN unlinked(m) = DOMAIN L.forward[m]
        /\ \A i \in DOMAIN L.forward[m] :
             unlinked(m)[i] = IF i \in DOMAIN L.forward[n] /\ Path(L, key)[i] = m
                              THEN L.forward[n][i] ELSE L.forward[m][i]
  BY <1>2
<1> HIDE DEF unlinked
<1>5. \A m \in DOMAIN L.forward \ {n} : D.forward[m] = unlinked(m)
  BY <1>1
<1>6. DOMAIN D.forward = DOMAIN L.forward \ {n} /\ D.count = L.count - 1
      /\ D.nodes = [m \in DOMAIN L.nodes \ {n} |-> L.nodes[m]]
      /\ D.level = LevelLeft(L.level, unlinked(Header))
  BY <1>1
<1> QED BY <1>3, <1>4, <1>5, <1>6

\* delete_element of a key that is there.
LEMMA WithoutWellFormed ==
  ASSUME NEW L, WellFormed(L), NEW n \in DOMAIN L.nodes, NEW key, key = L.nodes[n].key
  PROVE  WellFormed(Without(L, key, n))
<1> DEFINE J == Without(L, key, n)
<1>1. PICK D : D = J
  OBVIOUS
<1>2. /\ D.level = LevelLeft(L.level, D.forward[Header])
      /\ D.count = L.count - 1
      /\ D.nodes = [m \in DOMAIN L.nodes \ {n} |-> L.nodes[m]]
      /\ DOMAIN D.forward = DOMAIN L.forward \ {n}
      /\ \A m \in DOMAIN L.forward \ {n} :
           /\ DOMAIN D.forward[m] = DOMAIN L.forward[m]
           /\ \A i \in DOMAIN L.forward[m] :
                D.forward[m][i] = IF i \in DOMAIN L.forward[n] /\ Path(L, key)[i] = m
                                  THEN L.forward[n][i] ELSE L.forward[m][i]
  BY <1>1, WithoutFields
<1> HIDE DEF J
<1>3. n \in Node /\ n # Header /\ n \in DOMAIN L.forward /\ Header \in DOMAIN L.forward
      /\ DOMAIN L.forward = DOMAIN L.nodes \cup {Header} /\ Header \notin DOMAIN L.nodes
  BY ListAssumption DEF WellFormed
<1>4. L.level \in Nat /\ MaxLevel \in Nat /\ L.level <= MaxLevel /\ key \in Int
  <2>1. L.nodes[n].key \in Key
    BY DEF WellFormed
  <2>2. key \in Int
    BY <2>1, ListAssumption
  <2>3. L.level \in 0 .. MaxLevel /\ MaxLevel \in Nat
    BY ListAssumption DEF WellFormed
  <2> QED BY <2>2, <2>3
<1>5. /\ D.level \in 0 .. L.level
      /\ \A i \in 1 .. L.level : i > D.level => D.forward[Header][i] = Null
      /\ D.level # 0 => D.forward[Header][D.level] # Null
  <2> DEFINE header == D.forward[Header]
             level == LevelLeft(L.level, header)
  <2> HIDE DEF header, level
  <2>1. /\ level \in 0 .. L.level
        /\ \A i \in 1 .. L.level : i > level => header[i] = Null
        /\ level # 0 => header[level] # Null
    BY <1>4, LevelLeftIs DEF level
  <2>2. D.level = level
    BY <1>2 DEF level, header
  <2> QED BY <2>1, <2>2 DEF header
<1>6. DOMAIN D.nodes = DOMAIN L.nodes \ {n}
      /\ \A m \in DOMAIN L.nodes \ {n} : D.nodes[m] = L.nodes[m]
  BY <1>2
<1>7. D.count = Cardinality(DOMAIN D.nodes)
  <2>1. IsFiniteSet(DOMAIN L.nodes)
    BY ListAssumption, FS_Subset DEF WellFormed
  <2>2. Cardinality(DOMAIN L.nodes \ {n}) = Cardinality(DOMAIN L.nodes) - 1
    BY <2>1, FS_RemoveElement
  <2> QED BY <1>2, <1>6, <2>2 DEF WellFormed
<1>8. DOMAIN D.nodes \subseteq Node /\ D.nodes \in [DOMAIN D.nodes -> [key : Key, value : Value]]
  BY <1>2, <1>6 DEF WellFormed
<1>9. \A m, o \in DOMAIN D.nodes : D.nodes[m].key = D.nodes[o].key => m = o
  BY <1>6 DEF WellFormed
<1>10. DOMAIN D.forward = DOMAIN D.nodes \cup {Header} /\ DOMAIN D.forward[Header] = 0 .. MaxLevel
  BY <1>2, <1>3, <1>6 DEF WellFormed
<1>11. \A i \in 0 .. MaxLevel : OnLevel(D, i) = OnLevel(L, i) \ {n}
  BY <1>2, <1>3 DEF OnLevel, Reaching
<1>12. ASSUME NEW i \in 0 .. MaxLevel
       PROVE  Threads(OnLevel(D, i), KeyOf(D), NextOn(D, i))
  <2> DEFINE R == OnLevel(L, i)
             k == KeyOf(L)
             next == NextOn(L, i)
             k2 == KeyOf(D)
             next2 == NextOn(D, i)
             p == Path(L, key)[i]
  <2>1. Keyed(R, k) /\ Threads(R, k, next) /\ Reaching(L, i) = R \cup {Header}
        /\ R \subseteq DOMAIN L.nodes
    BY LevelFacts
  <2>2. \A m \in R \ {n} : k2[m] = k[m]
    BY <1>6, <2>1 DEF KeyOf
  <2>3. \A m \in R \cup {Header} : m \in DOMAIN L.forward /\ i \in DOMAIN L.forward[m]
    BY <2>1 DEF Reaching
  <2>4. \A m \in R \cup {Header} : next[m] = L.forward[m][i]
    BY <2>1 DEF NextOn
  <2>5. \A m \in (R \cup {Header}) \ {n} : next2[m] = D.forward[m][i]
    BY <1>2, <2>3 DEF NextOn, Reaching
  <2>6. \A m \in (R \cup {Header}) \ {n} :
          next2[m] = IF i \in DOMAIN L.forward[n] /\ p = m THEN L.forward[n][i] ELSE next[m]
    BY <1>2, <2>3, <2>4, <2>5
  <2>7. n \in R <=> i \in DOMAIN L.forward[n]
    BY <1>3 DEF OnLevel, Reaching
  <2>8. OnLevel(D, i) = R \ {n}
    BY <1>11
  <2>9. CASE n \notin R
    <3> HIDE DEF R, k, next, k2, next2
    <3>1. R \ {n} = R /\ n \notin R \cup {Header}
      BY <1>3, <2>9
    <3>2. \A m \in R \cup {Header} : next2[m] = next[m]
      BY <2>6, <2>7, <2>9, <3>1
    <3>3. Threads(R, k2, next2)
      BY <2>1, <2>2, <3>1, <3>2, SameThreads
    <3> QED BY <2>8, <3>1, <3>3 DEF k2, next2
  <2>10. CASE n \in R
    <3>1. i \in 0 .. L.level
      BY <1>4, <2>10, LevelFacts
    <3>2. LastBefore(R, k, key, p)
      BY <1>4, <3>1, PathIs
    <3>3. k[n] = key
      BY DEF KeyOf
    <3>4. p # n /\ p \in R \cup {Header}
      BY <1>3, <1>4, <3>2, <3>3 DEF LastBefore
    <3>5. next2[p] = next[n]
      BY <2>4, <2>6, <2>7, <2>10, <3>4
    <3>6. \A m \in (R \cup {Header}) \ {p, n} : next2[m] = next[m]
      BY <2>6
    <3> HIDE DEF R, k, next, k2, next2, p
    <3>7. Threads(R \ {n}, k, next2)
      BY <2>1, <2>10, <3>2, <3>3, <3>5, <3>6, LinkedOut
    <3>8. Threads(R \ {n}, k2, next2)
      BY <2>2, <3>7, SameThreads
    <3> QED BY <2>8, <3>8 DEF k2, next2
  <2> QED BY <2>9, <2>10
\* A level that leads nowhere from the header is empty, and one that leads
\* somewhere is not.
<1>13. \A i \in 1 .. MaxLevel : i > D.level => OnLevel(D, i) = {}
  <2> SUFFICES ASSUME NEW i \in 1 .. MaxLevel, i > D.level PROVE OnLevel(D, i) = {}
    OBVIOUS
  <2>0. i \in 0 .. MaxLevel
    OBVIOUS
  <2>1. CASE i > L.level
    BY <1>11, <2>0, <2>1, LevelFacts
  <2>2. CASE ~(i > L.level)
    <3>1. i \in 1 .. L.level
      BY <1>4, <2>2
    <3>2. D.forward[Header][i] = Null
      BY <1>5, <3>1
    <3>3. NextOn(D, i)[Header] = Null
      BY <1>10, <2>0, <3>2 DEF NextOn, Reaching
    <3>4. \A m \in OnLevel(D, i) : m # Null
      BY <1>10, <1>8, ListAssumption DEF OnLevel, Reaching
    <3> QED BY <1>12, <2>0, <3>3, <3>4 DEF Threads, IsAfter
  <2> QED BY <2>1, <2>2
<1>14. D.level = 0 \/ OnLevel(D, D.level) # {}
  <2> SUFFICES ASSUME D.level # 0 PROVE OnLevel(D, D.level) # {}
    OBVIOUS
  <2>1. D.level \in 0 .. MaxLevel
    BY <1>4, <1>5
  <2>2. NextOn(D, D.level)[Header] # Null
    BY <1>5, <1>10, <2>1 DEF NextOn, Reaching
  <2> QED BY <1>12, <2>1, <2>2 DEF Threads
<1>15. \A m \in DOMAIN D.nodes : HasLevels(D, m)
  <2> SUFFICES ASSUME NEW m \in DOMAIN D.nodes PROVE HasLevels(D, m)
    OBVIOUS
  <2>1. m \in DOMAIN L.nodes /\ m # n /\ m # Header
    BY <1>3, <1>6
  <2>2. PICK d \in 0 .. L.level : DOMAIN L.forward[m] = 0 .. d
    BY <2>1 DEF WellFormed, HasLevels
  <2>3. DOMAIN D.forward[m] = 0 .. d /\ m \in DOMAIN D.forward
    BY <1>2, <1>3, <2>1, <2>2
  <2>4. d \in 0 .. MaxLevel /\ d \in 0 .. d
    BY <1>4
  <2>5. m \in OnLevel(D, d)
    BY <2>1, <2>3, <2>4 DEF OnLevel, Reaching
  <2>6. d <= D.level
    BY <1>4, <1>5, <1>13, <2>4, <2>5
  <2>7. d \in 0 .. D.level
    BY <1>5, <2>4, <2>6
  <2> QED BY <2>3, <2>7 DEF HasLevels
<1>16. D.level \in 0 .. MaxLevel
  BY <1>4, <1>5
<1>17. WellFormed(D)
  BY <1>7, <1>8, <1>9, <1>10, <1>12, <1>14, <1>15, <1>16 DEF WellFormed
<1> QED BY <1>1, <1>17 DEF J

-----------------------------------------------------------------------------
(***************************************************************************)
(* The list as a map: what search_element returns for each key.            *)
(***************************************************************************)
GetFrom(L, key) == LET n == Found(L, key) IN IF n = Null THEN NoValue ELSE L.nodes[n].value

LEMMA GetFromIs ==
  ASSUME NEW L, WellFormed(L), NEW key \in Key
  PROVE  /\ \A n \in DOMAIN L.nodes : L.nodes[n].key = key =>
              GetFrom(L, key) = L.nodes[n].value /\ Found(L, key) = n /\ n # Null
         /\ (\A n \in DOMAIN L.nodes : L.nodes[n].key # key) =>
              GetFrom(L, key) = NoValue /\ Found(L, key) = Null
<1>1. key \in Int /\ \A n \in DOMAIN L.nodes : n # Null
  BY ListAssumption DEF WellFormed
<1>2. /\ \A n \in DOMAIN L.nodes : L.nodes[n].key = key => Found(L, key) = n
      /\ (\A n \in DOMAIN L.nodes : L.nodes[n].key # key) => Found(L, key) = Null
  BY <1>1, FoundIs
<1> QED BY <1>1, <1>2 DEF GetFrom

\* Two lists that hold the same values for a key are the same to who asks for it.
LEMMA SameGets ==
  ASSUME NEW L, NEW M, WellFormed(L), WellFormed(M), NEW key \in Key,
         \A n \in DOMAIN L.nodes : L.nodes[n].key = key =>
           n \in DOMAIN M.nodes /\ M.nodes[n] = L.nodes[n],
         \A n \in DOMAIN M.nodes : M.nodes[n].key = key =>
           n \in DOMAIN L.nodes /\ L.nodes[n].key = key
  PROVE  GetFrom(M, key) = GetFrom(L, key)
<1>1. CASE \E n \in DOMAIN L.nodes : L.nodes[n].key = key
  <2>1. PICK n \in DOMAIN L.nodes : L.nodes[n].key = key
    BY <1>1
  <2>2. n \in DOMAIN M.nodes /\ M.nodes[n] = L.nodes[n]
    BY <2>1
  <2>3. GetFrom(L, key) = L.nodes[n].value
    BY <2>1, GetFromIs
  <2>4. GetFrom(M, key) = M.nodes[n].value
    BY <2>1, <2>2, GetFromIs
  <2> QED BY <2>2, <2>3, <2>4
<1>2. CASE \A n \in DOMAIN L.nodes : L.nodes[n].key # key
  <2>1. \A n \in DOMAIN M.nodes : M.nodes[n].key # key
    BY <1>2
  <2> QED BY <1>2, <2>1, GetFromIs
<1> QED BY <1>1, <1>2

\* delete_element takes the key out, and no other.
LEMMA DeleteIs ==
  ASSUME NEW L, WellFormed(L), NEW key \in Key
  PROVE  /\ WellFormed(Delete(L, key))
         /\ \A n \in DOMAIN Delete(L, key).nodes : Delete(L, key).nodes[n].key # key
         /\ GetFrom(Delete(L, key), key) = NoValue
         /\ \A other \in Key \ {key} : GetFrom(Delete(L, key), other) = GetFrom(L, other)
<1>1. CASE \A n \in DOMAIN L.nodes : L.nodes[n].key # key
  <2>1. Delete(L, key) = L
    BY <1>1, GetFromIs DEF Delete
  <2>2. GetFrom(L, key) = NoValue
    BY <1>1, GetFromIs
  <2> QED BY <1>1, <2>1, <2>2
<1>2. CASE \E n \in DOMAIN L.nodes : L.nodes[n].key = key
  <2>1. PICK n \in DOMAIN L.nodes : L.nodes[n].key = key
    BY <1>2
  <2>2. Delete(L, key) = Without(L, key, n)
    BY <2>1, GetFromIs DEF Delete
  <2>3. PICK D : D = Without(L, key, n)
    OBVIOUS
  <2>4. WellFormed(D) /\ D.nodes = [m \in DOMAIN L.nodes \ {n} |-> L.nodes[m]]
    BY <2>1, <2>3, WithoutWellFormed, WithoutFields
  <2>5. DOMAIN D.nodes = DOMAIN L.nodes \ {n} /\ \A m \in DOMAIN D.nodes : D.nodes[m] = L.nodes[m]
    BY <2>4
  <2>6. \A m \in DOMAIN D.nodes : D.nodes[m].key # key
    BY <2>1, <2>5 DEF WellFormed
  <2>7. GetFrom(D, key) = NoValue
    BY <2>4, <2>6, GetFromIs
  <2>8. ASSUME NEW other \in Key \ {key} PROVE GetFrom(D, other) = GetFrom(L, other)
    <3>1. \A m \in DOMAIN L.nodes : L.nodes[m].key = other =>
            m \in DOMAIN D.nodes /\ D.nodes[m] = L.nodes[m]
      BY <2>1, <2>5
    <3>2. \A m \in DOMAIN D.nodes : D.nodes[m].key = other =>
            m \in DOMAIN L.nodes /\ L.nodes[m].key = other
      BY <2>5
    <3> QED BY <2>4, <3>1, <3>2, SameGets
  <2> QED BY <2>2, <2>3, <2>4, <2>6, <2>7, <2>8
<1> QED BY <1>1, <1>2

LEMMA InsertedNodes ==
  ASSUME NEW L, NEW key, NEW value, NEW level, NEW n, n \notin DOMAIN L.nodes,
         NEW M, M = Insert(L, key, value, level, n)
  PROVE  /\ DOMAIN M.nodes = DOMAIN L.nodes \cup {n}
         /\ \A m \in DOMAIN L.nodes : M.nodes[m] = L.nodes[m]
         /\ M.nodes[n] = [key |-> key, value |-> value]
<1>1. M.nodes = With(L.nodes, n, [key |-> key, value |-> value])
  BY DEF Insert
<1> QED BY <1>1 DEF With

\* insert_element gives the key the value if it has none, and changes no other.
LEMMA InsertedIs ==
  ASSUME NEW L, WellFormed(L), NEW key \in Key, NEW value \in Value,
         NEW M \in Inserted(L, key, value)
  PROVE  /\ WellFormed(M)
         /\ GetFrom(M, key) = IF GetFrom(L, key) = NoValue THEN value ELSE GetFrom(L, key)
         /\ \A other \in Key \ {key} : GetFrom(M, other) = GetFrom(L, other)
<1>1. CASE \E n \in DOMAIN L.nodes : L.nodes[n].key = key
  <2>1. PICK n \in DOMAIN L.nodes : L.nodes[n].key = key
    BY <1>1
  <2>2. M = L
    BY <2>1, GetFromIs DEF Inserted
  <2>3. GetFrom(L, key) = L.nodes[n].value /\ L.nodes[n].value \in Value
    BY <2>1, GetFromIs DEF WellFormed
  <2>4. GetFrom(L, key) # NoValue
    BY <2>3, ListAssumption
  <2> QED BY <2>2, <2>4
<1>2. CASE \A n \in DOMAIN L.nodes : L.nodes[n].key # key
  <2>1. Found(L, key) = Null /\ GetFrom(L, key) = NoValue
    BY <1>2, GetFromIs
  <2>2. PICK level \in 1 .. MaxLevel, n \in Node \ DOMAIN L.nodes :
          M = Insert(L, key, value, level, n)
    BY <2>1 DEF Inserted, RandomLevel, Free
  <2>3. WellFormed(M)
    BY <1>2, <2>2, InsertWellFormed
  <2>4. /\ DOMAIN M.nodes = DOMAIN L.nodes \cup {n}
        /\ \A m \in DOMAIN L.nodes : M.nodes[m] = L.nodes[m]
        /\ M.nodes[n] = [key |-> key, value |-> value]
    BY <2>2, InsertedNodes
  <2>5. GetFrom(M, key) = value
    BY <2>3, <2>4, GetFromIs
  <2>6. ASSUME NEW other \in Key \ {key} PROVE GetFrom(M, other) = GetFrom(L, other)
    <3>1. \A m \in DOMAIN L.nodes : L.nodes[m].key = other =>
            m \in DOMAIN M.nodes /\ M.nodes[m] = L.nodes[m]
      BY <2>4
    <3>2. \A m \in DOMAIN M.nodes : M.nodes[m].key = other =>
            m \in DOMAIN L.nodes /\ L.nodes[m].key = other
      BY <2>4
    <3> QED BY <2>3, <3>1, <3>2, SameGets
  <2> QED BY <2>1, <2>3, <2>5, <2>6
<1> QED BY <1>1, <1>2

LEMMA EmptyIs ==
  /\ WellFormed(EmptyList)
  /\ \A key \in Key : GetFrom(EmptyList, key) = NoValue
<1> DEFINE E == EmptyList
<1>1. /\ E.level = 0 /\ E.count = 0 /\ DOMAIN E.nodes = {}
      /\ DOMAIN E.forward = {Header} /\ E.forward[Header] = [i \in 0 .. MaxLevel |-> Null]
      /\ E.nodes \in [{} -> [key : Key, value : Value]]
  BY DEF EmptyList
<1>2. MaxLevel \in Nat
  BY ListAssumption
<1> HIDE DEF E
<1>3. \A i \in 0 .. MaxLevel : OnLevel(E, i) = {} /\ NextOn(E, i)[Header] = Null
  BY <1>1 DEF OnLevel, Reaching, NextOn
<1>4. \A i \in 0 .. MaxLevel : Threads(OnLevel(E, i), KeyOf(E), NextOn(E, i))
  BY <1>3 DEF Threads
<1>5. WellFormed(E)
  BY <1>1, <1>2, <1>4, FS_EmptySet DEF WellFormed
<1>6. \A key \in Key : GetFrom(E, key) = NoValue
  BY <1>1, <1>5, GetFromIs
<1> QED BY <1>5, <1>6 DEF E

-----------------------------------------------------------------------------
(***************************************************************************)
(* The behaviours.                                                         *)
(***************************************************************************)
ListInv == WellFormed(list) /\ loading \in Seq(Key)

LEMMA InsertSetStep ==
  ASSUME ListInv, NEW key \in Key, NEW value \in Value, InsertSetElement(key, value)
  PROVE  /\ ListInv'
         /\ \A other \in Key : GetFrom(list', other) =
              IF other = key THEN value ELSE GetFrom(list, other)
<1> DEFINE D == Delete(list, key)
<1>1. WellFormed(D) /\ GetFrom(D, key) = NoValue
      /\ \A other \in Key \ {key} : GetFrom(D, other) = GetFrom(list, other)
  BY DeleteIs DEF ListInv
<1>2. list' \in Inserted(D, key, value) /\ UNCHANGED loading
  BY DEF InsertSetElement
<1> HIDE DEF D
<1>3. /\ WellFormed(list') /\ GetFrom(list', key) = value
      /\ \A other \in Key \ {key} : GetFrom(list', other) = GetFrom(D, other)
  BY <1>1, <1>2, InsertedIs
<1>4. ListInv'
  BY <1>2, <1>3 DEF ListInv
<1> QED BY <1>1, <1>3, <1>4

LEMMA DeleteStep ==
  ASSUME ListInv, NEW key \in Key, DeleteElement(key)
  PROVE  /\ ListInv'
         /\ \A other \in Key : GetFrom(list', other) =
              IF other = key THEN NoValue ELSE GetFrom(list, other)
<1>1. list' = Delete(list, key) /\ UNCHANGED loading
  BY DEF DeleteElement
<1>2. WellFormed(list') /\ GetFrom(list', key) = NoValue
      /\ \A other \in Key \ {key} : GetFrom(list', other) = GetFrom(list, other)
  BY <1>1, DeleteIs DEF ListInv
<1> QED BY <1>1, <1>2 DEF ListInv

LEMMA LoadFileStep ==
  ASSUME ListInv, NEW keys \in SUBSET Key, LoadFile(keys)
  PROVE  ListInv' /\ UNCHANGED <<list, op>>
<1>1. Cardinality(keys) \in Nat
  BY FS_CardinalityType DEF LoadFile
<1>2. loading' \in [1 .. Cardinality(keys) -> Key]
  BY DEF LoadFile
<1>3. loading' \in Seq(Key)
  BY <1>1, <1>2
<1> QED BY <1>3 DEF ListInv, LoadFile

LEMMA LoadNextStep ==
  ASSUME ListInv, LoadNext
  PROVE  /\ ListInv' /\ Head(loading) \in Key
         /\ \A other \in Key : GetFrom(list', other) =
              IF other = Head(loading) /\ GetFrom(list, other) = NoValue THEN other
              ELSE GetFrom(list, other)
<1>1. loading # <<>> /\ loading \in Seq(Key) /\ loading' = Tail(loading)
      /\ list' \in Inserted(list, Head(loading), Head(loading)) /\ WellFormed(list)
  BY DEF ListInv, LoadNext
<1>2. Head(loading) \in Key /\ loading' \in Seq(Key)
  BY <1>1
<1>3. PICK key \in Key : key = Head(loading)
  BY <1>2
<1>4. key \in Value /\ list' \in Inserted(list, key, key)
  BY <1>1, <1>3, ListAssumption
<1>5. /\ WellFormed(list')
      /\ GetFrom(list', key) = IF GetFrom(list, key) = NoValue THEN key ELSE GetFrom(list, key)
      /\ \A other \in Key \ {key} : GetFrom(list', other) = GetFrom(list, other)
  BY <1>1, <1>4, InsertedIs
<1>6. ListInv'
  BY <1>2, <1>5 DEF ListInv
<1> QED BY <1>3, <1>5, <1>6

LEMMA InitList == Init => ListInv
BY EmptyIs DEF Init, ListInv

LEMMA NextList == ListInv /\ [Next]_vars => ListInv'
<1> SUFFICES ASSUME ListInv, [Next]_vars PROVE ListInv'
  OBVIOUS
<1>1. ASSUME NEW key \in Key, NEW value \in Value, InsertSetElement(key, value) PROVE ListInv'
  BY <1>1, InsertSetStep
<1>2. ASSUME NEW key \in Key, DeleteElement(key) PROVE ListInv'
  BY <1>2, DeleteStep
<1>3. ASSUME NEW keys \in SUBSET Key, LoadFile(keys) PROVE ListInv'
  BY <1>3, LoadFileStep
<1>4. CASE LoadNext
  BY <1>4, LoadNextStep
<1>5. CASE UNCHANGED vars
  BY <1>5 DEF vars, ListInv
<1> QED BY <1>1, <1>2, <1>3, <1>4, <1>5 DEF Next

LEMMA ListInvHolds == Spec => []ListInv
BY InitList, NextList, PTL DEF Spec

-----------------------------------------------------------------------------
\* Counts, addresses and records stay in range, however many operations there
\* are: _element_count is never more than the nodes that can be allocated.
THEOREM TypesCorrect == Spec => []TypeOK
<1>1. ListInv => TypeOK
  <2> SUFFICES ASSUME ListInv PROVE TypeOK
    OBVIOUS
  <2>1. DOMAIN list.nodes \subseteq Node /\ IsFiniteSet(Node)
    BY ListAssumption DEF ListInv, WellFormed
  <2>2. IsFiniteSet(DOMAIN list.nodes) /\ Cardinality(DOMAIN list.nodes) <= Cardinality(Node)
    BY <2>1, FS_Subset
  <2>3. Cardinality(DOMAIN list.nodes) \in Nat /\ Cardinality(Node) \in Nat
    BY <2>1, <2>2, FS_CardinalityType
  <2>4. list.count \in 0 .. Cardinality(Node)
    BY <2>2, <2>3 DEF ListInv, WellFormed
  <2> QED BY <2>4 DEF ListInv, WellFormed, TypeOK
<1> QED BY <1>1, ListInvHolds, PTL

LEMMA SameLevel ==
  ASSUME ListInv, NEW i \in Nat
  PROVE  On(i) = OnLevel(list, i)
<1>1. Header \notin DOMAIN list.nodes /\ DOMAIN list.forward = DOMAIN list.nodes \cup {Header}
  BY ListAssumption DEF ListInv, WellFormed
<1> QED BY <1>1 DEF On, OnLevel, Reaching

\* After any operations, and within a load, the pointers of each level lead
\* through all the nodes of that level in the order of their keys: insert_element
\* and delete_element leave no node out and none behind that is gone.
THEOREM LevelsAreThreaded == Spec => []LevelsThreaded
<1>1. ListInv => LevelsThreaded
  <2> SUFFICES ASSUME ListInv, NEW i \in 0 .. MaxLevel, NEW n \in {Header} \cup DOMAIN list.nodes,
                      i \in DOMAIN list.forward[n]
               PROVE  IF After(n, i) = {}
                      THEN list.forward[n][i] = Null
                      ELSE /\ list.forward[n][i] \in After(n, i)
                           /\ \A m \in After(n, i) :
                                list.nodes[list.forward[n][i]].key <= list.nodes[m].key
    BY DEF LevelsThreaded
  <2> DEFINE R == OnLevel(list, i)
             k == KeyOf(list)
             next == NextOn(list, i)
  <2>1. WellFormed(list) /\ i \in Nat
    BY ListAssumption DEF ListInv
  <2>2. Keyed(R, k) /\ Threads(R, k, next) /\ Reaching(list, i) = R \cup {Header}
        /\ R \subseteq DOMAIN list.nodes
    BY <2>1, LevelFacts
  <2>3. On(i) = R
    BY <2>1, SameLevel
  <2>4. n \in Reaching(list, i)
    BY <2>1 DEF Reaching, WellFormed
  <2>5. next[n] = list.forward[n][i]
    BY <2>4 DEF NextOn
  <2>6. \A m \in DOMAIN list.nodes : k[m] = list.nodes[m].key
    BY DEF KeyOf
  <2>7. n # Header => n \in DOMAIN list.nodes
    OBVIOUS
  <2>8. After(n, i) = {m \in R : IsAfter(k, n, m)}
    <3>1. ASSUME NEW m \in R
          PROVE  (n = Header \/ list.nodes[m].key > list.nodes[n].key) <=> IsAfter(k, n, m)
      <4>1. m \in DOMAIN list.nodes /\ k[m] = list.nodes[m].key /\ k[m] \in Int
        BY <2>2, <2>6 DEF Keyed
      <4>2. CASE n = Header
        BY <4>2 DEF IsAfter
      <4>3. CASE n # Header
        <5>1. n \in R /\ k[n] = list.nodes[n].key /\ k[n] \in Int
          BY <2>2, <2>4, <2>6, <2>7, <4>3 DEF Keyed
        <5> QED BY <4>1, <4>3, <5>1 DEF IsAfter
      <4> QED BY <4>2, <4>3
    <3> QED BY <2>3, <3>1 DEF After
  <2> HIDE DEF R, k, next
  <2>9. CASE next[n] = Null /\ \A m \in R : ~IsAfter(k, n, m)
    BY <2>5, <2>8, <2>9
  <2>10. CASE /\ next[n] \in R /\ IsAfter(k, n, next[n])
              /\ \A m \in R : IsAfter(k, n, m) => k[next[n]] <= k[m]
    <3>1. next[n] \in After(n, i)
      BY <2>8, <2>10
    <3>2. \A m \in After(n, i) : list.nodes[next[n]].key <= list.nodes[m].key
      BY <2>2, <2>6, <2>8, <2>10
    <3> QED BY <2>5, <3>1, <3>2
  <2> QED BY <2>2, <2>4, <2>9, <2>10 DEF Threads
<1> QED BY <1>1, ListInvHolds, PTL

\* search_element finds a key exactly if some node holds it, and no two hold the
\* same: the levels above the lowest are only a shorter way there.
THEOREM SearchIsRight == Spec => []SearchFinds
<1>1. ListInv => SearchFinds
  <2> SUFFICES ASSUME ListInv, NEW key \in Key
               PROVE  {n \in DOMAIN list.nodes : list.nodes[n].key = key}
                        = {Found(list, key)} \ {Null}
    BY DEF SearchFinds
  <2>1. WellFormed(list)
    BY DEF ListInv
  <2>2. CASE \A n \in DOMAIN list.nodes : list.nodes[n].key # key
    BY <2>1, <2>2, GetFromIs
  <2>3. CASE \E n \in DOMAIN list.nodes : list.nodes[n].key = key
    <3>1. PICK n \in DOMAIN list.nodes : list.nodes[n].key = key
      BY <2>3
    <3>2. Found(list, key) = n /\ n # Null
      BY <2>1, <3>1, GetFromIs
    <3>3. \A m \in DOMAIN list.nodes : list.nodes[m].key = key => m = n
      BY <2>1, <3>1 DEF WellFormed
    <3> QED BY <3>1, <3>2, <3>3
  <2> QED BY <2>2, <2>3
<1> QED BY <1>1, ListInvHolds, PTL

\* _skip_list_level is the highest level any node is on: the search misses no
\* level, and delete_element lowers it as far as it goes.
THEOREM HighestLevelInUse == Spec => []LevelInUse
<1>1. ListInv => LevelInUse
  <2> SUFFICES ASSUME ListInv PROVE LevelInUse
    OBVIOUS
  <2>1. WellFormed(list) /\ list.level \in Nat
    BY ListAssumption DEF ListInv, WellFormed
  <2>2. On(list.level + 1) = {}
    <3> SUFFICES ASSUME NEW n \in On(list.level + 1) PROVE FALSE
      OBVIOUS
    <3>1. PICK level \in 0 .. list.level : DOMAIN list.forward[n] = 0 .. level
      BY <2>1 DEF On, WellFormed, HasLevels
    <3>2. list.level + 1 \in 0 .. level
      BY <3>1 DEF On
    <3> QED BY <2>1, <3>1, <3>2
  <2>3. On(list.level) = OnLevel(list, list.level)
    BY <2>1, SameLevel
  <2> QED BY <2>1, <2>2, <2>3 DEF LevelInUse, WellFormed
<1> QED BY <1>1, ListInvHolds, PTL

-----------------------------------------------------------------------------
LEMMA GetIs == \A key : Get(key) = GetFrom(list, key)
BY DEF Get, GetFrom

\* To the KV layer the list is a map: with any levels and addresses, what
\* search_element returns for each key changes in each call as module KvMap says.
THEOREM ListIsMap == Spec => IsMap
<1>1. Init => Map!Init
  BY EmptyIs, GetIs DEF Init, Map!Init
<1>2. ASSUME ListInv, [Next]_vars PROVE [Map!Next]_(Map!vars)
  <2> DEFINE M == [key \in Key |-> Get(key)]
  <2>0. \A key \in Key : Get(key)' = GetFrom(list', key)
    BY DEF Get, GetFrom
  <2>1. ASSUME NEW key \in Key, NEW value \in Value, InsertSetElement(key, value)
        PROVE  Map!Put(key, value)
    <3>1. \A other \in Key : Get(other)' = IF other = key THEN value ELSE Get(other)
      BY <1>2, <2>0, <2>1, InsertSetStep, GetIs
    <3>2. M' = [M EXCEPT ![key] = value]
      BY <3>1
    <3> QED BY <2>1, <3>2 DEF Map!Put, InsertSetElement
  <2>2. ASSUME NEW key \in Key, DeleteElement(key) PROVE Map!Remove(key)
    <3>1. \A other \in Key : Get(other)' = IF other = key THEN NoValue ELSE Get(other)
      BY <1>2, <2>0, <2>2, DeleteStep, GetIs
    <3>2. M' = [M EXCEPT ![key] = NoValue]
      BY <3>1
    <3> QED BY <2>2, <3>2 DEF Map!Remove, DeleteElement
  <2>3. ASSUME NEW keys \in SUBSET Key, LoadFile(keys) PROVE UNCHANGED Map!vars
    <3>1. UNCHANGED <<list, op>>
      BY <1>2, <2>3, LoadFileStep
    <3>2. \A other \in Key : Get(other)' = Get(other)
      BY <2>0, <3>1, GetIs
    <3> QED BY <3>1, <3>2 DEF Map!vars
  <2>4. ASSUME LoadNext PROVE \E key \in Key : Map!Load(key)
    <3>1. PICK key \in Key : key = Head(loading)
      BY <1>2, <2>4, LoadNextStep
    <3>2. \A other \in Key : Get(other)' =
            IF other = key /\ Get(other) = NoValue THEN other ELSE Get(other)
      BY <1>2, <2>0, <2>4, <3>1, LoadNextStep, GetIs
    <3>3. M' = [M EXCEPT ![key] = IF @ = NoValue THEN key ELSE @]
      BY <3>2
    <3> QED BY <2>4, <3>1, <3>3 DEF Map!Load, LoadNext
  <2>5. CASE UNCHANGED vars
    <3>1. \A other \in Key : Get(other)' = Get(other)
      BY <2>0, <2>5, GetIs DEF vars
    <3> QED BY <2>5, <3>1 DEF Map!vars, vars
  <2> QED BY <1>2, <2>1, <2>2, <2>3, <2>4, <2>5 DEF Next, Map!Next
<1> QED BY <1>1, <1>2, ListInvHolds, PTL DEF Spec, IsMap, Map!Spec
=============================================================================
