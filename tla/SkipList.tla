------------------------------ MODULE SkipList ------------------------------
(***************************************************************************)
(* The skip list that holds the data of the KV layer                        *)
(* (src/thirdParty/skipList/skipList.h): nodes on the heap, each with an    *)
(* array of forward pointers, one for each level from 0 to its own.        *)
(*                                                                         *)
(* The KV layer calls insert_set_element with its m_mtx held, and with      *)
(* nothing else to call the list, so each is one action.  load_file inserts *)
(* key by key, in the constructor without that mutex: its insertions are    *)
(* steps between which the list may be searched.                           *)
(***************************************************************************)
EXTENDS Integers, Sequences, FiniteSetsExt

CONSTANTS
  Key, Value, NoValue, \* Value holds the keys too: load_file makes values of them
  Node,                \* addresses new may return
  Header,              \* _header
  Null,
  MaxLevel             \* _max_level, 6 in KvServer

ASSUME ListAssumption ==
  /\ Key \subseteq Int /\ Key \subseteq Value /\ NoValue \notin Value
  /\ Header \notin Node /\ Null \notin Node \cup {Header} /\ MaxLevel \in Nat \ {0}
  /\ IsFiniteSet(Node)

VARIABLES
  list,    \* _skip_list_level, _element_count, the nodes and the forward pointers
  loading, \* keyDumpVt_ of load_file, the keys still to be inserted
  op       \* the last call that had an effect, as module KvMap has it

vars == <<list, loading, op>>

EmptyList == [level |-> 0, count |-> 0, nodes |-> << >>,
              forward |-> [n \in {Header} |-> [i \in 0 .. MaxLevel |-> Null]]]

-----------------------------------------------------------------------------
\* The nodes with a pointer for level i, the header among them.
Reaching(L, i) == {n \in DOMAIN L.forward : i \in DOMAIN L.forward[n]}

\* Changed on purpose, for TLC to find: <= for <.
StopsAfter(L, i, start, key) ==
  LET walk[n \in Reaching(L, i)] ==
        LET next == L.forward[n][i]
        IN IF next # Null /\ L.nodes[next].key <= key THEN walk[next] ELSE n
  IN walk[start]

\* The inner loop of a search: from node start along level i to the last node
\* before key.
StopsBefore(L, i, start, key) ==
  LET walk[n \in Reaching(L, i)] ==
        LET next == L.forward[n][i]
        IN IF next # Null /\ L.nodes[next].key < key THEN walk[next] ELSE n
  IN walk[start]

\* update[]: where the search passes from each level to the one below.
Path(L, key) ==
  LET at[i \in 0 .. L.level] ==
        StopsBefore(L, i, IF i = L.level THEN Header ELSE at[i + 1], key)
  IN at

\* search_element: the node of the key, if there is one.
Found(L, key) ==
  LET n == L.forward[Path(L, key)[0]][0]
  IN IF n # Null /\ L.nodes[n].key = key THEN n ELSE Null

\* get_random_level.
RandomLevel == 1 .. MaxLevel

\* Changed on purpose: the top level of the new node is forgotten.
LinksBelowTop(update, level, m, i) == i < level /\ update[i] = m

\* insert_element, for a key that is not in the list, of a node n of this level:
\* n comes after m on level i.
Links(update, level, m, i) == i <= level /\ update[i] = m

\* The function f with one more element in its domain.
With(f, x, y) == [z \in DOMAIN f \cup {x} |-> IF z = x THEN y ELSE f[z]]

Insert(L, key, value, level, n) ==
  LET path == Path(L, key)
      update == [i \in 0 .. level |-> IF i <= L.level THEN path[i] ELSE Header]
      relinked(m) == [i \in DOMAIN L.forward[m] |->
                        IF Links(update, level, m, i) THEN n ELSE L.forward[m][i]]
  IN [level   |-> IF level > L.level THEN level ELSE L.level,
      count   |-> L.count + 1,
      nodes   |-> With(L.nodes, n, [key |-> key, value |-> value]),
      forward |-> With([m \in DOMAIN L.forward |-> relinked(m)], n,
                      [i \in 0 .. level |-> L.forward[update[i]][i]])]

\* Changed on purpose: the highest level in use is not looked for.
LevelKept(level, header) == level

\* The highest level, from this one down, that leads anywhere from the header.
LevelLeft(level, header) ==
  LET used == {i \in 1 .. level : header[i] # Null}
  IN IF used = {} THEN 0 ELSE Max(used)

\* delete_element of the key that node n holds: n is taken out of each level,
\* from the lowest to the first that does not lead to it, and deleted.
Without(L, key, n) ==
  LET path == Path(L, key)
      linked == {i \in 0 .. L.level : \A j \in 0 .. i : L.forward[path[j]][j] = n}
      unlinked(m) == [i \in DOMAIN L.forward[m] |->
                        IF i \in linked /\ path[i] = m THEN L.forward[n][i] ELSE L.forward[m][i]]
  IN [level   |-> LevelLeft(L.level, unlinked(Header)),
      count   |-> L.count - 1,
      nodes   |-> [m \in DOMAIN L.nodes \ {n} |-> L.nodes[m]],
      forward |-> [m \in DOMAIN L.forward \ {n} |-> unlinked(m)]]

\* Changed on purpose: the count stays.
DeleteUncounted(L, key) ==
  IF Found(L, key) = Null THEN L
  ELSE [Without(L, key, Found(L, key)) EXCEPT !.count = L.count]

\* delete_element.
Delete(L, key) ==
  IF Found(L, key) = Null THEN L ELSE Without(L, key, Found(L, key))

Free(L) == Node \ DOMAIN L.nodes

\* The lists insert_element may make of L.
Inserted(L, key, value) ==
  IF Found(L, key) # Null THEN {L}
  ELSE {Insert(L, key, value, level, n) : level \in RandomLevel, n \in Free(L)}

-----------------------------------------------------------------------------
Init == list = EmptyList /\ loading = <<>> /\ op = <<>>

\* Changed on purpose: a key that is there is not deleted first.
InsertElement(key, value) ==
  /\ loading = <<>>
  /\ list' \in Inserted(list, key, value)
  /\ op' = <<"put", key, value>>
  /\ UNCHANGED loading

\* insert_set_element.
InsertSetElement(key, value) ==
  /\ loading = <<>>
  /\ list' \in Inserted(Delete(list, key), key, value)
  /\ op' = <<"put", key, value>>
  /\ UNCHANGED loading

DeleteElement(key) ==
  /\ loading = <<>>
  /\ list' = Delete(list, key)
  /\ op' = <<"remove", key>>
  /\ UNCHANGED loading

Ascending(keys) == \A i, j \in DOMAIN keys : i < j => keys[i] < keys[j]

\* load_file of a text dump_file has written, perhaps on another node: the keys
\* of a list in its order, with values that are not used.
LoadFile(keys) ==
  /\ loading = <<>> /\ keys # {} /\ IsFiniteSet(keys)
  /\ loading' \in {s \in [1 .. Cardinality(keys) -> keys] : Ascending(s)}
  /\ UNCHANGED <<list, op>>

LoadNext ==
  /\ loading # <<>>
  /\ list' \in Inserted(list, Head(loading), Head(loading))
  /\ loading' = Tail(loading)
  /\ op' = <<"load", Head(loading)>>

Next ==
  \/ \E key \in Key, value \in Value : InsertSetElement(key, value)
  \/ \E key \in Key : DeleteElement(key)
  \/ \E keys \in SUBSET Key : LoadFile(keys)
  \/ LoadNext

Spec == Init /\ [][Next]_vars

-----------------------------------------------------------------------------
TypeOK ==
  /\ list.level \in 0 .. MaxLevel /\ list.count \in 0 .. Cardinality(Node)
  /\ DOMAIN list.nodes \subseteq Node
  /\ list.nodes \in [DOMAIN list.nodes -> [key : Key, value : Value]]
  /\ loading \in Seq(Key)

\* The nodes that have a pointer for level i.
On(i) == {n \in DOMAIN list.nodes : i \in DOMAIN list.forward[n]}

After(n, i) == {m \in On(i) : n = Header \/ list.nodes[m].key > list.nodes[n].key}

\* The pointers of each level thread all nodes that reach that level, in the
\* order of their keys and to the end: none is lost and none is left behind
\* that leads to a deleted node, whatever levels the nodes were given.
LevelsThreaded ==
  \A i \in 0 .. MaxLevel, n \in {Header} \cup DOMAIN list.nodes :
    i \in DOMAIN list.forward[n] =>
      IF After(n, i) = {}
      THEN list.forward[n][i] = Null
      ELSE /\ list.forward[n][i] \in After(n, i)
           /\ \A m \in After(n, i) : list.nodes[list.forward[n][i]].key <= list.nodes[m].key

\* The search down the levels finds a key exactly if some node holds it, and
\* no two nodes hold the same key.
SearchFinds ==
  \A key \in Key :
    {n \in DOMAIN list.nodes : list.nodes[n].key = key} = {Found(list, key)} \ {Null}

\* The search starts high enough for every node, and no level is empty.
LevelInUse == On(list.level + 1) = {} /\ (list.level = 0 \/ On(list.level) # {})

\* To its callers the list is a map: whatever the levels of the nodes, what
\* search_element returns for each key changes as module KvMap says of the same
\* call, in every operation and in each step of a load.
Get(key) == LET n == Found(list, key) IN IF n = Null THEN NoValue ELSE list.nodes[n].value

Map == INSTANCE KvMap WITH map <- [key \in Key |-> Get(key)], op <- op
IsMap == Map!Spec
=============================================================================
