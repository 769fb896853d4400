------------------------------- MODULE KvMap -------------------------------
(***************************************************************************)
(* What the KV layer takes SkipList (src/thirdParty/skipList/skipList.h)    *)
(* for: a map from keys to values.  SkipList implements it.                *)
(***************************************************************************)
CONSTANTS Key, Value, NoValue

VARIABLES map, op \* op is the last call, with its arguments

vars == <<map, op>>

Init == map = [k \in Key |-> NoValue] /\ op = <<>>

\* insert_set_element: the key has this value now, whether it had one or not.
Put(k, v) == map' = [map EXCEPT ![k] = v] /\ op' = <<"put", k, v>>

\* delete_element.
Remove(k) == map' = [map EXCEPT ![k] = NoValue] /\ op' = <<"remove", k>>

\* load_file, for one key of the text: a key that has a value keeps it, and one
\* that has none gets itself as its value, whatever value was dumped.
Load(k) ==
  /\ map' = [map EXCEPT ![k] = IF @ = NoValue THEN k ELSE @]
  /\ op' = <<"load", k>>

Next == \E k \in Key : Remove(k) \/ Load(k) \/ \E v \in Value : Put(k, v)

Spec == Init /\ [][Next]_vars
=============================================================================
