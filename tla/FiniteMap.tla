------------------------------ MODULE FiniteMap ------------------------------
(* What a dictionary promises: a set of entries, at most one for a key.    *)
EXTENDS Integers

CONSTANTS Key, Value
VARIABLE map

In(k) == \E v \in Value : <<k, v>> \in map
Without(k) == {e \in map : e[1] # k}
Init == map = {}
Add(k, v) == ~In(k) /\ map' = map \cup {<<k, v>>}
Replace(k, v) == map' = Without(k) \cup {<<k, v>>}
Delete(k) == map' = Without(k)
Clear == map' = {}
Next == Clear \/ \E k \in Key : Delete(k) \/ \E v \in Value : Add(k, v) \/ Replace(k, v)
Spec == Init /\ [][Next]_map
=============================================================================
