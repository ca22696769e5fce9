----------------------------- MODULE OrderedMap -----------------------------
(***************************************************************************)
(* What Map promises: a value per key, in the order in which the keys were *)
(* inserted.  An entry that is set again keeps its place.                  *)
(***************************************************************************)
EXTENDS SequencesExt

CONSTANTS Keys, Values

VARIABLE map    \* key and value of each entry, in order

Has(k) == \E i \in DOMAIN map : map[i].key = k

Init == map = <<>>

Set(k, v) ==
  map' = IF Has(k)
         THEN [i \in DOMAIN map |-> IF map[i].key = k THEN [key |-> k, value |-> v] ELSE map[i]]
         ELSE Append(map, [key |-> k, value |-> v])

Delete(k) == \E i \in DOMAIN map : map[i].key = k /\ map' = RemoveAt(map, i)

Clear == map' = <<>>

Next == Clear \/ \E k \in Keys : (\E v \in Values : Set(k, v)) \/ Delete(k)

Spec == Init /\ [][Next]_map
=============================================================================
