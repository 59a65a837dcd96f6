-------------------------------- MODULE Maps --------------------------------
(***************************************************************************)
(* std::unordered_map, as the exchange uses it: a map is a function on the *)
(* set of keys it holds.                                                   *)
(***************************************************************************)

InsertOrAssign(map, k, v) ==
  [x \in DOMAIN map \cup {k} |-> IF x = k THEN v ELSE map[x]]

\* Whatever is recorded under k already stays.
TryEmplace(map, k, v) ==
  IF k \in DOMAIN map THEN map ELSE InsertOrAssign(map, k, v)

Erase(map, k) == [x \in DOMAIN map \ {k} |-> map[x]]
=============================================================================
