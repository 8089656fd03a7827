------------------------------ MODULE HashMaps ------------------------------
(***************************************************************************)
(* Finite maps: a map is a function whose domain is the set of keys that   *)
(* are present, as in a Rust HashMap or a Dart Map.                        *)
(***************************************************************************)
EXTENDS Functions

\* insert(k, v): add the key or overwrite its value.
Put(f, k, v) == [x \in DOMAIN f \cup {k} |-> IF x = k THEN v ELSE f[x]]

\* remove(k): the key is absent afterwards, whether or not it was present.
Drop(f, k) == Restrict(f, DOMAIN f \ {k})

\* The map with no key.
EmptyMap == [x \in {} |-> x]

\* f is a map from some keys of K to values of V.
IsMap(f, K, V) == DOMAIN f \subseteq K /\ f \in [DOMAIN f -> V]
=============================================================================
