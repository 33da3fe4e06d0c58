------------------------------- MODULE MCDict --------------------------------
(* Dict with few keys, small tables and a hash function that collides.       *)
EXTENDS Dict

CONSTANTS k1, k2, k3, k4

\* k1 and k2 collide in tables of 2 and 4 buckets, k1 and k3 in tables of 2.
MCHash == [k \in Keys |-> CASE k = k1 -> 0 [] k = k2 -> 4 [] k = k3 -> 2 [] OTHER -> 1]
=============================================================================
