---------------------------- MODULE MCMapHandler ----------------------------
(***************************************************************************)
(* Keys and hashes for the map model.                                      *)
(***************************************************************************)
EXTENDS MapHandler

CONSTANTS k0, k1, k2, k3

\* k0, k1 and k2 start in the same bucket, k3 in the next one.
Colliding == [k \in Keys |-> IF k = k3 THEN 2 ELSE 1]

=============================================================================
