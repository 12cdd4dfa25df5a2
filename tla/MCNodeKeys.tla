------------------------------ MODULE MCNodeKeys -------------------------------
(* Values of the constants of NodeKeys for TLC. *)
EXTENDS NodeKeys, TLC

CONSTANTS n1, n2, n3, s1, s2   \* nodes, key sets

\* The second key set has two of the nodes of the first, at other indices.
MCMembers == (s1 :> (n1 :> 0 @@ n2 :> 1 @@ n3 :> 2)) @@ (s2 :> (n2 :> 0 @@ n3 :> 1))
=============================================================================
