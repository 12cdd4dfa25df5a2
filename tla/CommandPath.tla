----------------------------- MODULE CommandPath -------------------------------
(***************************************************************************)
(* What the path of a data command promises (the comments of cmd_dst,      *)
(* src/src/messaging/mod.rs:118): it goes from its client to the Gateway,  *)
(* then a quorum of the Payment section agrees on it, and only then does a *)
(* Metadata elder carry it out, once.                                      *)
(***************************************************************************)
CONSTANT Executors

VARIABLES
    forwarded,   \* an elder of the Gateway has passed it on
    agreed,      \* a quorum of the Payment section has signed one and the same envelope
    executed     \* the elders that have carried it out

pathVars == <<forwarded, agreed, executed>>

Init == ~forwarded /\ ~agreed /\ executed = {}

Forward ==
    /\ ~forwarded
    /\ forwarded' = TRUE
    /\ UNCHANGED <<agreed, executed>>

Agree ==
    /\ forwarded /\ ~agreed
    /\ agreed' = TRUE
    /\ UNCHANGED <<forwarded, executed>>

Execute(n) ==
    /\ agreed /\ n \notin executed
    /\ executed' = executed \cup {n}
    /\ UNCHANGED <<forwarded, agreed>>

Next == Forward \/ Agree \/ \E n \in Executors : Execute(n)

Spec == Init /\ [][Next]_pathVars
=============================================================================
