----------------------------- MODULE GrowOnlyLog ----------------------------
(***************************************************************************)
(* What a Sequence promises its users while nothing is deleted: one        *)
(* growing log of writes in a fixed order, of which every replica sees a   *)
(* growing part.  A new write takes a place of its own, after everything   *)
(* its author had seen; no view ever contains anything else or loses one.  *)
(***************************************************************************)
CONSTANTS Replica,
          Comparable(_, _),   \* the two writes belong to the same list
          Precedes(_, _)      \* the first is ordered before the second

VARIABLES log,    \* every write ever made
          view    \* the writes each replica sees

logVars == <<log, view>>

LogInit == log = {} /\ view = [r \in Replica |-> {}]

Publish(r, w) ==
    /\ \A x \in log : Comparable(x, w) => Precedes(x, w) \/ Precedes(w, x)
    /\ \A x \in view[r] : Comparable(x, w) => Precedes(x, w)
    /\ log' = log \cup {w}
    /\ view' = [view EXCEPT ![r] = @ \cup {w}]

Learn(r, w) ==
    /\ view' = [view EXCEPT ![r] = @ \cup {w}]
    /\ UNCHANGED log

\* r takes over everything s sees, and forgets nothing.
CatchUp(r, s) ==
    /\ view[r] \subseteq view[s]
    /\ view' = [view EXCEPT ![r] = view[s]]
    /\ UNCHANGED log

LogNext == \/ \E r \in Replica : \E w \in log' \ log : Publish(r, w)
           \/ \E r \in Replica : \E w \in log : Learn(r, w)
           \/ \E r, s \in Replica : CatchUp(r, s)

LogSpec == LogInit /\ [][LogNext]_logVars
=============================================================================
