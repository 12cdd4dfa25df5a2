-------------------------------- MODULE LSeq --------------------------------
(***************************************************************************)
(* The LSEQ sequence of the crdts crate, as far as src/src/sequence uses   *)
(* it.  The crate is a dependency and not part of the repository, so every *)
(* definition here is external: it says what the callers (and their tests) *)
(* rely on, not how identifiers are laid out.                              *)
(*                                                                         *)
(* An LSeq is a set of entries [id, val].  An identifier is a pair         *)
(* <<position, actor>>; positions stand for the dense paths of LSEQ, and   *)
(* ties between actors are broken by the order on the actors.              *)
(***************************************************************************)
EXTENDS Integers, FiniteSets

\* The total order of the identifiers, which is the order of the entries.
Before(a, b) == \/ a[1] < b[1]
                \/ a[1] = b[1] /\ a[2] < b[2]

\* Inserting an identifier that is present changes nothing.
Insert(l, id, v) ==
    IF \E e \in l : e.id = id THEN l ELSE l \cup {[id |-> id, val |-> v]}

\* Deleting an identifier that is absent changes nothing.
Delete(l, id) == {e \in l : e.id # id}

\* What LSeq::apply does with an operation: there is no causality check.
Apply(l, op) == IF op.type = "Insert" THEN Insert(l, op.id, op.val)
                                      ELSE Delete(l, op.id)

\* Faulty: an append that looks for an unused identifier anywhere.
FreshIdsAnywhere(l, actor, Positions) ==
    {id \in Positions \X {actor} : \A e \in l : id # e.id}

\* The identifiers an append by the actor may allocate: any after the last.
FreshIds(l, actor, Positions) ==
    {id \in Positions \X {actor} : \A e \in l : Before(e.id, id)}

Size(l) == Cardinality(l)

\* The entry at a position (from 0): empty when out of bounds, like Option.
Nth(l, i) == {e \in l : Cardinality({x \in l : Before(x.id, e.id)}) = i}

LastEntry(l) == {e \in l : \A x \in l : ~Before(e.id, x.id)}
=============================================================================
