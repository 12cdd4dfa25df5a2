-------------------------- MODULE SequenceLogProofs ----------------------------
(***************************************************************************)
(* SequenceCrdt implements GrowOnlyLog, for any replicas, writers, values  *)
(* and keys and any number of operations, while nothing is deleted.  The   *)
(* log is the writes issued and a view the writes applied: the copies are  *)
(* no longer spoken of once they are known to be what has been applied.    *)
(***************************************************************************)
EXTENDS SequenceCrdtProofs

\* What of an operation is a write of the log.
WriteOf(op) == [list |-> op.list, id |-> op.id, val |-> op.val]

WritesOf(S) == {WriteOf(op) : op \in S}

\* The abstract variables, under the refinement mapping.
theLog == IssuedWrites
theViews == [r \in Replicas |-> AsWrites(seq[r])]

\* Inductive: ConvergenceInv, and a replica without a copy sees nothing.
RefinementInv == ConvergenceInv /\ CopiesStartEmpty

\* The entries of a copy c are the writes S it has applied.
LEMMA ViewsAreApplied ==
    ASSUME NEW c, NEW S, \A op \in S : op.list \in Lists,
           \A list \in Lists : c[list] = WritesIn(S, list)
    PROVE  AsWrites(c) = WritesOf(S)
<1>1. ASSUME NEW w \in AsWrites(c) PROVE w \in WritesOf(S)
  <2>1. PICK list \in Lists : \E e \in c[list] : w = [list |-> list, id |-> e.id, val |-> e.val]
    BY DEF AsWrites
  <2>2. PICK op \in S : op.list = list /\ w = [list |-> list, id |-> op.id, val |-> op.val]
    BY <2>1 DEF WritesIn
  <2>3. QED
    BY <2>2 DEF WritesOf, WriteOf
<1>2. ASSUME NEW op \in S PROVE WriteOf(op) \in AsWrites(c)
  <2>1. [id |-> op.id, val |-> op.val] \in c[op.list] /\ op.list \in Lists
    BY DEF WritesIn
  <2>2. QED
    BY <2>1 DEF AsWrites, WriteOf
<1>3. QED
  BY <1>1, <1>2 DEF WritesOf

\* The views follow from the operations that were applied.
LEMMA ViewsChange ==
    ASSUME ConvergenceInv, ConvergenceInv'
    PROVE  \A r \in Replicas : /\ AsWrites(seq[r]) = WritesOf(applied[r])
                               /\ AsWrites(seq'[r]) = WritesOf(applied'[r])
<1>1. \A r \in Replicas : \A op \in applied[r] : op.list \in Lists
  BY DEF ConvergenceInv, TypeInv, TypeOK, Inserts, Removals
<1>2. \A r \in Replicas : \A op \in applied'[r] : op.list \in Lists
  BY DEF ConvergenceInv, TypeInv, TypeOK, Inserts, Removals
<1>3. \A r \in Replicas : \A list \in Lists : /\ seq[r][list] = WritesIn(applied[r], list)
                                              /\ seq'[r][list] = WritesIn(applied'[r], list)
  BY DEF ConvergenceInv, StateIsAppliedOps
<1>4. QED
  BY <1>1, <1>2, <1>3, ViewsAreApplied

\* Any two identifiers that are not the same are in one order or the other.
LEMMA BeforeTotal ==
    ASSUME NEW a \in Ids, NEW b \in Ids, a # b
    PROVE  Before(a, b) \/ Before(b, a)
<1>1. \A id \in Ids : \E m \in Positions, w \in Writers : id = <<m, w>>
  BY DEF Ids, Actor
<1>2. PICK m \in Positions, w \in Writers : a = <<m, w>>
  BY <1>1
<1>3. PICK k \in Positions, x \in Writers : b = <<k, x>>
  BY <1>1
<1>4. m \in Nat /\ w \in Nat /\ k \in Nat /\ x \in Nat
  BY PositionsAssumption, ReplicasAssumption
<1>5. a[1] = m /\ a[2] = w /\ b[1] = k /\ b[2] = x /\ (m # k \/ w # x)
  BY <1>2, <1>3
<1>6. QED
  BY <1>4, <1>5 DEF Before

\* A local write, LSeq::append and all, is a Publish by its author.
LEMMA AppendPublishes ==
    ASSUME ConvergenceInv, ConvergenceInv', NEW r \in Replicas, NEW list \in Lists, NEW v,
           AppendTo(r, list, v)
    PROVE  Log!LogNext
<1>1. PICK id \in FreshIds(seq[r][list], Actor(r), Positions) :
        LET op == [list |-> list, type |-> "Insert", id |-> id, val |-> v]
        IN  ops' = ops \cup {op} /\ applied' = [applied EXCEPT ![r] = @ \cup {op}]
  BY DEF AppendTo
<1> DEFINE op == [list |-> list, type |-> "Insert", id |-> id, val |-> v]
           w == WriteOf(op)
<1>2. r \in Writers
  BY DEF AppendTo
<1>3. id \in Ids
  BY <1>1, <1>2 DEF FreshIds, Ids
<1>4. \A o \in ops : o.list = list => o.id # id
  BY <1>1, <1>2, FreshIsUnused
<1>5. \A o \in ops : o.id \in Ids
  BY DEF ConvergenceInv, TypeInv, TypeOK, Inserts, Removals
<1>6. \A x \in theLog : x.list = w.list => Before(x.id, w.id) \/ Before(w.id, x.id)
  BY <1>3, <1>4, <1>5, BeforeTotal DEF theLog, IssuedWrites, WriteOf
<1>7. \A x \in AsWrites(seq[r]) : x.list = w.list => Before(x.id, w.id)
  BY <1>1 DEF FreshIds, AsWrites, WriteOf
<1>8. theLog' = theLog \cup {w}
  BY <1>1 DEF theLog, IssuedWrites, WriteOf
<1>9. w \notin theLog
  BY <1>4 DEF theLog, IssuedWrites, WriteOf
<1>10. theViews' = [theViews EXCEPT ![r] = @ \cup {w}]
  <2>1. \A s \in Replicas : applied'[s] = IF s = r THEN applied[s] \cup {op} ELSE applied[s]
    BY <1>1 DEF ConvergenceInv, TypeInv, TypeOK
  <2>2. WritesOf(applied[r] \cup {op}) = WritesOf(applied[r]) \cup {w}
    BY DEF WritesOf
  <2>3. QED
    BY <2>1, <2>2, ViewsChange DEF theViews
<1>11. Log!Publish(r, w)
  BY <1>6, <1>7, <1>8, <1>10 DEF Log!Publish, theLog, theViews
<1>12. QED
  BY <1>8, <1>9, <1>11 DEF Log!LogNext, theLog

\* An operation that arrives, for the first time or again, is a Learn.
LEMMA ApplyLearns ==
    ASSUME ConvergenceInv, ConvergenceInv', NEW r \in Replicas, NEW op \in ops, ApplyTo(r, op)
    PROVE  Log!LogNext
<1> DEFINE w == WriteOf(op)
<1>1. w \in theLog /\ UNCHANGED theLog
  BY DEF theLog, IssuedWrites, WriteOf, ApplyTo
<1>2. theViews' = [theViews EXCEPT ![r] = @ \cup {w}]
  <2>1. \A s \in Replicas : applied'[s] = IF s = r THEN applied[s] \cup {op} ELSE applied[s]
    BY DEF ApplyTo, ConvergenceInv, TypeInv, TypeOK
  <2>2. WritesOf(applied[r] \cup {op}) = WritesOf(applied[r]) \cup {w}
    BY DEF WritesOf
  <2>3. QED
    BY <2>1, <2>2, ViewsChange DEF theViews
<1>3. Log!Learn(r, w)
  BY <1>1, <1>2 DEF Log!Learn, theLog, theViews
<1>4. QED
  BY <1>1, <1>3 DEF Log!LogNext, theLog

\* A whole copy is a CatchUp: whoever takes one had nothing.
LEMMA CopyCatchesUp ==
    ASSUME RefinementInv, ConvergenceInv', NEW r \in Replicas, NEW s \in Replicas, Copy(r, s)
    PROVE  Log!LogNext
<1>1. seq' = [seq EXCEPT ![r] = seq[s]] /\ UNCHANGED theLog
  BY DEF Copy, theLog, IssuedWrites
<1>2. theViews' = [theViews EXCEPT ![r] = theViews[s]]
  BY <1>1 DEF theViews, RefinementInv, ConvergenceInv, TypeInv, TypeOK
<1>3. theViews[r] \subseteq theViews[s]
  <2>1. seq[r] = EmptySeq
    BY DEF Copy, RefinementInv, CopiesStartEmpty
  <2>2. AsWrites(seq[r]) = {}
    BY <2>1 DEF AsWrites, EmptySeq
  <2>3. QED
    BY <2>2 DEF theViews
<1>4. Log!CatchUp(r, s)
  BY <1>1, <1>2, <1>3 DEF Log!CatchUp, theLog, theViews
<1>5. QED
  BY <1>4 DEF Log!LogNext

\* Every step of a Sequence is a step of the log, or leaves it as it is.
LEMMA LogStep ==
    ASSUME Deletes = FALSE, RefinementInv, ConvergenceInv', [Next]_vars
    PROVE  [Log!LogNext]_Log!logVars
<1>0. ConvergenceInv
  BY DEF RefinementInv
<1>1. ASSUME NEW r \in Replicas, NEW s \in Replicas, Copy(r, s) PROVE Log!LogNext
  BY <1>1, CopyCatchesUp
<1>2. ASSUME NEW r \in Replicas, NEW e \in Entries, AppendEntry(r, e) PROVE Log!LogNext
  BY <1>0, <1>2, AppendPublishes DEF AppendEntry, Lists
<1>3. ASSUME NEW r \in Replicas, NEW m \in PubMaps, SetPubPermissions(r, m) PROVE Log!LogNext
  BY <1>0, <1>3, AppendPublishes DEF SetPubPermissions, Lists
<1>4. ASSUME NEW r \in Replicas, NEW m \in PrivMaps, SetPrivatePermissions(r, m)
      PROVE  Log!LogNext
  BY <1>0, <1>4, AppendPublishes DEF SetPrivatePermissions, Lists
<1>5. ASSUME NEW r \in Replicas, NEW k \in Keys, SetOwner(r, k) PROVE Log!LogNext
  BY <1>0, <1>5, AppendPublishes DEF SetOwner, Lists
<1>6. ASSUME NEW list \in Lists, SendDelete(list) PROVE Log!LogNext
  BY <1>6 DEF SendDelete
<1>7. ASSUME NEW r \in Replicas, NEW op \in ops, Deliver(r, op) PROVE Log!LogNext
  BY <1>0, <1>7, ApplyLearns
     DEF Deliver, ApplyCrdtOp, ApplyCrdtPubPermsOp, ApplyCrdtPrivatePermsOp, ApplyCrdtOwnerOp
<1>8. ASSUME UNCHANGED vars PROVE UNCHANGED Log!logVars
  BY <1>8 DEF vars, Log!logVars, IssuedWrites
<1>9. QED
  BY <1>1, <1>2, <1>3, <1>4, <1>5, <1>6, <1>7, <1>8 DEF Next

LEMMA LogInitially == Init => Log!LogInit
<1>1. Init => theLog = {} /\ \A r \in Replicas : AsWrites(seq[r]) = {}
  BY DEF Init, EmptySeq, theLog, IssuedWrites, AsWrites
<1>2. QED
  BY <1>1 DEF Log!LogInit, theLog

\* Refinement: without deletes a Sequence is a growing log of writes in one order,
\* each in a place of its own after what its author had seen (append, seq_crdt.rs:98),
\* of which every copy sees a growing part (apply_data_op, seq_crdt.rs:104).
THEOREM ImplementsLogHolds ==
    ASSUME Deletes = FALSE
    PROVE  Spec => ImplementsLog
<1>1. Init => RefinementInv
  BY ConvergenceInit DEF Init, RefinementInv, CopiesStartEmpty
<1>2. RefinementInv /\ [Next]_vars => RefinementInv'
  BY ConvergenceStep, HistoryStep DEF RefinementInv, HistoryInv, ConvergenceInv
<1>3. RefinementInv /\ RefinementInv' /\ [Next]_vars => [Log!LogNext]_Log!logVars
  BY LogStep DEF RefinementInv
<1>4. QED
  BY <1>1, <1>2, <1>3, LogInitially, PTL DEF Spec, ImplementsLog, Log!LogSpec
=============================================================================
