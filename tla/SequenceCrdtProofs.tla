------------------------- MODULE SequenceCrdtProofs -------------------------
(***************************************************************************)
(* Proofs about SequenceCrdt, for any set of replicas and writers, any     *)
(* values, keys and permission maps, and any number of operations.         *)
(***************************************************************************)
EXTENDS SequenceCrdt, FiniteSetTheorems, TLAPS

-----------------------------------------------------------------------------
\* Type correctness.  The lists are finite, so the lengths that are recorded in
\* permissions and owner entries are natural numbers.

FiniteLists == \A r \in Replicas : \A list \in Lists : IsFiniteSet(seq[r][list])

TypeInv == TypeOK /\ FiniteLists

\* Inserting into a finite typed list gives one (LSeq::apply on Op::Insert).
LEMMA InsertType ==
    ASSUME NEW S, NEW l \in SUBSET S, IsFiniteSet(l), NEW id, NEW v,
           [id |-> id, val |-> v] \in S
    PROVE  Insert(l, id, v) \in SUBSET S /\ IsFiniteSet(Insert(l, id, v))
BY FS_AddElement DEF Insert

\* Deleting from a finite typed list gives one (LSeq::apply on Op::Delete).
LEMMA DeleteType ==
    ASSUME NEW S, NEW l \in SUBSET S, IsFiniteSet(l), NEW id
    PROVE  Delete(l, id) \in SUBSET S /\ IsFiniteSet(Delete(l, id))
BY FS_Subset DEF Delete

\* The types survive when one list of one replica becomes another typed list.
LEMMA UpdateType ==
    ASSUME TypeInv, NEW r \in Replicas, NEW list \in Lists,
           NEW l \in SUBSET Elements(list), IsFiniteSet(l),
           seq' = [seq EXCEPT ![r][list] = l]
    PROVE  /\ seq' = [s \in Replicas |-> [k \in Lists |-> seq'[s][k]]]
           /\ \A s \in Replicas : \A k \in Lists :
                /\ seq'[s][k] = IF s = r /\ k = list THEN l ELSE seq[s][k]
                /\ seq'[s][k] \subseteq Elements(k) /\ IsFiniteSet(seq'[s][k])
<1>1. \A s \in Replicas : \A k \in Lists :
        seq'[s][k] = IF s = r /\ k = list THEN l ELSE seq[s][k]
  BY DEF TypeInv, TypeOK
<1>2. seq' = [s \in Replicas |-> [k \in Lists |-> seq'[s][k]]]
  BY DEF TypeInv, TypeOK
<1>3. QED
  BY <1>1, <1>2 DEF TypeInv, TypeOK, FiniteLists

\* An append by a writer keeps the types, whatever the list (LSeq::append).
LEMMA AppendType ==
    ASSUME TypeInv, NEW r \in Replicas, NEW list \in Lists, NEW v \in Values(list),
           AppendTo(r, list, v)
    PROVE  TypeInv'
<1>1. PICK id \in FreshIds(seq[r][list], Actor(r), Positions) :
        LET op == [list |-> list, type |-> "Insert", id |-> id, val |-> v]
        IN  /\ seq' = [seq EXCEPT ![r][list] = Insert(@, id, v)]
            /\ ops' = ops \cup {op}
            /\ applied' = [applied EXCEPT ![r] = @ \cup {op}]
  BY DEF AppendTo
<1> DEFINE op == [list |-> list, type |-> "Insert", id |-> id, val |-> v]
<1>2. id \in Ids
  BY <1>1 DEF FreshIds, Ids, AppendTo
<1>3. [id |-> id, val |-> v] \in Elements(list) /\ op \in Inserts(list)
  BY <1>2 DEF Elements, Inserts
<1>4. /\ seq[r][list] \in SUBSET Elements(list)
      /\ IsFiniteSet(seq[r][list])
  BY DEF TypeInv, TypeOK, FiniteLists
<1>5. /\ Insert(seq[r][list], id, v) \in SUBSET Elements(list)
      /\ IsFiniteSet(Insert(seq[r][list], id, v))
  BY <1>3, <1>4, InsertType
<1>6. seq' = [seq EXCEPT ![r][list] = Insert(seq[r][list], id, v)]
  BY <1>1
<1>7. /\ seq' = [s \in Replicas |-> [k \in Lists |-> seq'[s][k]]]
      /\ \A s \in Replicas : \A k \in Lists :
           seq'[s][k] \subseteq Elements(k) /\ IsFiniteSet(seq'[s][k])
  BY <1>5, <1>6, UpdateType
<1>8. /\ live' \subseteq Replicas
      /\ \A o \in ops' : o \in Removals \/ \E k \in Lists : o \in Inserts(k)
      /\ applied' \in [Replicas -> SUBSET ops']
  BY <1>1, <1>3 DEF TypeInv, TypeOK, AppendTo
<1>9. QED
  BY <1>7, <1>8 DEF TypeInv, TypeOK, FiniteLists

\* The lengths recorded by append_permissions and append_owner are numbers.
LEMMA IndexType ==
    ASSUME TypeInv, NEW r \in Replicas
    PROVE  /\ EntriesIndex(seq[r]) \in Nat
           /\ OwnersIndex(seq[r]) \in Nat
           /\ PermissionsIndex(seq[r]) \in Nat
<1>1. /\ IsFiniteSet(seq[r].data)
      /\ IsFiniteSet(seq[r].permissions)
      /\ IsFiniteSet(seq[r].owners)
  BY DEF TypeInv, FiniteLists, Lists
<1>2. QED
  BY <1>1, FS_CardinalityType
     DEF EntriesIndex, OwnersIndex, PermissionsIndex, Size

\* Each list is appended values of its own type only.
LEMMA AppendedValues ==
    ASSUME TypeInv, NEW r \in Replicas
    PROVE  /\ \A e \in Entries : e \in Values("data")
           /\ \A m \in PubMaps \cup PrivMaps :
                PermissionsEntry(seq[r], m) \in Values("permissions")
           /\ \A k \in Keys : OwnerEntry(seq[r], k) \in Values("owners")
BY IndexType DEF Values, PermissionsEntry, PermissionsEntries, OwnerEntry, OwnerEntries

\* Applying a received operation keeps the types (every apply_crdt_*_op).
LEMMA ApplyType ==
    ASSUME TypeInv, NEW r \in Replicas, NEW op \in ops, ApplyTo(r, op)
    PROVE  TypeInv'
<1>1. PICK list \in Lists : op.list = list /\ (op \in Inserts(list) \/ op \in Removals)
  BY DEF TypeInv, TypeOK, Inserts, Removals
<1>2. /\ seq[r][list] \in SUBSET Elements(list)
      /\ IsFiniteSet(seq[r][list])
  BY DEF TypeInv, TypeOK, FiniteLists
<1>3. /\ Apply(seq[r][list], op) \in SUBSET Elements(list)
      /\ IsFiniteSet(Apply(seq[r][list], op))
  <2>1. CASE op \in Inserts(list)
    <3>1. [id |-> op.id, val |-> op.val] \in Elements(list) /\ op.type = "Insert"
      BY <2>1 DEF Inserts, Elements
    <3>2. QED
      BY <1>2, <3>1, InsertType DEF Apply
  <2>2. CASE op \in Removals
    BY <1>2, <2>2, DeleteType DEF Apply, Removals
  <2>3. QED
    BY <1>1, <2>1, <2>2
<1>4. seq' = [seq EXCEPT ![r][list] = Apply(seq[r][list], op)]
  BY <1>1 DEF ApplyTo
<1>5. /\ seq' = [s \in Replicas |-> [k \in Lists |-> seq'[s][k]]]
      /\ \A s \in Replicas : \A k \in Lists :
           seq'[s][k] \subseteq Elements(k) /\ IsFiniteSet(seq'[s][k])
  BY <1>3, <1>4, UpdateType
<1>6. /\ live' \subseteq Replicas
      /\ \A o \in ops' : o \in Removals \/ \E k \in Lists : o \in Inserts(k)
      /\ applied' \in [Replicas -> SUBSET ops']
  BY DEF TypeInv, TypeOK, ApplyTo
<1>7. QED
  BY <1>5, <1>6 DEF TypeInv, TypeOK, FiniteLists

\* A whole copy has the types of the original (Clone, SequenceWrite::New).
LEMMA CopyType ==
    ASSUME TypeInv, NEW r \in Replicas, NEW s \in Replicas, Copy(r, s)
    PROVE  TypeInv'
<1>1. /\ seq' = [q \in Replicas |-> IF q = r THEN seq[s] ELSE seq[q]]
      /\ \A q \in Replicas : seq[q] = [k \in Lists |-> seq[q][k]]
  BY DEF Copy, TypeInv, TypeOK
<1>2. seq' = [q \in Replicas |-> [k \in Lists |-> seq'[q][k]]]
  BY <1>1
<1>3. \A q \in Replicas : \A k \in Lists :
        seq'[q][k] \subseteq Elements(k) /\ IsFiniteSet(seq'[q][k])
  BY <1>1 DEF TypeInv, TypeOK, FiniteLists
<1>4. /\ live' \subseteq Replicas
      /\ \A o \in ops' : o \in Removals \/ \E k \in Lists : o \in Inserts(k)
      /\ applied' \in [Replicas -> SUBSET ops']
  BY DEF TypeInv, TypeOK, Copy
<1>5. QED
  BY <1>2, <1>3, <1>4 DEF TypeInv, TypeOK, FiniteLists

\* A delete on the wire changes only the set of operations.
LEMMA SendDeleteType ==
    ASSUME TypeInv, NEW list \in Lists, SendDelete(list)
    PROVE  TypeInv'
<1>1. PICK op \in ops :
        /\ op.list = list /\ op.type = "Insert"
        /\ ops' = ops \cup {[list |-> list, type |-> "Delete", id |-> op.id]}
  BY DEF SendDelete
<1>2. op.id \in Ids
  BY <1>1 DEF TypeInv, TypeOK, Inserts, Removals
<1>3. \A o \in ops' : o \in Removals \/ \E k \in Lists : o \in Inserts(k)
  BY <1>1, <1>2 DEF TypeInv, TypeOK, Removals
<1>4. QED
  BY <1>1, <1>3 DEF SendDelete, TypeInv, TypeOK, FiniteLists

LEMMA TypeInvInit == Init => TypeInv
<1> SUFFICES ASSUME Init PROVE TypeInv
  OBVIOUS
<1>1. FiniteLists
  BY FS_EmptySet DEF Init, EmptySeq, FiniteLists
<1>2. QED
  BY <1>1, ReplicasAssumption DEF Init, EmptySeq, TypeInv, TypeOK

LEMMA TypeInvStep == TypeInv /\ [Next]_vars => TypeInv'
<1> SUFFICES ASSUME TypeInv, [Next]_vars PROVE TypeInv'
  OBVIOUS
<1>1. ASSUME NEW r \in Replicas, NEW s \in Replicas, Copy(r, s) PROVE TypeInv'
  BY <1>1, CopyType
<1>2. ASSUME NEW r \in Replicas, NEW e \in Entries, AppendEntry(r, e) PROVE TypeInv'
  BY <1>2, AppendType, AppendedValues DEF AppendEntry, Lists
<1>3. ASSUME NEW r \in Replicas, NEW m \in PubMaps, SetPubPermissions(r, m)
      PROVE  TypeInv'
  BY <1>3, AppendType, AppendedValues DEF SetPubPermissions, Lists
<1>4. ASSUME NEW r \in Replicas, NEW m \in PrivMaps, SetPrivatePermissions(r, m)
      PROVE  TypeInv'
  BY <1>4, AppendType, AppendedValues DEF SetPrivatePermissions, Lists
<1>5. ASSUME NEW r \in Replicas, NEW k \in Keys, SetOwner(r, k) PROVE TypeInv'
  BY <1>5, AppendType, AppendedValues DEF SetOwner, Lists
<1>6. ASSUME NEW list \in Lists, SendDelete(list) PROVE TypeInv'
  BY <1>6, SendDeleteType
<1>7. ASSUME NEW r \in Replicas, NEW op \in ops, Deliver(r, op) PROVE TypeInv'
  BY <1>7, ApplyType
     DEF Deliver, ApplyCrdtOp, ApplyCrdtPubPermsOp, ApplyCrdtPrivatePermsOp, ApplyCrdtOwnerOp
<1>8. ASSUME UNCHANGED vars PROVE TypeInv'
  BY <1>8 DEF vars, TypeInv, TypeOK, FiniteLists
<1>9. QED
  BY <1>1, <1>2, <1>3, <1>4, <1>5, <1>6, <1>7, <1>8 DEF Next

\* Type correctness: whatever is appended, copied, deleted and delivered, each
\* list of each replica holds entries of its own kind, under identifiers of the
\* writers, and the recorded indices are natural numbers.
THEOREM TypeCorrect == Spec => []TypeOK
<1>1. Spec => []TypeInv
  BY TypeInvInit, TypeInvStep, PTL DEF Spec
<1>2. TypeInv => TypeOK
  BY DEF TypeInv
<1>3. QED
  BY <1>1, <1>2, PTL

-----------------------------------------------------------------------------
\* Convergence, while no Op::Delete is on the wire.

\* Inductive: a writer knows its own identifiers (so a new one is new
\* everywhere), hence identifiers are unique, hence no insert is ignored, hence
\* a list is the set of the applied writes.
ConvergenceInv ==
    /\ TypeInv
    /\ Writers \subseteq live
    /\ \A op \in ops : op.type = "Insert"
    /\ OwnWritesAreApplied
    /\ UniqueIds
    /\ StateIsAppliedOps

\* No identifier precedes itself.
LEMMA BeforeIrreflexive ==
    ASSUME NEW id \in Ids
    PROVE  ~Before(id, id)
<1>1. id[1] \in Nat /\ id[2] \in Nat
  BY PositionsAssumption, ReplicasAssumption DEF Ids, Actor
<1>2. QED
  BY <1>1 DEF Before

\* The identifier an append allocates is used by no operation of that list.
LEMMA FreshIsUnused ==
    ASSUME ConvergenceInv, NEW r \in Writers, NEW list \in Lists,
           NEW id \in FreshIds(seq[r][list], Actor(r), Positions)
    PROVE  /\ \A e \in seq[r][list] : e.id # id
           /\ \A op \in ops : op.list = list => op.id # id
<1>1. id \in Ids /\ id[2] = Actor(r) /\ \A e \in seq[r][list] : Before(e.id, id)
  BY DEF FreshIds, Ids
<1>2. \A e \in seq[r][list] : e.id # id
  BY <1>1, BeforeIrreflexive
<1>3. ASSUME NEW op \in ops, op.list = list, op.id = id PROVE FALSE
  <2>1. op \in applied[r]
    BY <1>1, <1>3 DEF ConvergenceInv, OwnWritesAreApplied
  <2>2. [id |-> op.id, val |-> op.val] \in seq[r][list]
    BY <1>3, <2>1, ReplicasAssumption DEF ConvergenceInv, StateIsAppliedOps, WritesIn
  <2>3. QED
    BY <1>2, <1>3, <2>2
<1>4. QED
  BY <1>2, <1>3

LEMMA AppendConverges ==
    ASSUME ConvergenceInv, NEW r \in Replicas, NEW list \in Lists, NEW v \in Values(list),
           AppendTo(r, list, v)
    PROVE  ConvergenceInv'
<1>1. PICK id \in FreshIds(seq[r][list], Actor(r), Positions) :
        LET op == [list |-> list, type |-> "Insert", id |-> id, val |-> v]
        IN  /\ seq' = [seq EXCEPT ![r][list] = Insert(@, id, v)]
            /\ ops' = ops \cup {op}
            /\ applied' = [applied EXCEPT ![r] = @ \cup {op}]
  BY DEF AppendTo
<1> DEFINE op == [list |-> list, type |-> "Insert", id |-> id, val |-> v]
<1>2. r \in Writers /\ TypeInv
  BY DEF AppendTo, ConvergenceInv
<1>3. /\ \A e \in seq[r][list] : e.id # id
      /\ \A o \in ops : o.list = list => o.id # id
  BY <1>1, <1>2, FreshIsUnused
<1>4. /\ id \in Ids /\ id[2] = Actor(r)
      /\ op.list = list /\ op.id = id /\ op.val = v /\ op.type = "Insert"
  BY <1>1, <1>2 DEF FreshIds, Ids
<1>5. TypeInv'
  BY <1>2, AppendType
<1>6. Writers \subseteq live' /\ \A o \in ops' : o.type = "Insert"
  BY <1>1, <1>4 DEF ConvergenceInv, AppendTo
<1>7. \A s \in Replicas : applied'[s] = IF s = r THEN applied[s] \cup {op} ELSE applied[s]
  BY <1>1, <1>2 DEF TypeInv, TypeOK
<1>8. OwnWritesAreApplied'
  <2> SUFFICES ASSUME NEW w \in Writers, NEW o \in ops', o.id[2] = Actor(w)
               PROVE  o \in applied'[w]
    BY DEF OwnWritesAreApplied, Actor
  <2>1. CASE o \in ops
    BY <1>7, <2>1, ReplicasAssumption DEF ConvergenceInv, OwnWritesAreApplied
  <2>2. CASE o = op
    BY <1>4, <1>7, <2>2 DEF Actor
  <2>3. QED
    BY <1>1, <2>1, <2>2
<1>9. UniqueIds'
  BY <1>1, <1>3, <1>4 DEF ConvergenceInv, UniqueIds
<1>10. StateIsAppliedOps'
  <2>1. Insert(seq[r][list], id, v) = seq[r][list] \cup {[id |-> id, val |-> v]}
    BY <1>3 DEF Insert
  <2>2. seq' = [seq EXCEPT ![r][list] = Insert(seq[r][list], id, v)]
    BY <1>1
  <2>3. \A s \in Replicas : \A k \in Lists :
          seq'[s][k] = IF s = r /\ k = list
                       THEN seq[s][k] \cup {[id |-> id, val |-> v]} ELSE seq[s][k]
    <3>1. \A s \in Replicas : \A k \in Lists :
            seq'[s][k] = IF s = r /\ k = list
                         THEN Insert(seq[r][list], id, v) ELSE seq[s][k]
      BY <1>2, <2>2 DEF TypeInv, TypeOK
    <3>2. QED
      BY <2>1, <3>1
  <2>4. \A s \in Replicas : \A k \in Lists :
          WritesIn(applied'[s], k) =
            IF s = r /\ k = list
            THEN WritesIn(applied[s], k) \cup {[id |-> id, val |-> v]}
            ELSE WritesIn(applied[s], k)
    <3>1. \A k \in Lists : WritesIn(applied[r] \cup {op}, k) =
             IF op.list = k THEN WritesIn(applied[r], k) \cup {[id |-> op.id, val |-> op.val]}
                            ELSE WritesIn(applied[r], k)
      BY DEF WritesIn
    <3>2. QED
      BY <1>4, <1>7, <3>1
  <2>5. QED
    BY <2>3, <2>4 DEF ConvergenceInv, StateIsAppliedOps
<1>11. QED
  BY <1>5, <1>6, <1>8, <1>9, <1>10 DEF ConvergenceInv

LEMMA ApplyConverges ==
    ASSUME ConvergenceInv, NEW r \in Replicas, NEW op \in ops, ApplyTo(r, op)
    PROVE  ConvergenceInv'
<1>1. TypeInv /\ TypeInv'
  BY ApplyType DEF ConvergenceInv
<1>2. PICK list \in Lists : op.list = list /\ op \in Inserts(list)
  BY DEF ConvergenceInv, TypeInv, TypeOK, Inserts, Removals
<1>3. \A s \in Replicas : applied'[s] = IF s = r THEN applied[s] \cup {op} ELSE applied[s]
  BY <1>1 DEF ApplyTo, TypeInv, TypeOK
<1>4. Writers \subseteq live' /\ (\A o \in ops' : o.type = "Insert") /\ UniqueIds'
  BY DEF ConvergenceInv, UniqueIds, ApplyTo
<1>5. OwnWritesAreApplied'
  BY <1>3, ReplicasAssumption DEF ConvergenceInv, OwnWritesAreApplied, ApplyTo, Actor
<1>6. Insert(seq[r][list], op.id, op.val) = seq[r][list] \cup {[id |-> op.id, val |-> op.val]}
  <2>1. CASE \E e \in seq[r][list] : e.id = op.id
    <3>1. PICK o \in applied[r] : o.list = list /\ o.id = op.id
      BY <2>1 DEF ConvergenceInv, StateIsAppliedOps, WritesIn
    <3>2. o = op
      BY <1>1, <1>2, <3>1 DEF ConvergenceInv, UniqueIds, TypeInv, TypeOK
    <3>3. [id |-> op.id, val |-> op.val] \in seq[r][list]
      BY <3>1, <3>2 DEF ConvergenceInv, StateIsAppliedOps, WritesIn
    <3>4. QED
      BY <2>1, <3>3 DEF Insert
  <2>2. CASE ~\E e \in seq[r][list] : e.id = op.id
    BY <2>2 DEF Insert
  <2>3. QED
    BY <2>1, <2>2
<1>7. StateIsAppliedOps'
  <2>1. seq' = [seq EXCEPT ![r][list] = Insert(seq[r][list], op.id, op.val)]
    BY <1>2 DEF ApplyTo, Apply, Inserts
  <2>2. \A s \in Replicas : \A k \in Lists :
          seq'[s][k] = IF s = r /\ k = list
                       THEN seq[s][k] \cup {[id |-> op.id, val |-> op.val]}
                       ELSE seq[s][k]
    <3>1. \A s \in Replicas : \A k \in Lists :
            seq'[s][k] = IF s = r /\ k = list
                         THEN Insert(seq[r][list], op.id, op.val) ELSE seq[s][k]
      BY <1>1, <2>1 DEF TypeInv, TypeOK
    <3>2. QED
      BY <1>6, <3>1
  <2>3. \A s \in Replicas : \A k \in Lists :
          WritesIn(applied'[s], k) =
            IF s = r /\ k = list
            THEN WritesIn(applied[s], k) \cup {[id |-> op.id, val |-> op.val]}
            ELSE WritesIn(applied[s], k)
    <3>1. \A k \in Lists : WritesIn(applied[r] \cup {op}, k) =
             IF op.list = k THEN WritesIn(applied[r], k) \cup {[id |-> op.id, val |-> op.val]}
                            ELSE WritesIn(applied[r], k)
      BY DEF WritesIn
    <3>2. QED
      BY <1>2, <1>3, <3>1
  <2>4. QED
    BY <2>2, <2>3 DEF ConvergenceInv, StateIsAppliedOps
<1>8. QED
  BY <1>1, <1>4, <1>5, <1>7 DEF ConvergenceInv

LEMMA CopyConverges ==
    ASSUME ConvergenceInv, NEW r \in Replicas, NEW s \in Replicas,
           Copy(r, s)
    PROVE  ConvergenceInv'
<1>1. TypeInv /\ TypeInv'
  BY CopyType DEF ConvergenceInv
<1>2. \A q \in Replicas : /\ applied'[q] = IF q = r THEN applied[s] ELSE applied[q]
                          /\ seq'[q] = IF q = r THEN seq[s] ELSE seq[q]
  BY <1>1 DEF Copy, TypeInv, TypeOK
<1>3. r \notin Writers
  BY DEF Copy, ConvergenceInv
<1>4. Writers \subseteq live' /\ (\A o \in ops' : o.type = "Insert") /\ UniqueIds'
  BY DEF ConvergenceInv, UniqueIds, Copy
<1>5. OwnWritesAreApplied'
  BY <1>2, <1>3, ReplicasAssumption DEF ConvergenceInv, OwnWritesAreApplied, Copy, Actor
<1>6. StateIsAppliedOps'
  BY <1>2 DEF ConvergenceInv, StateIsAppliedOps
<1>7. QED
  BY <1>1, <1>4, <1>5, <1>6 DEF ConvergenceInv

LEMMA ConvergenceInit == Init => ConvergenceInv
<1> SUFFICES ASSUME Init PROVE ConvergenceInv
  OBVIOUS
<1>1. StateIsAppliedOps
  BY DEF Init, EmptySeq, StateIsAppliedOps, WritesIn
<1>2. QED
  BY <1>1, TypeInvInit DEF Init, ConvergenceInv, OwnWritesAreApplied, UniqueIds

LEMMA ConvergenceStep ==
    ASSUME Deletes = FALSE
    PROVE  ConvergenceInv /\ [Next]_vars => ConvergenceInv'
<1> SUFFICES ASSUME ConvergenceInv, [Next]_vars PROVE ConvergenceInv'
  OBVIOUS
<1>0. TypeInv
  BY DEF ConvergenceInv
<1>1. ASSUME NEW r \in Replicas, NEW s \in Replicas, Copy(r, s) PROVE ConvergenceInv'
  BY <1>1, CopyConverges
<1>2. ASSUME NEW r \in Replicas, NEW e \in Entries, AppendEntry(r, e)
      PROVE  ConvergenceInv'
  BY <1>0, <1>2, AppendConverges, AppendedValues DEF AppendEntry, Lists
<1>3. ASSUME NEW r \in Replicas, NEW m \in PubMaps, SetPubPermissions(r, m)
      PROVE  ConvergenceInv'
  BY <1>0, <1>3, AppendConverges, AppendedValues DEF SetPubPermissions, Lists
<1>4. ASSUME NEW r \in Replicas, NEW m \in PrivMaps, SetPrivatePermissions(r, m)
      PROVE  ConvergenceInv'
  BY <1>0, <1>4, AppendConverges, AppendedValues DEF SetPrivatePermissions, Lists
<1>5. ASSUME NEW r \in Replicas, NEW k \in Keys, SetOwner(r, k) PROVE ConvergenceInv'
  BY <1>0, <1>5, AppendConverges, AppendedValues DEF SetOwner, Lists
<1>6. ASSUME NEW list \in Lists, SendDelete(list) PROVE ConvergenceInv'
  BY <1>6 DEF SendDelete
<1>7. ASSUME NEW r \in Replicas, NEW op \in ops, Deliver(r, op) PROVE ConvergenceInv'
  BY <1>7, ApplyConverges
     DEF Deliver, ApplyCrdtOp, ApplyCrdtPubPermsOp, ApplyCrdtPrivatePermsOp, ApplyCrdtOwnerOp
<1>8. ASSUME UNCHANGED vars PROVE ConvergenceInv'
  <2>1. TypeInv'
    BY <1>0, <1>8, TypeInvStep
  <2>2. QED
    BY <1>8, <2>1 DEF vars, ConvergenceInv, OwnWritesAreApplied, UniqueIds,
                      StateIsAppliedOps, Actor
<1>9. QED
  BY <1>1, <1>2, <1>3, <1>4, <1>5, <1>6, <1>7, <1>8 DEF Next

LEMMA ConvergenceInvariant ==
    ASSUME Deletes = FALSE
    PROVE  Spec => []ConvergenceInv
BY ConvergenceInit, ConvergenceStep, PTL DEF Spec

\* Two writes of one list never share an identifier, because every writer uses
\* its own key and knows all the identifiers made under it.
THEOREM UniqueIdsHolds ==
    ASSUME Deletes = FALSE
    PROVE  Spec => []UniqueIds
<1>1. ConvergenceInv => UniqueIds
  BY DEF ConvergenceInv
<1>2. QED
  BY <1>1, ConvergenceInvariant, PTL

\* A writer knows all the writes made under its key, so that it can tell which
\* identifiers it has used.
THEOREM OwnWritesAreAppliedHolds ==
    ASSUME Deletes = FALSE
    PROVE  Spec => []OwnWritesAreApplied
<1>1. ConvergenceInv => OwnWritesAreApplied
  BY DEF ConvergenceInv
<1>2. QED
  BY <1>1, ConvergenceInvariant, PTL

\* A replica holds exactly the writes it has applied: reordered, repeated and
\* missing deliveries neither lose nor invent anything.
THEOREM StateIsAppliedOpsHolds ==
    ASSUME Deletes = FALSE
    PROVE  Spec => []StateIsAppliedOps
<1>1. ConvergenceInv => StateIsAppliedOps
  BY DEF ConvergenceInv
<1>2. QED
  BY <1>1, ConvergenceInvariant, PTL

\* Strong eventual consistency: replicas that have applied the same operations,
\* in whatever order, are equal (the claim the tests of sequence/mod.rs make).
THEOREM ConvergenceHolds ==
    ASSUME Deletes = FALSE
    PROVE  Spec => []Convergence
<1>1. ConvergenceInv => Convergence
  <2> SUFFICES ASSUME ConvergenceInv, NEW r \in live, NEW s \in live,
                      applied[r] = applied[s]
               PROVE  seq[r] = seq[s]
    BY DEF Convergence
  <2>1. r \in Replicas /\ s \in Replicas
    BY DEF ConvergenceInv, TypeInv, TypeOK
  <2>2. \A k \in Lists : seq[r][k] = seq[s][k]
    BY <2>1 DEF ConvergenceInv, StateIsAppliedOps
  <2>3. /\ seq[r] = [k \in Lists |-> seq[r][k]]
        /\ seq[s] = [k \in Lists |-> seq[s][k]]
    BY <2>1 DEF ConvergenceInv, TypeInv, TypeOK
  <2>4. QED
    BY <2>2, <2>3
<1>2. QED
  BY <1>1, ConvergenceInvariant, PTL

-----------------------------------------------------------------------------
\* Public permissions histories, with Op::Delete on the wire as well.

\* Inductive: nothing is in a copy before it is constructed or received.
CopiesStartEmpty == \A r \in Replicas : r \notin live => seq[r] = EmptySeq

HistoryInv == TypeInv /\ CopiesStartEmpty

HistoriesGrow ==
    \A r \in Replicas : seq[r].permissions \subseteq seq'[r].permissions

\* An append adds to one list of a live replica and removes from none.
LEMMA AppendGrows ==
    ASSUME HistoryInv, NEW r \in Replicas, NEW list \in Lists, NEW v, AppendTo(r, list, v)
    PROVE  HistoriesGrow /\ CopiesStartEmpty'
<1>1. PICK id \in FreshIds(seq[r][list], Actor(r), Positions) :
        seq' = [seq EXCEPT ![r][list] = Insert(seq[r][list], id, v)]
  BY DEF AppendTo
<1>2. seq[r][list] \subseteq Insert(seq[r][list], id, v)
  BY DEF Insert
<1>3. \A s \in Replicas : \A k \in Lists :
        seq'[s][k] = IF s = r /\ k = list THEN Insert(seq[r][list], id, v) ELSE seq[s][k]
  BY <1>1 DEF HistoryInv, TypeInv, TypeOK
<1>4. HistoriesGrow
  BY <1>2, <1>3 DEF HistoriesGrow, Lists
<1>5. \A s \in Replicas : s # r => seq'[s] = seq[s]
  BY <1>1 DEF HistoryInv, TypeInv, TypeOK
<1>6. QED
  BY <1>4, <1>5 DEF HistoryInv, CopiesStartEmpty, AppendTo

\* A received operation removes from a permissions history only if it is an
\* Op::Delete for one.
LEMMA ApplyGrows ==
    ASSUME HistoryInv, NEW r \in Replicas, NEW op \in ops, ApplyTo(r, op)
    PROVE  /\ (op.list = "permissions" => op.type = "Insert") => HistoriesGrow
           /\ CopiesStartEmpty'
<1>1. op.list \in Lists
  BY DEF HistoryInv, TypeInv, TypeOK, Inserts, Removals
<1>2. seq' = [seq EXCEPT ![r][op.list] = Apply(seq[r][op.list], op)]
  BY DEF ApplyTo
<1>3. \A s \in Replicas : \A k \in Lists :
        seq'[s][k] = IF s = r /\ k = op.list THEN Apply(seq[r][op.list], op) ELSE seq[s][k]
  BY <1>1, <1>2 DEF HistoryInv, TypeInv, TypeOK
<1>4. op.type = "Insert" => seq[r][op.list] \subseteq Apply(seq[r][op.list], op)
  BY DEF Apply, Insert
<1>5. (op.list = "permissions" => op.type = "Insert") => HistoriesGrow
  BY <1>3, <1>4 DEF HistoriesGrow, Lists
<1>6. \A s \in Replicas : s # r => seq'[s] = seq[s]
  BY <1>2 DEF HistoryInv, TypeInv, TypeOK
<1>7. CopiesStartEmpty'
  BY <1>6 DEF HistoryInv, CopiesStartEmpty, ApplyTo
<1>8. QED
  BY <1>5, <1>7

LEMMA HistoryStep ==
    HistoryInv /\ [Next]_vars => HistoryInv' /\ (Kind = "Public" => HistoriesGrow)
<1> SUFFICES ASSUME HistoryInv, [Next]_vars
             PROVE  CopiesStartEmpty' /\ (Kind = "Public" => HistoriesGrow)
  BY TypeInvStep DEF HistoryInv
<1> DEFINE Goal == CopiesStartEmpty' /\ (Kind = "Public" => HistoriesGrow)
<1>1. ASSUME NEW r \in Replicas, NEW s \in Replicas, Copy(r, s) PROVE Goal
  <2>1. \A q \in Replicas : seq'[q] = IF q = r THEN seq[s] ELSE seq[q]
    BY <1>1 DEF Copy, HistoryInv, TypeInv, TypeOK
  <2>2. seq[r].permissions = {}
    BY <1>1 DEF Copy, HistoryInv, CopiesStartEmpty, EmptySeq, Lists
  <2>3. HistoriesGrow
    BY <2>1, <2>2 DEF HistoriesGrow
  <2>4. QED
    BY <1>1, <2>1, <2>3 DEF Copy, HistoryInv, CopiesStartEmpty
<1>2. ASSUME NEW r \in Replicas, NEW e \in Entries, AppendEntry(r, e) PROVE Goal
  BY <1>2, AppendGrows DEF AppendEntry, Lists
<1>3. ASSUME NEW r \in Replicas, NEW m \in PubMaps, SetPubPermissions(r, m) PROVE Goal
  BY <1>3, AppendGrows DEF SetPubPermissions, Lists
<1>4. ASSUME NEW r \in Replicas, NEW m \in PrivMaps, SetPrivatePermissions(r, m)
      PROVE  Goal
  BY <1>4, AppendGrows DEF SetPrivatePermissions, Lists
<1>5. ASSUME NEW r \in Replicas, NEW k \in Keys, SetOwner(r, k) PROVE Goal
  BY <1>5, AppendGrows DEF SetOwner, Lists
<1>6. ASSUME NEW list \in Lists, SendDelete(list) PROVE Goal
  BY <1>6 DEF SendDelete, HistoryInv, CopiesStartEmpty, HistoriesGrow
<1>7. ASSUME NEW r \in Replicas, NEW op \in ops, Deliver(r, op) PROVE Goal
  <2>1. ApplyTo(r, op)
    BY <1>7 DEF Deliver, ApplyCrdtOp, ApplyCrdtPubPermsOp, ApplyCrdtPrivatePermsOp,
                ApplyCrdtOwnerOp
  <2>2. Kind = "Public" /\ op.list = "permissions" => op.type = "Insert"
    BY <1>7 DEF Deliver, ApplyCrdtOp, ApplyCrdtPubPermsOp, ApplyCrdtPrivatePermsOp,
                ApplyCrdtOwnerOp
  <2>3. QED
    BY <2>1, <2>2, ApplyGrows
<1>8. ASSUME UNCHANGED vars PROVE Goal
  BY <1>8 DEF vars, HistoryInv, CopiesStartEmpty, HistoriesGrow
<1>9. QED
  BY <1>1, <1>2, <1>3, <1>4, <1>5, <1>6, <1>7, <1>8 DEF Next

\* No entry of a public permissions history is ever removed, whatever deletes
\* arrive (the Op::Insert pattern of apply_crdt_pub_perms_op).
THEOREM PublicPermissionsOnlyGrowHolds == Spec => PublicPermissionsOnlyGrow
<1>1. Init => HistoryInv
  BY TypeInvInit DEF Init, HistoryInv, CopiesStartEmpty
<1>2. HistoryInv /\ [Next]_vars => HistoryInv'
  BY HistoryStep
<1>3. HistoryInv /\ [Next]_vars =>
        [Kind = "Public" =>
           \A r \in Replicas : seq[r].permissions \subseteq seq'[r].permissions]_vars
  BY HistoryStep DEF HistoriesGrow
<1>4. QED
  BY <1>1, <1>2, <1>3, PTL DEF Spec, PublicPermissionsOnlyGrow

-----------------------------------------------------------------------------
\* Deletes that come in any order, before, between and after the inserts.

\* What EntriesOnlyLeaveByDelete says of one list l with the applied operations S.
LeaveByDelete(l, list, S) ==
    /\ \A e \in l : [list |-> list, type |-> "Insert", id |-> e.id, val |-> e.val] \in S
    /\ \A op \in S :
          op.list = list /\ op.type = "Insert" =>
             \/ \E e \in l : e.id = op.id
             \/ [list |-> list, type |-> "Delete", id |-> op.id] \in S

LEMMA LeaveByDeleteOfAll ==
    EntriesOnlyLeaveByDelete
      <=> \A r \in Replicas : \A list \in Lists : LeaveByDelete(seq[r][list], list, applied[r])
BY DEF EntriesOnlyLeaveByDelete, LeaveByDelete

\* Inserting, also when an entry with that identifier is there already.
LEMMA InsertLeaves ==
    ASSUME NEW l, NEW list, NEW S, LeaveByDelete(l, list, S), NEW id, NEW v,
           NEW op, op = [list |-> list, type |-> "Insert", id |-> id, val |-> v]
    PROVE  LeaveByDelete(Insert(l, id, v), list, S \cup {op})
<1>1. op.id = id /\ op.val = v /\ op.list = list /\ op.type = "Insert"
  OBVIOUS
<1>2. l \subseteq Insert(l, id, v) /\ \E e \in Insert(l, id, v) : e.id = id
  <2>1. CASE \E e \in l : e.id = id
    BY <2>1 DEF Insert
  <2>2. CASE ~\E e \in l : e.id = id
    <3>1. Insert(l, id, v) = l \cup {[id |-> id, val |-> v]}
      BY <2>2 DEF Insert
    <3>2. [id |-> id, val |-> v].id = id /\ [id |-> id, val |-> v] \in Insert(l, id, v)
      BY <3>1
    <3>3. QED
      BY <3>1, <3>2
  <2>3. QED
    BY <2>1, <2>2
<1>3. ASSUME NEW e \in Insert(l, id, v)
      PROVE  [list |-> list, type |-> "Insert", id |-> e.id, val |-> e.val] \in S \cup {op}
  <2>1. e \in l \/ e = [id |-> id, val |-> v]
    BY DEF Insert
  <2>2. QED
    BY <2>1 DEF LeaveByDelete
<1>4. QED
  BY <1>1, <1>2, <1>3 DEF LeaveByDelete

LEMMA DeleteLeaves ==
    ASSUME NEW l, NEW list, NEW S, LeaveByDelete(l, list, S), NEW id,
           NEW op, op = [list |-> list, type |-> "Delete", id |-> id]
    PROVE  LeaveByDelete(Delete(l, id), list, S \cup {op})
<1>1. op.type = "Delete"
  OBVIOUS
<1>2. \A o \in S \cup {op} : o.type = "Insert" => o \in S
  BY <1>1
<1>3. \A e \in l : e \in Delete(l, id) \/ e.id = id
  BY DEF Delete
<1>4. ASSUME NEW o \in S, o.list = list, o.type = "Insert"
      PROVE  \/ \E e \in Delete(l, id) : e.id = o.id
             \/ [list |-> list, type |-> "Delete", id |-> o.id] \in S \cup {op}
  BY <1>3, <1>4 DEF LeaveByDelete
<1>5. QED
  BY <1>2, <1>4 DEF LeaveByDelete, Delete

\* An operation on another list.
LEMMA OtherLeaves ==
    ASSUME NEW l, NEW list, NEW S, LeaveByDelete(l, list, S), NEW op, op.list # list
    PROVE  LeaveByDelete(l, list, S \cup {op})
BY DEF LeaveByDelete

\* One list of one replica changes by one operation.
LEMMA ChangeLeaves ==
    ASSUME TypeInv, EntriesOnlyLeaveByDelete,
           NEW r \in Replicas, NEW list \in Lists, NEW op, NEW l, op.list = list,
           LeaveByDelete(l, list, applied[r] \cup {op}),
           seq' = [seq EXCEPT ![r][list] = l],
           applied' = [applied EXCEPT ![r] = @ \cup {op}]
    PROVE  EntriesOnlyLeaveByDelete'
<1> SUFFICES ASSUME NEW s \in Replicas, NEW k \in Lists
             PROVE  LeaveByDelete(seq'[s][k], k, applied'[s])
  BY DEF EntriesOnlyLeaveByDelete, LeaveByDelete
<1>1. seq'[s][k] = IF s = r /\ k = list THEN l ELSE seq[s][k]
  BY DEF TypeInv, TypeOK
<1>2. applied'[s] = IF s = r THEN applied[s] \cup {op} ELSE applied[s]
  BY DEF TypeInv, TypeOK
<1>3. LeaveByDelete(seq[s][k], k, applied[s])
  BY LeaveByDeleteOfAll
<1>4. CASE s = r /\ k = list
  BY <1>1, <1>2, <1>4
<1>5. CASE s = r /\ k # list
  BY <1>1, <1>2, <1>3, <1>5, OtherLeaves
<1>6. CASE s # r
  BY <1>1, <1>2, <1>3, <1>6
<1>7. QED
  BY <1>4, <1>5, <1>6

LEMMA AppendLeaves ==
    ASSUME TypeInv, EntriesOnlyLeaveByDelete,
           NEW r \in Replicas, NEW list \in Lists, NEW v, AppendTo(r, list, v)
    PROVE  EntriesOnlyLeaveByDelete'
<1>1. PICK id \in FreshIds(seq[r][list], Actor(r), Positions) :
        LET op == [list |-> list, type |-> "Insert", id |-> id, val |-> v]
        IN  /\ seq' = [seq EXCEPT ![r][list] = Insert(seq[r][list], id, v)]
            /\ applied' = [applied EXCEPT ![r] = @ \cup {op}]
  BY DEF AppendTo
<1> DEFINE op == [list |-> list, type |-> "Insert", id |-> id, val |-> v]
<1>2. LeaveByDelete(seq[r][list], list, applied[r])
  BY LeaveByDeleteOfAll
<1>3. LeaveByDelete(Insert(seq[r][list], id, v), list, applied[r] \cup {op})
  BY <1>2, InsertLeaves
<1>4. op.list = list
  OBVIOUS
<1>5. QED
  BY <1>1, <1>3, <1>4, ChangeLeaves

LEMMA ApplyLeaves ==
    ASSUME TypeInv, EntriesOnlyLeaveByDelete,
           NEW r \in Replicas, NEW op \in ops, ApplyTo(r, op)
    PROVE  EntriesOnlyLeaveByDelete'
<1>1. PICK list \in Lists : op.list = list /\ (op \in Inserts(list) \/ op \in Removals)
  BY DEF TypeInv, TypeOK, Inserts, Removals
<1>2. LeaveByDelete(seq[r][list], list, applied[r])
  BY LeaveByDeleteOfAll
<1>3. LeaveByDelete(Apply(seq[r][list], op), list, applied[r] \cup {op})
  <2>1. CASE op \in Inserts(list)
    <3>1. /\ op = [list |-> list, type |-> "Insert", id |-> op.id, val |-> op.val]
          /\ Apply(seq[r][list], op) = Insert(seq[r][list], op.id, op.val)
      BY <2>1 DEF Inserts, Apply
    <3>2. QED
      BY <1>2, <3>1, InsertLeaves
  <2>2. CASE op \in Removals
    <3>1. /\ op = [list |-> list, type |-> "Delete", id |-> op.id]
          /\ Apply(seq[r][list], op) = Delete(seq[r][list], op.id)
      BY <1>1, <2>2 DEF Removals, Apply
    <3>2. QED
      BY <1>2, <3>1, DeleteLeaves
  <2>3. QED
    BY <1>1, <2>1, <2>2
<1>4. /\ seq' = [seq EXCEPT ![r][list] = Apply(seq[r][list], op)]
      /\ applied' = [applied EXCEPT ![r] = @ \cup {op}]
  BY <1>1 DEF ApplyTo
<1>5. QED
  BY <1>1, <1>3, <1>4, ChangeLeaves

LEMMA LeaveStep ==
    TypeInv /\ EntriesOnlyLeaveByDelete /\ [Next]_vars => EntriesOnlyLeaveByDelete'
<1> SUFFICES ASSUME TypeInv, EntriesOnlyLeaveByDelete, [Next]_vars
             PROVE  EntriesOnlyLeaveByDelete'
  OBVIOUS
<1>1. ASSUME NEW r \in Replicas, NEW s \in Replicas, Copy(r, s)
      PROVE  EntriesOnlyLeaveByDelete'
  <2>1. \A q \in Replicas : /\ seq'[q] = IF q = r THEN seq[s] ELSE seq[q]
                            /\ applied'[q] = IF q = r THEN applied[s] ELSE applied[q]
    BY <1>1 DEF Copy, TypeInv, TypeOK
  <2>2. QED
    BY <2>1 DEF EntriesOnlyLeaveByDelete
<1>2. ASSUME NEW r \in Replicas, NEW e \in Entries, AppendEntry(r, e)
      PROVE  EntriesOnlyLeaveByDelete'
  BY <1>2, AppendLeaves DEF AppendEntry, Lists
<1>3. ASSUME NEW r \in Replicas, NEW m \in PubMaps, SetPubPermissions(r, m)
      PROVE  EntriesOnlyLeaveByDelete'
  BY <1>3, AppendLeaves DEF SetPubPermissions, Lists
<1>4. ASSUME NEW r \in Replicas, NEW m \in PrivMaps, SetPrivatePermissions(r, m)
      PROVE  EntriesOnlyLeaveByDelete'
  BY <1>4, AppendLeaves DEF SetPrivatePermissions, Lists
<1>5. ASSUME NEW r \in Replicas, NEW k \in Keys, SetOwner(r, k)
      PROVE  EntriesOnlyLeaveByDelete'
  BY <1>5, AppendLeaves DEF SetOwner, Lists
<1>6. ASSUME NEW list \in Lists, SendDelete(list) PROVE EntriesOnlyLeaveByDelete'
  BY <1>6 DEF SendDelete, EntriesOnlyLeaveByDelete
<1>7. ASSUME NEW r \in Replicas, NEW op \in ops, Deliver(r, op)
      PROVE  EntriesOnlyLeaveByDelete'
  <2>1. ApplyTo(r, op)
    BY <1>7 DEF Deliver, ApplyCrdtOp, ApplyCrdtPubPermsOp, ApplyCrdtPrivatePermsOp,
                ApplyCrdtOwnerOp
  <2>2. QED
    BY <2>1, ApplyLeaves
<1>8. ASSUME UNCHANGED vars PROVE EntriesOnlyLeaveByDelete'
  BY <1>8 DEF vars, EntriesOnlyLeaveByDelete
<1>9. QED
  BY <1>1, <1>2, <1>3, <1>4, <1>5, <1>6, <1>7, <1>8 DEF Next

\* Whatever deletes are on the wire, in whatever order operations arrive: no entry
\* appears without its write and none goes without a delete of its identifier.
THEOREM EntriesOnlyLeaveByDeleteHolds == Spec => []EntriesOnlyLeaveByDelete
<1>1. Init => TypeInv /\ EntriesOnlyLeaveByDelete
  BY TypeInvInit DEF Init, EmptySeq, EntriesOnlyLeaveByDelete
<1>2. TypeInv /\ EntriesOnlyLeaveByDelete /\ [Next]_vars
        => TypeInv' /\ EntriesOnlyLeaveByDelete'
  BY TypeInvStep, LeaveStep
<1>3. QED
  BY <1>1, <1>2, PTL DEF Spec
=============================================================================
