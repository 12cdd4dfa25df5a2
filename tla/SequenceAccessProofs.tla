------------------------- MODULE SequenceAccessProofs --------------------------
(***************************************************************************)
(* What reads and access decisions find in a list, for any replicas, keys  *)
(* and permission maps and any number of operations.  While nothing is     *)
(* deleted, the entry at FromEnd(1), which the code asks for, is the       *)
(* newest write the copy has applied.  Reads by an index follow the order  *)
(* of the identifiers, also when entries are deleted.                      *)
(***************************************************************************)
EXTENDS SequenceLogProofs, FunctionTheorems

LEMMA BeforeAsymmetric ==
    ASSUME NEW a \in Ids, NEW b \in Ids, Before(a, b)
    PROVE  ~Before(b, a)
<1>1. /\ a[1] \in Nat /\ a[2] \in Nat
      /\ b[1] \in Nat /\ b[2] \in Nat
  BY PositionsAssumption, ReplicasAssumption DEF Ids, Actor
<1>2. QED
  BY <1>1 DEF Before

\* A finite list of entries with identifiers of their own.
Listing(l) ==
    /\ IsFiniteSet(l)
    /\ \A e \in l : e.id \in Ids
    /\ \A e, x \in l : e.id = x.id => e = x

\* FromEnd(1) of a list is its last entry (get, owner, permissions: to_absolute_index).
LEMMA LastIsFromEnd ==
    ASSUME NEW l, Listing(l)
    PROVE  Get(l, FromEnd(1)) = LastEntry(l)
<1> DEFINE n == Cardinality(l)
           Earlier(e) == {x \in l : Before(x.id, e.id)}
<1>1. n \in Nat /\ (n = 0 <=> l = {})
  BY FS_CardinalityType, FS_EmptySet DEF Listing
<1>2. CASE l = {}
  <2>1. ToAbsoluteIndex(FromEnd(1), Size(l)) = {}
    BY <1>1, <1>2 DEF ToAbsoluteIndex, FromEnd, Size
  <2>2. QED
    BY <1>2, <2>1 DEF Get, LastEntry
<1>3. CASE l # {}
  <2>1. ToAbsoluteIndex(FromEnd(1), Size(l)) = {n - 1}
    <3> HIDE DEF n
    <3>1. Size(l) = n /\ n \in Nat /\ n # 0
      BY <1>1, <1>3 DEF n, Size
    <3>2. QED
      BY <3>1 DEF ToAbsoluteIndex, FromEnd
  <2>2. Get(l, FromEnd(1)) = Nth(l, n - 1)
    BY <2>1 DEF Get
  <2>3. ASSUME NEW e \in l
        PROVE  Cardinality(Earlier(e)) = n - 1 <=> \A x \in l : ~Before(e.id, x.id)
    <3>1. Earlier(e) \subseteq l \ {e}
      BY BeforeIrreflexive DEF Listing
    <3>2. IsFiniteSet(l \ {e}) /\ Cardinality(l \ {e}) = n - 1
      BY FS_RemoveElement DEF Listing
    <3>3. Cardinality(Earlier(e)) = n - 1 <=> Earlier(e) = l \ {e}
      BY <3>1, <3>2, FS_Subset
    <3>4. Earlier(e) = l \ {e} <=> \A x \in l : ~Before(e.id, x.id)
      BY <3>1, BeforeTotal, BeforeAsymmetric, BeforeIrreflexive DEF Listing
    <3>5. QED
      BY <3>3, <3>4
  <2>4. Nth(l, n - 1) = {e \in l : Cardinality(Earlier(e)) = n - 1}
    BY DEF Nth
  <2>5. QED
    BY <2>2, <2>3, <2>4 DEF LastEntry
<1>4. QED
  BY <1>2, <1>3

\* There is at most one last entry.
LEMMA LastIsOne ==
    ASSUME NEW l, Listing(l), NEW e \in LastEntry(l), NEW x \in LastEntry(l)
    PROVE  e = x
BY BeforeTotal DEF Listing, LastEntry

LEMMA ListsAreListings ==
    ConvergenceInv => \A r \in Replicas : \A list \in Lists : Listing(seq[r][list])
<1> SUFFICES ASSUME ConvergenceInv, NEW r \in Replicas, NEW list \in Lists
             PROVE  Listing(seq[r][list])
  OBVIOUS
<1>1. IsFiniteSet(seq[r][list]) /\ seq[r][list] \subseteq Elements(list)
  BY DEF ConvergenceInv, TypeInv, TypeOK, FiniteLists
<1>2. \A e \in seq[r][list] : e.id \in Ids
  BY <1>1 DEF Elements
<1>3. ASSUME NEW e \in seq[r][list], NEW x \in seq[r][list], e.id = x.id PROVE e = x
  <2>1. PICK o \in applied[r] : o.list = list /\ e = [id |-> o.id, val |-> o.val]
    BY DEF ConvergenceInv, StateIsAppliedOps, WritesIn
  <2>2. PICK p \in applied[r] : p.list = list /\ x = [id |-> p.id, val |-> p.val]
    BY DEF ConvergenceInv, StateIsAppliedOps, WritesIn
  <2>3. o \in ops /\ p \in ops /\ o.type = "Insert" /\ p.type = "Insert"
    BY DEF ConvergenceInv, TypeInv, TypeOK
  <2>4. o = p
    BY <1>3, <2>1, <2>2, <2>3 DEF ConvergenceInv, UniqueIds
  <2>5. QED
    BY <2>1, <2>2, <2>4
<1>4. QED
  BY <1>1, <1>2, <1>3 DEF Listing

\* And so they are after a step.
LEMMA ListsAreListingsAfter ==
    ConvergenceInv' => \A r \in Replicas : \A list \in Lists : Listing(seq'[r][list])
<1>1. (ConvergenceInv => \A r \in Replicas : \A list \in Lists : Listing(seq[r][list]))'
  BY ListsAreListings, PTL
<1>2. QED
  BY <1>1 DEF Listing

\* The last entry of a copy is the newest write that it has applied.
LEMMA LastIsNewest ==
    ASSUME ConvergenceInv, NEW r \in Replicas, NEW list \in Lists
    PROVE  /\ \A e \in LastEntry(seq[r][list]) : \E o \in Newest(r, list) : e.val = o.val
           /\ \A o \in Newest(r, list) : \E e \in LastEntry(seq[r][list]) : e.val = o.val
<1>1. seq[r][list] = {[id |-> o.id, val |-> o.val] : o \in {p \in applied[r] : p.list = list}}
  BY DEF ConvergenceInv, StateIsAppliedOps, WritesIn
<1> DEFINE entry(o) == [id |-> o.id, val |-> o.val]
<1>2. ASSUME NEW o \in applied[r], o.list = list
      PROVE  entry(o) \in LastEntry(seq[r][list]) <=> o \in Newest(r, list)
  <2>1. entry(o) \in seq[r][list] /\ entry(o).id = o.id
    BY <1>1, <1>2
  <2>2. (\A x \in seq[r][list] : ~Before(o.id, x.id))
          <=> \A q \in applied[r] : q.list = list => ~Before(o.id, q.id)
    <3>1. \A q \in applied[r] : q.list = list => entry(q) \in seq[r][list] /\ entry(q).id = q.id
      BY <1>1
    <3>2. \A x \in seq[r][list] : \E q \in applied[r] : q.list = list /\ x.id = q.id
      BY <1>1
    <3> HIDE DEF entry
    <3>3. QED
      BY <3>1, <3>2
  <2> HIDE DEF entry
  <2>3. QED
    BY <1>2, <2>1, <2>2 DEF LastEntry, Newest
<1>3. \A e \in LastEntry(seq[r][list]) : \E o \in applied[r] : o.list = list /\ e = entry(o)
  BY <1>1 DEF LastEntry
<1>4. \A o \in Newest(r, list) : o \in applied[r] /\ o.list = list
  BY DEF Newest
<1>5. \A o : entry(o).val = o.val
  OBVIOUS
<1> HIDE DEF entry
<1>6. \A e \in LastEntry(seq[r][list]) : \E o \in Newest(r, list) : e.val = o.val
  BY <1>2, <1>3, <1>5
<1>7. \A o \in Newest(r, list) : \E e \in LastEntry(seq[r][list]) : e.val = o.val
  BY <1>2, <1>4, <1>5
<1>8. QED
  BY <1>6, <1>7

\* check_is_last_owner asks the last entry of the owners.
LEMMA OwnerCheck ==
    ASSUME NEW s, Listing(s.owners), NEW k
    PROVE  CheckIsLastOwner(s, k) = "Ok" <=>
             \E o \in LastEntry(s.owners) : o.val.public_key = k
<1>1. Owner(s, FromEnd(1)) = LastEntry(s.owners)
  BY LastIsFromEnd DEF Owner
<1>2. QED
  BY <1>1 DEF CheckIsLastOwner

\* is_action_allowed of public and private permissions, where it is asked.
LEMMA MapCheck ==
    ASSUME NEW map, NEW k, NEW action \in Actions, ~(Kind = "Public" /\ action = "read")
    PROVE  IsActionAllowed(map, k, action) = "Ok" <=> MapGrants(map, k, action)
<1>1. CASE Kind = "Public"
  BY <1>1 DEF IsActionAllowed, PubIsActionAllowed, IsActionAllowedByUser, PubIsAllowed, MapGrants
<1>2. CASE Kind = "Private"
  BY <1>2 DEF IsActionAllowed, PrivIsActionAllowed, MapGrants
<1>3. QED
  BY <1>1, <1>2, KindAssumption

\* check_permission of a copy, said with its last entries only.
Access(owners, permissions, action, k) ==
    \/ Kind = "Public" /\ action = "read"
    \/ \E o \in owners : o.val.public_key = k
    \/ \E p \in permissions : MapGrants(p.val.permissions, k, action)

LEMMA PermissionCheck ==
    ASSUME NEW s, Listing(s.owners), Listing(s.permissions), NEW k, NEW action \in Actions
    PROVE  CheckPermission(s, action, k) = "Ok" <=>
             Access(LastEntry(s.owners), LastEntry(s.permissions), action, k)
<1> DEFINE perms == Permissions(s, FromEnd(1))
           last == LastEntry(s.permissions)
<1>1. perms = last
  BY LastIsFromEnd DEF Permissions
<1>2. CASE \/ Kind = "Public" /\ action = "read"
           \/ CheckIsLastOwner(s, k) = "Ok"
  BY <1>2, OwnerCheck DEF CheckPermission, Access
<1>3. CASE ~(\/ Kind = "Public" /\ action = "read"
             \/ CheckIsLastOwner(s, k) = "Ok")
  <2>1. Access(LastEntry(s.owners), last, action, k)
          <=> \E p \in last : MapGrants(p.val.permissions, k, action)
    BY <1>3, OwnerCheck DEF Access
  <2>2. CASE last = {}
    BY <1>1, <1>3, <2>1, <2>2 DEF CheckPermission
  <2>3. CASE last # {}
    <3> DEFINE p == CHOOSE p \in perms : TRUE
    <3>1. p \in last /\ last = {p}
      BY <1>1, <2>3, LastIsOne
    <3>2. CheckPermission(s, action, k) = IsActionAllowed(p.val.permissions, k, action)
      BY <1>1, <1>3, <2>3 DEF CheckPermission
    <3>3. QED
      BY <1>3, <2>1, <3>1, <3>2, MapCheck
  <2>4. QED
    BY <2>2, <2>3
<1>4. QED
  BY <1>2, <1>3

\* check_permission says yes exactly for public reads, for the owner of the newest
\* owner write known, and for whom the newest permissions grant the action.
THEOREM AccessIsDecidedByNewestWritesHolds ==
    ASSUME Deletes = FALSE
    PROVE  Spec => []AccessIsDecidedByNewestWrites
<1>1. ASSUME ConvergenceInv PROVE AccessIsDecidedByNewestWrites
  <2> SUFFICES ASSUME NEW r \in live, NEW k \in Keys, NEW action \in Actions
               PROVE  CheckPermission(seq[r], action, k) = "Ok" <=>
                        \/ Kind = "Public" /\ action = "read"
                        \/ \E o \in Newest(r, "owners") : o.val.public_key = k
                        \/ \E p \in Newest(r, "permissions") :
                             MapGrants(p.val.permissions, k, action)
    BY DEF AccessIsDecidedByNewestWrites
  <2>1. r \in Replicas
    BY <1>1 DEF ConvergenceInv, TypeInv, TypeOK
  <2>2. CheckPermission(seq[r], action, k) = "Ok" <=>
          Access(LastEntry(seq[r].owners), LastEntry(seq[r].permissions), action, k)
    BY <1>1, <2>1, ListsAreListings, PermissionCheck DEF Lists
  <2>3. \A list \in Lists :
          /\ \A e \in LastEntry(seq[r][list]) : \E o \in Newest(r, list) : e.val = o.val
          /\ \A o \in Newest(r, list) : \E e \in LastEntry(seq[r][list]) : e.val = o.val
    BY <1>1, <2>1, LastIsNewest
  <2>4. (\E o \in LastEntry(seq[r].owners) : o.val.public_key = k)
          <=> \E o \in Newest(r, "owners") : o.val.public_key = k
    BY <2>3 DEF Lists
  <2>5. (\E p \in LastEntry(seq[r].permissions) : MapGrants(p.val.permissions, k, action))
          <=> \E p \in Newest(r, "permissions") : MapGrants(p.val.permissions, k, action)
    BY <2>3 DEF Lists
  <2>6. QED
    BY <2>2, <2>4, <2>5 DEF Access
<1>2. QED
  BY <1>1, ConvergenceInvariant, PTL

-----------------------------------------------------------------------------
\* What a step can do to an access decision.

LEMMA BeforeTransitive ==
    ASSUME NEW a \in Ids, NEW b \in Ids, NEW c \in Ids, Before(a, b), Before(b, c)
    PROVE  Before(a, c)
<1>1. /\ a[1] \in Nat /\ a[2] \in Nat
      /\ b[1] \in Nat /\ b[2] \in Nat
      /\ c[1] \in Nat /\ c[2] \in Nat
  BY PositionsAssumption, ReplicasAssumption DEF Ids, Actor
<1>2. QED
  BY <1>1 DEF Before

\* The last entry of m comes after the last one of l.
HasNewer(l, m) ==
    \E new \in LastEntry(m) : \A old \in LastEntry(l) : Before(old.id, new.id)

\* One more entry in a list becomes the last one, or the last one stays.
LEMMA OneMoreEntry ==
    ASSUME NEW l, NEW m, Listing(l), Listing(m), NEW e, l \subseteq m, m \subseteq l \cup {e}
    PROVE  LastEntry(m) = LastEntry(l) \/ HasNewer(l, m)
<1>1. CASE e \in l \/ e \notin m
  <2>1. m = l
    BY <1>1
  <2>2. QED
    BY <2>1
<1>2. CASE e \notin l /\ e \in m
  <2>1. m = l \cup {e} /\ e.id \in Ids
    BY <1>2 DEF Listing
  <2>2. \A x \in l : x.id \in Ids /\ x.id # e.id
    BY <1>2 DEF Listing
  <2>3. CASE \E x \in l : Before(e.id, x.id)
    <3>1. e \notin LastEntry(m)
      BY <2>1, <2>3 DEF LastEntry
    <3>2. ASSUME NEW y \in LastEntry(l) PROVE y \in LastEntry(m)
      <4>1. y \in l /\ \A x \in l : ~Before(y.id, x.id)
        BY DEF LastEntry
      <4>2. ~Before(y.id, e.id)
        BY <2>1, <2>2, <2>3, <4>1, BeforeTransitive
      <4>3. QED
        BY <2>1, <4>1, <4>2 DEF LastEntry
    <3>3. LastEntry(m) \subseteq LastEntry(l)
      BY <2>1, <3>1 DEF LastEntry
    <3>4. QED
      BY <3>2, <3>3
  <2>4. CASE \A x \in l : ~Before(e.id, x.id)
    <3>1. e \in LastEntry(m)
      BY <2>1, <2>4, BeforeIrreflexive DEF LastEntry
    <3>2. \A old \in LastEntry(l) : Before(old.id, e.id)
      BY <2>1, <2>2, <2>4, BeforeTotal DEF LastEntry
    <3>3. QED
      BY <3>1, <3>2 DEF HasNewer
  <2>5. QED
    BY <2>3, <2>4
<1>3. QED
  BY <1>1, <1>2

\* A step lets a replica that holds a copy apply at most one more operation.
LEMMA OneMoreOperation ==
    ASSUME ConvergenceInv, [Next]_vars, NEW r \in live
    PROVE  /\ r \in live'
           /\ \E op : applied[r] \subseteq applied'[r] /\ applied'[r] \subseteq applied[r] \cup {op}
<1> DEFINE Goal == /\ r \in live'
                   /\ \E op : /\ applied[r] \subseteq applied'[r]
                              /\ applied'[r] \subseteq applied[r] \cup {op}
<1>0. applied = [s \in Replicas |-> applied[s]] /\ r \in Replicas
  BY DEF ConvergenceInv, TypeInv, TypeOK
<1>1. ASSUME NEW q \in Replicas, NEW s \in Replicas, Copy(q, s) PROVE Goal
  BY <1>0, <1>1 DEF Copy
<1>2. ASSUME NEW q \in Replicas, NEW list, NEW v, AppendTo(q, list, v) PROVE Goal
  <2>1. PICK op : applied' = [applied EXCEPT ![q] = @ \cup {op}] /\ live' = live
    BY <1>2 DEF AppendTo
  <2>2. QED
    BY <1>0, <2>1
<1>3. ASSUME NEW q \in Replicas, NEW op, ApplyTo(q, op) PROVE Goal
  BY <1>0, <1>3 DEF ApplyTo
<1>4. ASSUME NEW list, SendDelete(list) PROVE Goal
  BY <1>4 DEF SendDelete
<1>5. ASSUME UNCHANGED vars PROVE Goal
  BY <1>5 DEF vars
<1>6. QED
  BY <1>1, <1>2, <1>3, <1>4, <1>5
     DEF Next, AppendEntry, SetPubPermissions, SetPrivatePermissions, SetOwner, Deliver,
         ApplyCrdtOp, ApplyCrdtPubPermsOp, ApplyCrdtPrivatePermsOp, ApplyCrdtOwnerOp

LEMMA OneMoreInList ==
    ASSUME ConvergenceInv, ConvergenceInv', [Next]_vars, NEW r \in live, NEW list \in Lists
    PROVE  \/ LastEntry(seq'[r][list]) = LastEntry(seq[r][list])
           \/ HasNewer(seq[r][list], seq'[r][list])
<1>1. PICK op : applied[r] \subseteq applied'[r] /\ applied'[r] \subseteq applied[r] \cup {op}
  BY OneMoreOperation
<1>2. r \in Replicas /\ r \in live'
  BY OneMoreOperation DEF ConvergenceInv, TypeInv, TypeOK
<1>3. seq[r][list] = WritesIn(applied[r], list) /\ seq'[r][list] = WritesIn(applied'[r], list)
  BY <1>2 DEF ConvergenceInv, StateIsAppliedOps
<1>4. /\ seq[r][list] \subseteq seq'[r][list]
      /\ seq'[r][list] \subseteq seq[r][list] \cup {[id |-> op.id, val |-> op.val]}
  BY <1>1, <1>3 DEF WritesIn
<1>5. Listing(seq[r][list])
  BY <1>2, ListsAreListings
<1>6. Listing(seq'[r][list])
  BY <1>2, ListsAreListingsAfter
<1>7. QED
  BY <1>4, <1>5, <1>6, OneMoreEntry

LEMMA TwoAnswers ==
    ASSUME NEW s, NEW k, NEW action
    PROVE  CheckPermission(s, action, k) \in {"Ok", "AccessDenied"}
BY DEF CheckPermission, IsActionAllowed, PubIsActionAllowed, PrivIsActionAllowed

\* An access decision of a replica only changes in a step that gives it an owner or
\* permissions entry after all those it had: what is late or repeated has no effect.
THEOREM StaleOpsNeverChangeAccessHolds ==
    ASSUME Deletes = FALSE
    PROVE  Spec => StaleOpsNeverChangeAccess
<1> DEFINE Step ==
      \A r \in live : \A k \in Keys, action \in Actions :
         CheckPermission(seq[r], action, k)' # CheckPermission(seq[r], action, k) =>
            \E list \in {"owners", "permissions"} :
                \E new \in LastId(r, list)' : \A old \in LastId(r, list) : Before(old, new)
<1>1. ASSUME ConvergenceInv, ConvergenceInv', [Next]_vars PROVE Step
  <2> SUFFICES ASSUME NEW r \in live, NEW k \in Keys, NEW action \in Actions,
                      CheckPermission(seq'[r], action, k) # CheckPermission(seq[r], action, k)
               PROVE  \E list \in {"owners", "permissions"} :
                        \E new \in LastId(r, list)' : \A old \in LastId(r, list) : Before(old, new)
    OBVIOUS
  <2>1. r \in Replicas
    BY <1>1 DEF ConvergenceInv, TypeInv, TypeOK
  <2>2. /\ CheckPermission(seq[r], action, k) = "Ok" <=>
             Access(LastEntry(seq[r].owners), LastEntry(seq[r].permissions), action, k)
        /\ CheckPermission(seq'[r], action, k) = "Ok" <=>
             Access(LastEntry(seq'[r].owners), LastEntry(seq'[r].permissions), action, k)
    BY <1>1, <2>1, ListsAreListings, ListsAreListingsAfter, PermissionCheck DEF Lists
  <2>3. \/ LastEntry(seq'[r].owners) # LastEntry(seq[r].owners)
        \/ LastEntry(seq'[r].permissions) # LastEntry(seq[r].permissions)
    BY <2>2, TwoAnswers
  <2>4. PICK list \in {"owners", "permissions"} : HasNewer(seq[r][list], seq'[r][list])
    BY <1>1, <2>3, OneMoreInList DEF Lists
  <2>5. QED
    BY <2>4 DEF HasNewer, LastId
<1>2. ConvergenceInv /\ ConvergenceInv' /\ [Next]_vars => [Step]_vars
  BY <1>1
<1>3. QED
  BY <1>2, ConvergenceInvariant, PTL DEF Spec, StaleOpsNeverChangeAccess
-----------------------------------------------------------------------------
\* The indices that entries record.

\* The indices of a value of a list point into the other lists of S's writes.
Resolves(list, v, S) ==
    /\ list = "owners" => /\ v.entries_index <= Cardinality(WritesIn(S, "data"))
                          /\ v.permissions_index <= Cardinality(WritesIn(S, "permissions"))
    /\ list = "permissions" => /\ v.entries_index <= Cardinality(WritesIn(S, "data"))
                               /\ v.owners_index <= Cardinality(WritesIn(S, "owners"))

\* Inductive: every index that was ever recorded resolves among all writes.
IndexInv ==
    /\ \A list \in Lists : IsFiniteSet(WritesIn(ops, list))
    /\ \A op \in ops : Resolves(op.list, op.val, ops)

\* More operations never make a list shorter.
LEMMA MoreWritesCount ==
    ASSUME NEW S, NEW T, S \subseteq T, NEW list, IsFiniteSet(WritesIn(T, list))
    PROVE  /\ Cardinality(WritesIn(S, list)) \in Nat
           /\ Cardinality(WritesIn(T, list)) \in Nat
           /\ Cardinality(WritesIn(S, list)) <= Cardinality(WritesIn(T, list))
<1>1. WritesIn(S, list) \subseteq WritesIn(T, list)
  BY DEF WritesIn
<1>2. QED
  BY <1>1, FS_Subset, FS_CardinalityType

\* So what resolves goes on to resolve.
LEMMA StillResolves ==
    ASSUME NEW S, NEW T, S \subseteq T, \A list \in Lists : IsFiniteSet(WritesIn(T, list)),
           NEW list \in Lists, NEW v \in Values(list), Resolves(list, v, S)
    PROVE  Resolves(list, v, T)
<1>1. \A l \in Lists : /\ Cardinality(WritesIn(S, l)) \in Nat
                       /\ Cardinality(WritesIn(T, l)) \in Nat
                       /\ Cardinality(WritesIn(S, l)) <= Cardinality(WritesIn(T, l))
  BY MoreWritesCount
<1>2. list = "owners" => v.entries_index \in Nat /\ v.permissions_index \in Nat
  BY DEF Values, OwnerEntries
<1>3. list = "permissions" => v.entries_index \in Nat /\ v.owners_index \in Nat
  BY DEF Values, PermissionsEntries
<1>4. QED
  BY <1>1, <1>2, <1>3 DEF Resolves, Lists

\* What a writer records are the lengths of its own lists (append_owner and the
\* set_permissions calls take entries_index, owners_index and permissions_index).
LEMMA RecordedResolve ==
    ASSUME ConvergenceInv, NEW r \in Replicas
    PROVE  /\ \A e \in Entries : Resolves("data", e, applied[r])
           /\ \A m : Resolves("permissions", PermissionsEntry(seq[r], m), applied[r])
           /\ \A k : Resolves("owners", OwnerEntry(seq[r], k), applied[r])
<1>1. \A list \in Lists : seq[r][list] = WritesIn(applied[r], list)
  BY DEF ConvergenceInv, StateIsAppliedOps
<1>2. /\ EntriesIndex(seq[r]) = Cardinality(WritesIn(applied[r], "data"))
      /\ OwnersIndex(seq[r]) = Cardinality(WritesIn(applied[r], "owners"))
      /\ PermissionsIndex(seq[r]) = Cardinality(WritesIn(applied[r], "permissions"))
  BY <1>1 DEF EntriesIndex, OwnersIndex, PermissionsIndex, Size, Lists
<1>3. /\ EntriesIndex(seq[r]) \in Nat /\ OwnersIndex(seq[r]) \in Nat
      /\ PermissionsIndex(seq[r]) \in Nat
  BY IndexType DEF ConvergenceInv
<1>4. QED
  BY <1>2, <1>3 DEF Resolves, PermissionsEntry, OwnerEntry

LEMMA AppendResolves ==
    ASSUME ConvergenceInv, IndexInv, NEW r \in Replicas, NEW list \in Lists,
           NEW v \in Values(list), Resolves(list, v, applied[r]), AppendTo(r, list, v)
    PROVE  IndexInv'
<1>1. PICK id : ops' = ops \cup {[list |-> list, type |-> "Insert", id |-> id, val |-> v]}
  BY DEF AppendTo
<1> DEFINE op == [list |-> list, type |-> "Insert", id |-> id, val |-> v]
<1>2. op.list = list /\ op.val = v /\ op.id = id
  OBVIOUS
<1> HIDE DEF op
<1>3. \A l \in Lists : IsFiniteSet(WritesIn(ops', l))
  <2> SUFFICES ASSUME NEW l \in Lists PROVE IsFiniteSet(WritesIn(ops', l))
    OBVIOUS
  <2>1. WritesIn(ops', l) \subseteq WritesIn(ops, l) \cup {[id |-> id, val |-> v]}
    BY <1>1, <1>2 DEF WritesIn, op
  <2>2. IsFiniteSet(WritesIn(ops, l) \cup {[id |-> id, val |-> v]})
    BY FS_AddElement DEF IndexInv
  <2>3. QED
    BY <2>1, <2>2, FS_Subset
<1>4. ASSUME NEW o \in ops PROVE Resolves(o.list, o.val, ops')
  <2>1. o.list \in Lists /\ o.val \in Values(o.list)
    BY DEF ConvergenceInv, TypeInv, TypeOK, Inserts, Removals
  <2>2. QED
    BY <1>1, <1>3, <2>1, StillResolves DEF IndexInv
<1>5. Resolves(list, v, ops')
  <2>1. applied[r] \subseteq ops'
    BY <1>1 DEF ConvergenceInv, TypeInv, TypeOK
  <2>2. QED
    BY <1>3, <2>1, StillResolves
<1>6. QED
  BY <1>1, <1>2, <1>3, <1>4, <1>5 DEF IndexInv, op

LEMMA IndexStep ==
    ASSUME Deletes = FALSE
    PROVE  ConvergenceInv /\ IndexInv /\ [Next]_vars => IndexInv'
<1> SUFFICES ASSUME ConvergenceInv, IndexInv, [Next]_vars PROVE IndexInv'
  OBVIOUS
<1>0. TypeInv
  BY DEF ConvergenceInv
<1>1. ASSUME ops' = ops PROVE IndexInv'
  BY <1>1 DEF IndexInv
<1>2. ASSUME NEW r \in Replicas, NEW e \in Entries, AppendEntry(r, e) PROVE IndexInv'
  BY <1>0, <1>2, AppendedValues, RecordedResolve, AppendResolves DEF AppendEntry, Lists
<1>3. ASSUME NEW r \in Replicas, NEW m \in PubMaps, SetPubPermissions(r, m) PROVE IndexInv'
  BY <1>0, <1>3, AppendedValues, RecordedResolve, AppendResolves DEF SetPubPermissions, Lists
<1>4. ASSUME NEW r \in Replicas, NEW m \in PrivMaps, SetPrivatePermissions(r, m)
      PROVE  IndexInv'
  BY <1>0, <1>4, AppendedValues, RecordedResolve, AppendResolves
     DEF SetPrivatePermissions, Lists
<1>5. ASSUME NEW r \in Replicas, NEW k \in Keys, SetOwner(r, k) PROVE IndexInv'
  BY <1>0, <1>5, AppendedValues, RecordedResolve, AppendResolves DEF SetOwner, Lists
<1>6. ASSUME NEW r, NEW s, Copy(r, s) PROVE ops' = ops
  BY <1>6 DEF Copy
<1>7. ASSUME NEW r, NEW op, Deliver(r, op) PROVE ops' = ops
  BY <1>7 DEF Deliver, ApplyTo, ApplyCrdtOp, ApplyCrdtPubPermsOp, ApplyCrdtPrivatePermsOp,
              ApplyCrdtOwnerOp
<1>8. ASSUME NEW list, SendDelete(list) PROVE FALSE
  BY <1>8 DEF SendDelete
<1>9. QED
  BY <1>1, <1>2, <1>3, <1>4, <1>5, <1>6, <1>7, <1>8 DEF Next, vars

\* A replica that has caught up finds every index recorded in its owner and
\* permissions entries within the list it points into, whoever recorded it and
\* whatever else was written meanwhile (entries_index, owners_index and
\* permissions_index of append_owner and the set_permissions calls, seq_crdt.rs:181, mod.rs:226).
THEOREM RecordedIndicesResolveHolds ==
    ASSUME Deletes = FALSE
    PROVE  Spec => []RecordedIndicesResolve
<1>1. Init => IndexInv
  <2> SUFFICES ASSUME Init PROVE IndexInv
    OBVIOUS
  <2>1. ops = {} /\ \A list : WritesIn(ops, list) = {}
    BY DEF Init, WritesIn
  <2>2. QED
    BY <2>1, FS_EmptySet DEF IndexInv
<1>2. Spec => []IndexInv
  BY <1>1, IndexStep, ConvergenceInvariant, PTL DEF Spec
<1>3. ASSUME ConvergenceInv, IndexInv PROVE RecordedIndicesResolve
  <2> SUFFICES ASSUME NEW r \in live, applied[r] = ops
               PROVE  /\ \A o \in seq[r].owners :
                           /\ o.val.entries_index <= EntriesIndex(seq[r])
                           /\ o.val.permissions_index <= PermissionsIndex(seq[r])
                      /\ \A p \in seq[r].permissions :
                           /\ p.val.entries_index <= EntriesIndex(seq[r])
                           /\ p.val.owners_index <= OwnersIndex(seq[r])
    BY DEF RecordedIndicesResolve
  <2>1. r \in Replicas
    BY <1>3 DEF ConvergenceInv, TypeInv, TypeOK
  <2>2. \A list \in Lists : seq[r][list] = WritesIn(ops, list)
    BY <1>3, <2>1 DEF ConvergenceInv, StateIsAppliedOps
  <2>3. \A list \in Lists : \A e \in seq[r][list] : Resolves(list, e.val, ops)
    BY <1>3, <2>2 DEF IndexInv, WritesIn
  <2>4. QED
    BY <2>2, <2>3 DEF Resolves, EntriesIndex, OwnersIndex, PermissionsIndex, Size, Lists
<1>4. QED
  BY <1>2, <1>3, ConvergenceInvariant, PTL
-----------------------------------------------------------------------------
\* Reads of one list, deletes included.

\* The entries of l before e, and how many they are.
Earlier(l, e) == {x \in l : Before(x.id, e.id)}
Rank(l, e) == Cardinality(Earlier(l, e))

\* Ranks are below the length of the list and follow the order of the identifiers.
LEMMA RanksFollowTheOrder ==
    ASSUME NEW l, Listing(l)
    PROVE  /\ Cardinality(l) \in Nat
           /\ \A e \in l : Rank(l, e) \in 0 .. (Cardinality(l) - 1)
           /\ \A e, x \in l : Before(e.id, x.id) => Rank(l, e) < Rank(l, x)
<1>1. Cardinality(l) \in Nat
  BY FS_CardinalityType DEF Listing
<1>2. ASSUME NEW e \in l
      PROVE  IsFiniteSet(Earlier(l, e)) /\ Rank(l, e) \in Nat /\ Rank(l, e) <= Cardinality(l) - 1
  <2>1. Earlier(l, e) \subseteq l \ {e}
    BY BeforeIrreflexive DEF Listing, Earlier
  <2>2. IsFiniteSet(l \ {e}) /\ Cardinality(l \ {e}) = Cardinality(l) - 1
    BY FS_RemoveElement DEF Listing
  <2>3. QED
    BY <2>1, <2>2, FS_Subset, FS_CardinalityType DEF Rank
<1>3. ASSUME NEW e \in l, NEW x \in l, Before(e.id, x.id)
      PROVE  Rank(l, e) < Rank(l, x)
  <2>1. Earlier(l, e) \subseteq Earlier(l, x)
    BY <1>3, BeforeTransitive DEF Listing, Earlier
  <2>2. e \in Earlier(l, x) /\ e \notin Earlier(l, e)
    BY <1>3, BeforeIrreflexive DEF Listing, Earlier
  <2>3. /\ Rank(l, e) <= Rank(l, x)
        /\ Rank(l, e) = Rank(l, x) => Earlier(l, e) = Earlier(l, x)
    BY <1>2, <2>1, FS_Subset DEF Rank
  <2>4. QED
    BY <1>2, <2>2, <2>3
<1>4. QED
  BY <1>1, <1>2, <1>3

\* Every rank below the length is that of one entry.
LEMMA RanksAreIndices ==
    ASSUME NEW l, Listing(l), NEW i \in 0 .. (Cardinality(l) - 1)
    PROVE  \E e \in l : Rank(l, e) = i
<1> DEFINE n == Cardinality(l)
           rank == [e \in l |-> Rank(l, e)]
<1>1. n \in Nat /\ \A e \in l : Rank(l, e) \in 0 .. (n - 1)
  BY RanksFollowTheOrder
<1>2. ASSUME NEW e \in l, NEW x \in l, Rank(l, e) = Rank(l, x) PROVE e = x
  BY <1>1, <1>2, RanksFollowTheOrder, BeforeTotal DEF Listing
<1> HIDE DEF n
<1>3. rank \in Injection(l, 0 .. (n - 1))
  BY <1>1, <1>2, Fun_IsInj
<1>4. IsFiniteSet(0 .. (n - 1)) /\ Cardinality(0 .. (n - 1)) = n
  BY <1>1, FS_Interval
<1>5. rank \in Surjection(l, 0 .. (n - 1))
  BY <1>3, <1>4, FS_Injection DEF n
<1>6. \A k \in 0 .. (n - 1) : \E e \in l : rank[e] = k
  BY <1>5 DEF Surjection
<1>7. QED
  BY <1>6 DEF n

Ordered(l, list) ==
    /\ list \in [1 .. Cardinality(l) -> l]
    /\ \A i, j \in DOMAIN list : i < j => Before(list[i].id, list[j].id)

\* There is an ordered numbering.
LEMMA OrderedExists ==
    ASSUME NEW l, Listing(l)
    PROVE  Ordered(l, InOrder(l))
<1> DEFINE n == Cardinality(l)
           list == [i \in 1 .. n |-> CHOOSE e \in l : Rank(l, e) = i - 1]
<1>1. n \in Nat
  BY RanksFollowTheOrder
<1>2. ASSUME NEW i \in 1 .. n PROVE list[i] \in l /\ Rank(l, list[i]) = i - 1
  <2>1. i - 1 \in 0 .. (n - 1)
    BY <1>1
  <2>2. \E e \in l : Rank(l, e) = i - 1
    BY <2>1, RanksAreIndices
  <2>3. QED
    BY <2>2
<1> HIDE DEF list, n
<1>3. list \in [1 .. n -> l]
  BY <1>2 DEF list
<1>4. ASSUME NEW i \in 1 .. n, NEW j \in 1 .. n, i < j
      PROVE  Before(list[i].id, list[j].id)
  <2>1. ~Before(list[j].id, list[i].id) /\ list[i] # list[j]
    <3>1. /\ list[i] \in l /\ Rank(l, list[i]) = i - 1
          /\ list[j] \in l /\ Rank(l, list[j]) = j - 1
      BY <1>2
    <3>2. Before(list[j].id, list[i].id) => Rank(l, list[j]) < Rank(l, list[i])
      BY <3>1, RanksFollowTheOrder
    <3>3. QED
      BY <1>1, <1>4, <3>1, <3>2
  <2>2. QED
    BY <1>2, <2>1, BeforeTotal DEF Listing
<1>5. Ordered(l, list)
  BY <1>3, <1>4 DEF Ordered, n
<1>6. QED
  BY <1>5 DEF Ordered, InOrder, Size

\* In an ordered numbering an entry comes after as many as its number says.
LEMMA RankIsNumber ==
    ASSUME NEW l, Listing(l), NEW list, Ordered(l, list), NEW i \in 1 .. Cardinality(l)
    PROVE  Rank(l, list[i]) = i - 1
<1> DEFINE n == Cardinality(l)
           first == [k \in 1 .. (i - 1) |-> list[k]]
<1>1. n \in Nat /\ IsFiniteSet(l)
  BY RanksFollowTheOrder DEF Listing
<1>2. /\ list \in [1 .. n -> l]
      /\ \A j, k \in 1 .. n : j < k => Before(list[j].id, list[k].id)
  BY DEF Ordered
<1> HIDE DEF n
<1>3. \A k \in 1 .. n : list[k] \in l /\ list[k].id \in Ids
  BY <1>2 DEF Listing
<1>4. ASSUME NEW j \in 1 .. n, NEW k \in 1 .. n, list[j] = list[k] PROVE j = k
  <2>1. ~(j < k) /\ ~(k < j)
    BY <1>2, <1>3, <1>4, BeforeIrreflexive
  <2>2. QED
    BY <1>1, <2>1
<1>5. list \in Injection(1 .. n, l)
  BY <1>2, <1>4, Fun_IsInj
<1>6. Cardinality(1 .. n) = n
  BY <1>1, FS_Interval
<1>7. list \in Surjection(1 .. n, l)
  BY <1>1, <1>5, <1>6, FS_Injection DEF n
<1>8. i \in 1 .. n /\ \A k \in 1 .. (i - 1) : k \in 1 .. n /\ k < i
  BY <1>1 DEF n
<1>9. \A k \in 1 .. (i - 1) : first[k] \in Earlier(l, list[i])
  BY <1>2, <1>3, <1>8 DEF Earlier
<1>10. ASSUME NEW e \in Earlier(l, list[i]) PROVE \E k \in 1 .. (i - 1) : first[k] = e
  <2>0. \A x \in l : \E k \in 1 .. n : list[k] = x
    BY <1>7 DEF Surjection
  <2>1. PICK k \in 1 .. n : list[k] = e
    BY <2>0 DEF Earlier
  <2>2. Before(list[k].id, list[i].id)
    BY <2>1 DEF Earlier
  <2>3. ~(i < k) /\ i # k
    BY <1>2, <1>3, <1>8, <2>1, <2>2, BeforeAsymmetric, BeforeIrreflexive
  <2>4. k \in 1 .. (i - 1)
    BY <1>1, <1>8, <2>3
  <2>5. QED
    BY <2>1, <2>4
<1>11. first \in Bijection(1 .. (i - 1), Earlier(l, list[i]))
  <2>1. \A j, k \in 1 .. (i - 1) : first[j] = first[k] => j = k
    BY <1>4, <1>8
  <2>2. QED
    BY <1>9, <1>10, <2>1, Fun_IsBij
<1>12. Cardinality(1 .. (i - 1)) = i - 1 /\ IsFiniteSet(1 .. (i - 1))
  BY <1>8, FS_Interval
<1>13. Cardinality(Earlier(l, list[i])) = Cardinality(1 .. (i - 1))
  BY <1>11, <1>12, FS_Bijection, Fun_ExistsBij
<1>14. QED
  BY <1>12, <1>13 DEF Rank

\* What is at each position of a list.
LEMMA NthIs ==
    ASSUME NEW l, Listing(l), NEW list, Ordered(l, list), NEW i \in Nat
    PROVE  Nth(l, i) = IF i < Cardinality(l) THEN {list[i + 1]} ELSE {}
<1> DEFINE n == Cardinality(l)
<1>1. n \in Nat /\ \A e \in l : Rank(l, e) < n
  BY RanksFollowTheOrder
<1>2. Nth(l, i) = {e \in l : Rank(l, e) = i}
  BY DEF Nth, Rank, Earlier
<1>3. CASE i < n
  <2>1. i + 1 \in 1 .. n
    BY <1>1, <1>3
  <2>2. list[i + 1] \in l /\ Rank(l, list[i + 1]) = i
    <3>1. list[i + 1] \in l
      BY <2>1 DEF Ordered
    <3>2. Rank(l, list[i + 1]) = (i + 1) - 1
      BY <2>1, RankIsNumber
    <3>3. QED
      BY <3>1, <3>2
  <2>3. ASSUME NEW e \in l, Rank(l, e) = i PROVE e = list[i + 1]
    BY <1>1, <2>2, <2>3, RanksFollowTheOrder, BeforeTotal DEF Listing
  <2>4. QED
    BY <1>2, <1>3, <2>2, <2>3
<1>4. CASE ~(i < n)
  BY <1>1, <1>2, <1>4
<1>5. QED
  BY <1>3, <1>4

\* get, with both kinds of index, in terms of the ordered numbering.
LEMMA GetIs ==
    ASSUME NEW l, Listing(l), NEW list, Ordered(l, list), NEW i \in Nat
    PROVE  /\ Get(l, FromStart(i)) = IF i < Cardinality(l) THEN {list[i + 1]} ELSE {}
           /\ Get(l, FromEnd(i)) = IF i \in 1 .. Cardinality(l)
                                   THEN {list[Cardinality(l) - i + 1]} ELSE {}
<1> DEFINE n == Cardinality(l)
<1>1. n \in Nat /\ Size(l) = n
  BY RanksFollowTheOrder DEF Size
<1> HIDE DEF n
<1>2. /\ ToAbsoluteIndex(FromStart(i), n) = IF i > n THEN {} ELSE {i}
      /\ ToAbsoluteIndex(FromEnd(i), n) = IF i > n THEN {} ELSE {n - i}
  BY DEF ToAbsoluteIndex, FromStart, FromEnd
<1>3. Get(l, FromStart(i)) = IF i < n THEN {list[i + 1]} ELSE {}
  <2>1. CASE i > n
    BY <1>1, <1>2, <2>1 DEF Get
  <2>2. CASE ~(i > n)
    <3>1. Get(l, FromStart(i)) = Nth(l, i)
      BY <1>1, <1>2, <2>2 DEF Get
    <3>2. QED
      BY <3>1, NthIs DEF n
  <2>3. QED
    BY <2>1, <2>2
<1>4. Get(l, FromEnd(i)) = IF i \in 1 .. n THEN {list[n - i + 1]} ELSE {}
  <2>1. CASE i > n
    BY <1>1, <1>2, <2>1 DEF Get
  <2>2. CASE ~(i > n)
    <3>1. Get(l, FromEnd(i)) = Nth(l, n - i) /\ n - i \in Nat
      BY <1>1, <1>2, <2>2 DEF Get
    <3>2. Nth(l, n - i) = IF n - i < n THEN {list[n - i + 1]} ELSE {}
      BY <3>1, NthIs DEF n
    <3>3. n - i < n <=> i \in 1 .. n
      BY <1>1, <2>2
    <3>4. QED
      BY <3>1, <3>2, <3>3
  <2>3. QED
    BY <2>1, <2>2
<1>5. QED
  BY <1>3, <1>4 DEF n

\* in_range, likewise.
LEMMA InRangeIs ==
    ASSUME NEW s, Listing(s.data), NEW list, Ordered(s.data, list), NEW i \in Nat, NEW j \in Nat
    PROVE  InRange(s, FromStart(i), FromEnd(j)) =
             IF i <= Cardinality(s.data) /\ j <= Cardinality(s.data)
             THEN {list[k] : k \in (i + 1) .. (Cardinality(s.data) - j)} ELSE {}
<1> DEFINE n == Cardinality(s.data)
           Between(a, b) == UNION {Nth(s.data, m) : m \in a .. (b - 1)}
<1>1. n \in Nat /\ EntriesIndex(s) = n
  BY RanksFollowTheOrder DEF EntriesIndex, Size
<1>2. InRange(s, FromStart(i), FromEnd(j)) =
        UNION {Between(a, b) : a \in ToAbsoluteIndex(FromStart(i), n),
                               b \in ToAbsoluteIndex(FromEnd(j), n)}
  BY <1>1 DEF InRange
<1> HIDE DEF n, Between
<1>3. /\ ToAbsoluteIndex(FromStart(i), n) = IF i > n THEN {} ELSE {i}
      /\ ToAbsoluteIndex(FromEnd(j), n) = IF j > n THEN {} ELSE {n - j}
  BY DEF ToAbsoluteIndex, FromStart, FromEnd
<1>4. CASE i > n \/ j > n
  <2>1. InRange(s, FromStart(i), FromEnd(j)) = {}
    BY <1>2, <1>3, <1>4
  <2>2. QED
    BY <1>1, <1>4, <2>1 DEF n
<1>5. CASE ~(i > n) /\ ~(j > n)
  <2>1. InRange(s, FromStart(i), FromEnd(j)) = Between(i, n - j)
    BY <1>2, <1>3, <1>5
  <2>2. ASSUME NEW m \in i .. (n - j - 1) PROVE Nth(s.data, m) = {list[m + 1]}
    <3>1. m \in Nat /\ m < n
      BY <1>1
    <3>2. QED
      BY <3>1, NthIs DEF n
  <2>3. Between(i, n - j) = {list[m + 1] : m \in i .. (n - j - 1)}
    BY <2>2 DEF Between
  <2>4. {list[m + 1] : m \in i .. (n - j - 1)} = {list[k] : k \in (i + 1) .. (n - j)}
    <3>1. ASSUME NEW k \in (i + 1) .. (n - j) PROVE k - 1 \in i .. (n - j - 1) /\ k = (k - 1) + 1
      BY <1>1
    <3>2. ASSUME NEW m \in i .. (n - j - 1) PROVE m + 1 \in (i + 1) .. (n - j)
      BY <1>1
    <3>3. \A k \in (i + 1) .. (n - j) : \E m \in i .. (n - j - 1) : list[k] = list[m + 1]
      BY <3>1
    <3>4. QED
      BY <3>2, <3>3
  <2>5. i <= n /\ j <= n
    BY <1>1, <1>5
  <2>6. QED
    BY <2>1, <2>3, <2>4, <2>5 DEF n
<1>6. QED
  BY <1>4, <1>5

\* Inductive: an identifier occurs once in a list, since LSEQ ignores another insert of it.
IdsOccurOnce ==
    \A r \in Replicas : \A list \in Lists :
        \A e, x \in seq[r][list] : e.id = x.id => e = x

LEMMA ChangedOccurOnce ==
    ASSUME TypeInv, IdsOccurOnce, NEW r \in Replicas, NEW list \in Lists, NEW l,
           \A e, x \in l : e.id = x.id => e = x,
           seq' = [seq EXCEPT ![r][list] = l]
    PROVE  IdsOccurOnce'
<1>1. \A s \in Replicas : \A k \in Lists :
        seq'[s][k] = IF s = r /\ k = list THEN l ELSE seq[s][k]
  BY DEF TypeInv, TypeOK
<1>2. QED
  BY <1>1 DEF IdsOccurOnce

LEMMA AppendOccursOnce ==
    ASSUME TypeInv, IdsOccurOnce, NEW r \in Replicas, NEW list \in Lists, NEW v,
           AppendTo(r, list, v)
    PROVE  IdsOccurOnce'
<1>1. PICK id : seq' = [seq EXCEPT ![r][list] = Insert(seq[r][list], id, v)]
  BY DEF AppendTo
<1>2. \A e, x \in Insert(seq[r][list], id, v) : e.id = x.id => e = x
  BY DEF Insert, IdsOccurOnce
<1>3. QED
  BY <1>1, <1>2, ChangedOccurOnce

LEMMA ApplyOccursOnce ==
    ASSUME TypeInv, IdsOccurOnce, NEW r \in Replicas, NEW op \in ops, ApplyTo(r, op)
    PROVE  IdsOccurOnce'
<1>1. op.list \in Lists
  BY DEF TypeInv, TypeOK, Inserts, Removals
<1>2. \A e, x \in Apply(seq[r][op.list], op) : e.id = x.id => e = x
  BY <1>1 DEF Apply, Insert, Delete, IdsOccurOnce
<1>3. seq' = [seq EXCEPT ![r][op.list] = Apply(seq[r][op.list], op)]
  BY DEF ApplyTo
<1>4. QED
  BY <1>1, <1>2, <1>3, ChangedOccurOnce

LEMMA OccurOnceStep == TypeInv /\ IdsOccurOnce /\ [Next]_vars => IdsOccurOnce'
<1> SUFFICES ASSUME TypeInv, IdsOccurOnce, [Next]_vars PROVE IdsOccurOnce'
  OBVIOUS
<1>1. ASSUME NEW r \in Replicas, NEW s \in Replicas, Copy(r, s) PROVE IdsOccurOnce'
  <2>1. \A q \in Replicas : seq'[q] = IF q = r THEN seq[s] ELSE seq[q]
    BY <1>1 DEF Copy, TypeInv, TypeOK
  <2>2. QED
    BY <2>1 DEF IdsOccurOnce
<1>2. ASSUME NEW r \in Replicas, NEW list \in Lists, NEW v, AppendTo(r, list, v)
      PROVE  IdsOccurOnce'
  BY <1>2, AppendOccursOnce
<1>3. ASSUME NEW r \in Replicas, NEW op \in ops, Deliver(r, op) PROVE IdsOccurOnce'
  <2>1. ApplyTo(r, op)
    BY <1>3 DEF Deliver, ApplyCrdtOp, ApplyCrdtPubPermsOp, ApplyCrdtPrivatePermsOp,
                ApplyCrdtOwnerOp
  <2>2. QED
    BY <2>1, ApplyOccursOnce
<1>4. ASSUME seq' = seq PROVE IdsOccurOnce'
  BY <1>4 DEF IdsOccurOnce
<1>5. QED
  BY <1>1, <1>2, <1>3, <1>4
  DEF Next, vars, AppendEntry, SetPubPermissions, SetPrivatePermissions, SetOwner, SendDelete, Lists

\* However many deletes, repeated and late operations a copy has applied: get from either
\* end, last_entry and in_range read its entries by their place in one and the same order,
\* and give None exactly out of bounds (to_absolute_index, seq_crdt.rs:215).
THEOREM ReadsFollowTheOrderHolds == Spec => []ReadsFollowTheOrder
<1>1. Init => TypeInv /\ IdsOccurOnce
  BY TypeInvInit DEF Init, EmptySeq, IdsOccurOnce
<1>2. ASSUME TypeInv, IdsOccurOnce PROVE ReadsFollowTheOrder
  <2> SUFFICES ASSUME NEW r \in live,
                      NEW i \in 0 .. (Size(seq[r].data) + 1), NEW j \in 0 .. (Size(seq[r].data) + 1)
               PROVE  LET l == seq[r].data
                          n == Size(l)
                          At(k) == IF k \in 1 .. n THEN {InOrder(l)[k]} ELSE {}
                      IN  /\ Get(l, FromStart(i)) = At(i + 1)
                          /\ Get(l, FromEnd(i)) = IF i <= n THEN At(n - i + 1) ELSE {}
                          /\ InRange(seq[r], FromStart(i), FromEnd(j)) =
                               IF i <= n /\ j <= n
                               THEN {InOrder(l)[k] : k \in (i + 1) .. (n - j)} ELSE {}
                          /\ LastEntry(l) = At(n)
    BY DEF ReadsFollowTheOrder
  <2> DEFINE l == seq[r].data
             n == Cardinality(l)
             list == InOrder(l)
             At(k) == IF k \in 1 .. n THEN {list[k]} ELSE {}
  <2>1. r \in Replicas /\ "data" \in Lists
    BY <1>2 DEF TypeInv, TypeOK, Lists
  <2>2. Listing(l)
    <3>1. IsFiniteSet(l) /\ l \subseteq Elements("data")
      BY <1>2, <2>1 DEF TypeInv, TypeOK, FiniteLists
    <3>2. QED
      BY <1>2, <2>1, <3>1 DEF Listing, Elements, IdsOccurOnce
  <2>3. Ordered(l, list) /\ n \in Nat /\ Size(l) = n
    BY <2>2, OrderedExists, RanksFollowTheOrder DEF Size
  <2> HIDE DEF l, n, list
  <2>4. i \in Nat /\ j \in Nat
    BY <2>3 DEF l, n
  <2>5. Get(l, FromStart(i)) = At(i + 1)
    <3>1. Get(l, FromStart(i)) = IF i < n THEN {list[i + 1]} ELSE {}
      BY <2>2, <2>3, <2>4, GetIs DEF n
    <3>2. QED
      BY <2>3, <2>4, <3>1
  <2>6. \A k \in Nat : Get(l, FromEnd(k)) = IF k <= n THEN At(n - k + 1) ELSE {}
    <3>1. \A k \in Nat : Get(l, FromEnd(k)) = IF k \in 1 .. n THEN {list[n - k + 1]} ELSE {}
      BY <2>2, <2>3, GetIs DEF n
    <3>2. QED
      BY <2>3, <3>1
  <2>7. InRange(seq[r], FromStart(i), FromEnd(j)) =
          IF i <= n /\ j <= n THEN {list[k] : k \in (i + 1) .. (n - j)} ELSE {}
    BY <2>2, <2>3, <2>4, InRangeIs DEF l, n
  <2>8. LastEntry(l) = At(n)
    <3>1. LastEntry(l) = Get(l, FromEnd(1))
      BY <2>2, LastIsFromEnd
    <3>2. QED
      BY <2>3, <2>6, <3>1
  <2>9. QED
    BY <2>3, <2>4, <2>5, <2>6, <2>7, <2>8 DEF l, n, list
<1>3. TypeInv /\ IdsOccurOnce /\ [Next]_vars => TypeInv' /\ IdsOccurOnce'
  BY TypeInvStep, OccurOnceStep
<1>4. QED
  BY <1>1, <1>2, <1>3, PTL DEF Spec
=============================================================================
