---------------------------- MODULE SequenceCrdt ----------------------------
(***************************************************************************)
(* The Sequence data type: src/src/sequence/seq_crdt.rs (SequenceCrdt) and *)
(* mod.rs (Data, its public and its private variant), with the permission  *)
(* rules of metadata.rs.                                                   *)
(*                                                                         *)
(* Replicas hold copies of one Sequence.  A writer constructed its own     *)
(* copy, under its own key; any other replica gets a whole copy (Clone, or *)
(* a SequenceWrite::New message) and then only applies operations.  Every  *)
(* local change returns an operation "in case it needs to be broadcasted   *)
(* to other replicas"; here the operation joins ops, and the transport,    *)
(* which is not in the repository, delivers any operation to any replica   *)
(* in any order, any number of times, or never.                            *)
(***************************************************************************)
EXTENDS LSeq

CONSTANTS
    Replicas,     \* the replicas, numbered in the order of their keys
    Writers,      \* the replicas that constructed the Sequence themselves
    Kind,         \* "Public" or "Private"
    Entries,      \* the values a writer may append
    Keys,         \* the public keys that may own or access the Sequence
    Anyone,       \* User::Anyone
    PubMaps,      \* the permission maps passed to set_pub_permissions
    PrivMaps,     \* the permission maps passed to set_private_permissions
    Positions,    \* the positions of LSeq identifiers
    MaxOps,       \* bound: the number of operations ever issued
    Deletes       \* TRUE if Op::Delete operations also arrive off the wire

ASSUME ReplicasAssumption == /\ Replicas \subseteq Nat
                             /\ Writers \subseteq Replicas
ASSUME PositionsAssumption == Positions \subseteq Nat
ASSUME KindAssumption == Kind \in {"Public", "Private"}

VARIABLES
    live,         \* the replicas that hold a copy
    seq,          \* the copy of each replica
    ops,          \* every operation issued so far
    applied       \* history: the operations each replica has applied

vars == <<live, seq, ops, applied>>

Lists == {"data", "permissions", "owners"}
Actions == {"read", "append", "manage_permissions"}

-----------------------------------------------------------------------------
\* Operators on one copy s, a record of three LSeqs.

EmptySeq == [list \in Lists |-> {}]

EntriesIndex(s) == Size(s.data)
OwnersIndex(s) == Size(s.owners)
PermissionsIndex(s) == Size(s.permissions)

FromStart(i) == [from |-> "Start", index |-> i]
FromEnd(i) == [from |-> "End", index |-> i]

\* Faulty: an index from the end that counts one entry too many.
ToAbsoluteIndexOffByOne(i, count) ==
    IF i.index > count THEN {}
    ELSE {IF i.from = "Start" THEN i.index ELSE count - i.index - 1}

\* Faulty: an index equal to the length is already out of bounds.
ToAbsoluteIndexStrict(i, count) ==
    IF i.index >= count THEN {}
    ELSE {IF i.from = "Start" THEN i.index ELSE count - i.index}

\* An Option<usize>: the empty set is None.
ToAbsoluteIndex(i, count) ==
    IF i.index > count THEN {}
    ELSE {IF i.from = "Start" THEN i.index ELSE count - i.index}

\* SequenceCrdt::get, permissions and owner index their list alike.
Get(l, i) == UNION {Nth(l, n) : n \in ToAbsoluteIndex(i, Size(l))}

Owner(s, i) == Get(s.owners, i)
Permissions(s, i) == Get(s.permissions, i)

\* The entries from start up to, and without, end; empty stands for None.
InRange(s, start, end) ==
    UNION {UNION {Nth(s.data, n) : n \in a .. (b - 1)} :
             a \in ToAbsoluteIndex(start, EntriesIndex(s)),
             b \in ToAbsoluteIndex(end, EntriesIndex(s))}

CheckIsLastOwner(s, requester) ==
    LET last == Owner(s, FromEnd(1))
    IN  IF last = {} THEN "InvalidOwners"
        ELSE IF \E o \in last : o.val.public_key = requester
             THEN "Ok" ELSE "AccessDenied"

\* PubUserPermissions: an Option<bool> is "true", "false" or "none".
PubIsAllowed(perms, action) == IF action = "read" THEN "true" ELSE perms[action]

IsActionAllowedByUser(map, user, action) ==
    IF user \in DOMAIN map THEN PubIsAllowed(map[user], action) ELSE "none"

\* Faulty: Anyone is consulted even when the user is explicitly denied.
PubIsActionAllowedByEither(map, requester, action) ==
    IF "true" \in {IsActionAllowedByUser(map, requester, action),
                   IsActionAllowedByUser(map, Anyone, action)}
    THEN "Ok" ELSE "AccessDenied"

PubIsActionAllowed(map, requester, action) ==
    LET own == IsActionAllowedByUser(map, requester, action)
        result == IF own # "none" THEN own
                  ELSE IsActionAllowedByUser(map, Anyone, action)
    IN  IF result = "true" THEN "Ok" ELSE "AccessDenied"

\* Faulty: being listed is enough.
PrivIsActionAllowedIfListed(map, requester, action) ==
    IF requester \in DOMAIN map THEN "Ok" ELSE "AccessDenied"

PrivIsActionAllowed(map, requester, action) ==
    IF requester \in DOMAIN map /\ map[requester][action]
    THEN "Ok" ELSE "AccessDenied"

IsActionAllowed(map, requester, action) ==
    IF Kind = "Public" THEN PubIsActionAllowed(map, requester, action)
                       ELSE PrivIsActionAllowed(map, requester, action)

CheckPermission(s, action, requester) ==
    LET perms == Permissions(s, FromEnd(1))
    IN  IF \/ Kind = "Public" /\ action = "read"
           \/ CheckIsLastOwner(s, requester) = "Ok"
        THEN "Ok"
        ELSE IF perms = {} THEN "AccessDenied"
        ELSE LET p == CHOOSE p \in perms : TRUE
             IN  IsActionAllowed(p.val.permissions, requester, action)

-----------------------------------------------------------------------------
Init ==
    /\ live = Writers
    /\ seq = [r \in Replicas |-> EmptySeq]
    /\ ops = {}
    /\ applied = [r \in Replicas |-> {}]

\* Faulty: the copies of all writers were constructed under one key.
SharedActor(r) == CHOOSE w \in Writers : TRUE

\* The actor a writer passed to new_pub or new_private.
Actor(r) == r

\* Faulty: the copy is made without its owners.
CopyWithoutOwners(r, s) ==
    /\ r \notin live /\ s \in live
    /\ live' = live \cup {r}
    /\ seq' = [seq EXCEPT ![r] = [seq[s] EXCEPT !.owners = {}]]
    /\ applied' = [applied EXCEPT ![r] = applied[s]]
    /\ UNCHANGED ops

\* A replica r obtains a whole copy of s, with everything s has applied.
Copy(r, s) ==
    /\ r \notin live /\ s \in live
    /\ live' = live \cup {r}
    /\ seq' = [seq EXCEPT ![r] = seq[s]]
    /\ applied' = [applied EXCEPT ![r] = applied[s]]
    /\ UNCHANGED ops

\* LSeq::append on one list of a writer: a fresh identifier, applied locally,
\* and the operation is returned for broadcast.
AppendTo(r, list, v) ==
    /\ r \in live \cap Writers
    /\ Cardinality(ops) < MaxOps
    /\ \E id \in FreshIds(seq[r][list], Actor(r), Positions) :
         LET op == [list |-> list, type |-> "Insert", id |-> id, val |-> v]
         IN  /\ seq' = [seq EXCEPT ![r][list] = Insert(@, id, v)]
             /\ ops' = ops \cup {op}
             /\ applied' = [applied EXCEPT ![r] = @ \cup {op}]
    /\ UNCHANGED live

\* Faulty: the operation is only broadcast, and applied when it comes back.
AppendEntryRemotely(r, entry) ==
    /\ r \in live \cap Writers
    /\ Cardinality(ops) < MaxOps
    /\ \E id \in FreshIds(seq[r]["data"], Actor(r), Positions) :
         ops' = ops \cup {[list |-> "data", type |-> "Insert", id |-> id, val |-> entry]}
    /\ UNCHANGED <<live, seq, applied>>

AppendEntry(r, entry) == AppendTo(r, "data", entry)

\* Faulty: the index of the owners is taken as if one were being added.
PermissionsEntryAhead(s, map) ==
    [permissions |-> map,
     entries_index |-> EntriesIndex(s), owners_index |-> OwnersIndex(s) + 1]

\* The entry of a permissions history: the map and where it was set.
PermissionsEntry(s, map) ==
    [permissions |-> map,
     entries_index |-> EntriesIndex(s), owners_index |-> OwnersIndex(s)]

SetPubPermissions(r, map) ==
    Kind = "Public" /\ AppendTo(r, "permissions", PermissionsEntry(seq[r], map))

SetPrivatePermissions(r, map) ==
    Kind = "Private" /\ AppendTo(r, "permissions", PermissionsEntry(seq[r], map))

\* Faulty: the index of the last entry instead of the number of entries.
OwnerEntryLast(s, key) ==
    [public_key |-> key,
     entries_index |-> EntriesIndex(s) - 1, permissions_index |-> PermissionsIndex(s)]

OwnerEntry(s, key) ==
    [public_key |-> key,
     entries_index |-> EntriesIndex(s), permissions_index |-> PermissionsIndex(s)]

SetOwner(r, key) == AppendTo(r, "owners", OwnerEntry(seq[r], key))

\* No API of Data makes a Delete, but WriteOp carries any Op and another
\* implementation may send one ("insert/remove entry", messaging/sequence.rs).
SendDelete(list) ==
    /\ Deletes
    /\ Cardinality(ops) < MaxOps
    /\ \E op \in ops :
         /\ op.list = list /\ op.type = "Insert"
         /\ ops' = ops \cup {[list |-> list, type |-> "Delete", id |-> op.id]}
    /\ UNCHANGED <<live, seq, applied>>

\* A replica applies one issued operation to the list it is for.
ApplyTo(r, op) ==
    /\ r \in live /\ op \in ops
    /\ seq' = [seq EXCEPT ![r][op.list] = Apply(@, op)]
    /\ applied' = [applied EXCEPT ![r] = @ \cup {op}]
    /\ UNCHANGED <<live, ops>>

ApplyCrdtOp(r, op) == op.list = "data" /\ ApplyTo(r, op)

\* Faulty: a received permissions entry is appended anew.
ApplyPubPermsByAppending(r, op) ==
    /\ Kind = "Public" /\ op.list = "permissions" /\ r \in live /\ op.type = "Insert"
    /\ \E id \in FreshIds(seq[r].permissions, r, Positions) :
         seq' = [seq EXCEPT ![r].permissions = Insert(@, id, op.val)]
    /\ applied' = [applied EXCEPT ![r] = @ \cup {op}]
    /\ UNCHANGED <<live, ops>>

\* Faulty: public permissions accept any operation.
ApplyPubPermsOfAnyType(r, op) ==
    Kind = "Public" /\ op.list = "permissions" /\ ApplyTo(r, op)

\* Public permissions accept nothing but Op::Insert; the error changes nothing.
ApplyCrdtPubPermsOp(r, op) ==
    /\ Kind = "Public" /\ op.list = "permissions" /\ op.type = "Insert"
    /\ ApplyTo(r, op)

ApplyCrdtPrivatePermsOp(r, op) ==
    /\ Kind = "Private" /\ op.list = "permissions"
    /\ ApplyTo(r, op)

\* Faulty: an owner entry older than the last one is refused.
ApplyOwnerOpInOrder(r, op) ==
    /\ op.list = "owners" /\ \A e \in seq[r].owners : Before(e.id, op.id)
    /\ ApplyTo(r, op)

ApplyCrdtOwnerOp(r, op) == op.list = "owners" /\ ApplyTo(r, op)

Deliver(r, op) ==
    \/ ApplyCrdtOp(r, op)
    \/ ApplyCrdtPubPermsOp(r, op)
    \/ ApplyCrdtPrivatePermsOp(r, op)
    \/ ApplyCrdtOwnerOp(r, op)

Next ==
    \/ \E r, s \in Replicas : Copy(r, s)
    \/ \E r \in Replicas, e \in Entries : AppendEntry(r, e)
    \/ \E r \in Replicas, m \in PubMaps : SetPubPermissions(r, m)
    \/ \E r \in Replicas, m \in PrivMaps : SetPrivatePermissions(r, m)
    \/ \E r \in Replicas, k \in Keys : SetOwner(r, k)
    \/ \E list \in Lists : SendDelete(list)
    \/ \E r \in Replicas : \E op \in ops : Deliver(r, op)

Spec == Init /\ [][Next]_vars

\* The transport is assumed to deliver every operation to every live replica.
FairSpec == Spec /\ WF_vars(\E r \in Replicas : \E op \in ops : Deliver(r, op))

-----------------------------------------------------------------------------
\* Properties

Ids == Positions \X {Actor(w) : w \in Writers}
PermissionsEntries ==
    [permissions : PubMaps \cup PrivMaps, entries_index : Nat, owners_index : Nat]
OwnerEntries == [public_key : Keys, entries_index : Nat, permissions_index : Nat]
Values(list) == CASE list = "data" -> Entries
                  [] list = "permissions" -> PermissionsEntries
                  [] list = "owners" -> OwnerEntries
Elements(list) == [id : Ids, val : Values(list)]
Inserts(list) == [list : {list}, type : {"Insert"}, id : Ids, val : Values(list)]
Removals == [list : Lists, type : {"Delete"}, id : Ids]

\* The types of the variables; a replica has only applied issued operations.
TypeOK ==
    /\ live \subseteq Replicas
    /\ seq = [r \in Replicas |-> [list \in Lists |-> seq[r][list]]]
    /\ \A r \in Replicas : \A list \in Lists : seq[r][list] \subseteq Elements(list)
    /\ \A op \in ops : op \in Removals \/ \E list \in Lists : op \in Inserts(list)
    /\ applied \in [Replicas -> SUBSET ops]

\* No two writes of a list ever share an LSeq identifier.  The code relies on
\* each writer passing its own key to new_pub or new_private, because append
\* takes the actor from the copy and LSeq ignores a second insert of an id.
UniqueIds ==
    \A o1, o2 \in ops :
        /\ o1.type = "Insert" /\ o2.type = "Insert"
        /\ o1.list = o2.list /\ o1.id = o2.id
        => o1 = o2

\* A writer's own copy has every write made under its key, so that append, which
\* looks at that copy alone, can tell which identifiers it has used.
OwnWritesAreApplied ==
    \A w \in Writers : \A op \in ops : op.id[2] = Actor(w) => op \in applied[w]

WritesIn(S, list) == {[id |-> op.id, val |-> op.val] : op \in {o \in S : o.list = list}}

\* A replica's lists hold exactly the writes it has applied, whatever the
\* order and the number of the deliveries: none is lost, overwritten or made up.
StateIsAppliedOps ==
    \A r \in Replicas : \A list \in Lists : seq[r][list] = WritesIn(applied[r], list)

\* "we apply the operations in different order, to verify that doesn't affect
\* the result" (mod.rs, tests): replicas that have applied the same operations
\* are equal, so they also answer every check_permission alike.
Convergence == \A r, s \in live : applied[r] = applied[s] => seq[r] = seq[s]

\* The newest write of a list that a replica knows of.
Newest(r, list) ==
    {op \in applied[r] : /\ op.list = list
                         /\ \A o \in applied[r] : o.list = list => ~Before(op.id, o.id)}

MapGrants(map, k, action) ==
    IF Kind = "Private" THEN k \in DOMAIN map /\ map[k][action]
    ELSE LET says(u) == IF u \in DOMAIN map THEN map[u][action] ELSE "none"
         IN  \/ says(k) = "true"
             \/ says(k) = "none" /\ says(Anyone) = "true"

\* check_permission, with its FromEnd(1) lookups, says yes exactly for public
\* reads, for the owner named by the newest owner write the replica knows, and
\* for whom the newest permissions write grants the action: an explicit
\* Some(false) beats Anyone, None falls back to Anyone (metadata.rs).
AccessIsDecidedByNewestWrites ==
    \A r \in live, k \in Keys, action \in Actions :
        CheckPermission(seq[r], action, k) = "Ok" <=>
            \/ Kind = "Public" /\ action = "read"
            \/ \E o \in Newest(r, "owners") : o.val.public_key = k
            \/ \E p \in Newest(r, "permissions") : MapGrants(p.val.permissions, k, action)

\* What the last entry of a list is at a replica now.
LastId(r, list) == {e.id : e \in LastEntry(seq[r][list])}

\* A delayed or duplicated operation never changes who may do what: an access
\* decision of a live replica changes only in a step that gives it an owner or
\* permissions entry ordered after all those it had.
StaleOpsNeverChangeAccess ==
    [][\A r \in live : \A k \in Keys, action \in Actions :
         CheckPermission(seq[r], action, k)' # CheckPermission(seq[r], action, k) =>
            \E list \in {"owners", "permissions"} :
                \E new \in LastId(r, list)' : \A old \in LastId(r, list) : Before(old, new)
      ]_vars

\* The indices stored in owner and permissions entries (the lengths of the
\* other lists at the writer) are meaningful at every replica that has caught
\* up: they never point past the end of the list they index.
RecordedIndicesResolve ==
    \A r \in live : applied[r] = ops =>
        /\ \A o \in seq[r].owners : /\ o.val.entries_index <= EntriesIndex(seq[r])
                                   /\ o.val.permissions_index <= PermissionsIndex(seq[r])
        /\ \A p \in seq[r].permissions : /\ p.val.entries_index <= EntriesIndex(seq[r])
                                        /\ p.val.owners_index <= OwnersIndex(seq[r])

\* Deletes may come before, between and after the inserts of their entry, repeatedly,
\* and an append may take the identifier of an entry that is gone (seq_crdt.rs:98):
\* still no entry appears without its write, and one whose write was applied is
\* only missing at replicas that have applied a delete of it (apply_crdt_op, mod.rs:209).
EntriesOnlyLeaveByDelete ==
    \A r \in Replicas : \A list \in Lists :
        /\ \A e \in seq[r][list] :
              [list |-> list, type |-> "Insert", id |-> e.id, val |-> e.val] \in applied[r]
        /\ \A op \in applied[r] :
              op.list = list /\ op.type = "Insert" =>
                 \/ \E e \in seq[r][list] : e.id = op.id
                 \/ [list |-> list, type |-> "Delete", id |-> op.id] \in applied[r]

\* The one way to number the entries of a list from 1 in the order of their identifiers.
InOrder(l) ==
    CHOOSE list \in [1 .. Size(l) -> l] :
        \A i, j \in DOMAIN list : i < j => Before(list[i].id, list[j].id)

\* get, last_entry and in_range (seq_crdt.rs:109, 115, 132) read one and the same ordered
\* list, whether an index counts from the start or from the end, with None exactly out of
\* bounds (in_range: also when the range is empty), also of a copy entries were removed from.
ReadsFollowTheOrder ==
    \A r \in live :
        LET list == InOrder(seq[r].data)
            n == Size(seq[r].data)
            At(i) == IF i \in 1 .. n THEN {list[i]} ELSE {}
        IN  \A i, j \in 0 .. (n + 1) :
              /\ Get(seq[r].data, FromStart(i)) = At(i + 1)
              /\ Get(seq[r].data, FromEnd(i)) = IF i <= n THEN At(n - i + 1) ELSE {}
              /\ InRange(seq[r], FromStart(i), FromEnd(j)) =
                    IF i <= n /\ j <= n THEN {list[k] : k \in (i + 1) .. (n - j)} ELSE {}
              /\ LastEntry(seq[r].data) = At(n)

\* Public permissions are append-only: whatever operations arrive, deletes
\* included, no entry of a public permissions history ever disappears
\* (the Op::Insert pattern of apply_crdt_pub_perms_op).
PublicPermissionsOnlyGrow ==
    [][Kind = "Public" =>
         \A r \in Replicas : seq[r].permissions \subseteq seq'[r].permissions]_vars

\* The documentation of check_permission: "`Err::InvalidOwners` if the last
\* owner is invalid".  check_is_last_owner finds it invalid when there is none.
MissingOwnerIsReported ==
    \A r \in live, k \in Keys, action \in Actions :
        /\ CheckIsLastOwner(seq[r], k) = "InvalidOwners"
        /\ CheckPermission(seq[r], action, k) # "Ok"
        => CheckPermission(seq[r], action, k) = "InvalidOwners"

\* Once writing stops, all live replicas become and stay equal.
EventuallyEqual == <>[](\A r, s \in live : seq[r] = seq[s])

-----------------------------------------------------------------------------
\* The log that the copies implement while there are no deletes.

AsWrites(s) == UNION {{[list |-> list, id |-> e.id, val |-> e.val] : e \in s[list]} :
                         list \in Lists}
IssuedWrites == {[list |-> op.list, id |-> op.id, val |-> op.val] : op \in ops}

Log == INSTANCE GrowOnlyLog WITH
          Replica <- Replicas,
          Comparable <- LAMBDA v, w : v.list = w.list,
          Precedes <- LAMBDA v, w : Before(v.id, w.id),
          log <- IssuedWrites,
          view <- [r \in Replicas |-> AsWrites(seq[r])]

\* The Sequence implements the grow-only log: every write takes a place of its
\* own after what its author saw, and views only grow, by writes of the log.
ImplementsLog == Log!LogSpec
=============================================================================
