------------------------------ MODULE MapData -------------------------------
(***************************************************************************)
(* The Map data type: src/src/map.rs, both flavours.  One Map is held by   *)
(* its data handler.  Clients read it, compose a request from what they    *)
(* read and send it; requests reach the Map in any order, late, repeatedly *)
(* or never, so most of them meet a Map that has changed.  A call that     *)
(* returns an error leaves the Map as it is, and is no step here.          *)
(***************************************************************************)
EXTENDS Integers, FiniteSets

CONSTANTS
    Keys,            \* the keys of entries
    Contents,        \* the contents of entries
    Users,           \* the public keys of owners and requesters
    PermissionSets,  \* the PermissionSets that may be given to a user
    ForcedVersions,  \* the versions passed to the *_without_validation calls
    U64,             \* the number of values of a u64, scaled down
    Workloads,       \* what clients do, see workload
    MaxRequests,     \* bound: the number of requests ever sent
    MaxLives         \* bound: how often a key is inserted

Versions == 0..(U64 - 1)

ASSUME U64Assumption ==
    /\ U64 \in Nat \ {0}
    /\ ForcedVersions \subseteq Versions
    /\ \A w \in Workloads : w.insertVersions \subseteq Versions

ASSUME RequestsAssumption ==
    /\ MaxRequests \in Nat
    /\ \A w \in Workloads : w.requests \in 0..MaxRequests /\ "mutate" \notin w.shellOps

\* A Map m has the fields of MapData, whatever is in them.
IsMap(m) == m = [kind |-> m.kind, data |-> m.data, permissions |-> m.permissions,
                 version |-> m.version, owner |-> m.owner]

Value == [content : Contents, version : Versions]

\* The fields of m have the types they have in MapData.
IsTyped(m) ==
    /\ m.kind \in {"Seq", "Unseq"} /\ DOMAIN m.data \subseteq Keys
    /\ \A k \in DOMAIN m.data : m.data[k] \in Value
    /\ DOMAIN m.permissions \subseteq Users
    /\ \A u \in DOMAIN m.permissions : m.permissions[u] \in PermissionSets
    /\ m.version \in Versions /\ m.owner \in Users

ASSUME MapsAssumption ==
    \A w \in Workloads :
        /\ w.keys \subseteq Keys
        /\ \A m \in w.maps : IsMap(m) /\ IsTyped(m) /\ m.version = 0

VARIABLES
    workload,   \* one of Workloads, for ever: maps (what new and new_with_data construct),
                \* keys and users (in requests for entries), entryOps (Insert, Update, Delete,
                \* Take) with insertVersions, shellOps (on permissions and owner), requests
    map,        \* the Map: kind ("Seq" or "Unseq"), data, permissions, version, owner
    requests,   \* every request sent so far
    accepted,   \* history: how often each request was accepted, capped at two
    life,       \* history: how often each key was inserted
    last        \* history: the last version each key had, -1 before the first

vars == <<workload, map, requests, accepted, life, last>>

\* Faulty: an unbounded integer.
SuccUnbounded(v) == v + 1

\* u64 addition of an optimised build (a debug build panics instead of wrapping).
Succ(v) == (v + 1) % U64

With(f, k, v) == [x \in DOMAIN f \cup {k} |-> IF x = k THEN v ELSE f[x]]

Without(f, k) == [x \in DOMAIN f \ {k} |-> f[x]]

-----------------------------------------------------------------------------
\* Permissions

IsActionAllowed(m, requester, action) ==
    requester \in DOMAIN m.permissions /\ action \in m.permissions[requester]

CheckPermissions(m, action, requester) ==
    m.owner = requester \/ IsActionAllowed(m, requester, action)

-----------------------------------------------------------------------------
\* Entry actions: a function from keys to one action each (adding an action for
\* a key replaces the one there).  A value is [content, version]; the version
\* of an unsequenced value is always 0.

Version(k) == IF k \in DOMAIN map.data THEN map.data[k].version ELSE 0

\* The actions a client composes for k from the Map it has just read.
ActionsFor(k) ==
    LET next == IF map.kind = "Seq" THEN Succ(Version(k)) ELSE 0
        first == IF map.kind = "Seq" THEN workload.insertVersions ELSE {0}
    IN  [op : {"Insert"} \cap workload.entryOps, content : Contents, version : first]
        \cup [op : {"Update"} \cap workload.entryOps, content : Contents, version : {next}]
        \cup [op : {"Delete"} \cap workload.entryOps, version : {next}]

OpsOf(actions) == {actions[k].op : k \in DOMAIN actions}

\* The permission check of mutate_entries: the owner, or all the permissions
\* for what the actions do.
OpsAllowed(m, actions, requester) ==
    \/ m.owner = requester
    \/ \A op \in OpsOf(actions) : IsActionAllowed(m, requester, op)

\* Faulty: only older versions are refused.
SucceedsUnlessOlder(m, k, a) ==
    k \in DOMAIN m.data /\ (m.kind = "Seq" => a.version >= m.data[k].version)

\* An update or a delete is for an entry that exists; sequenced, it must also
\* carry the version after the current one.
Succeeds(m, k, a) ==
    k \in DOMAIN m.data /\ (m.kind = "Seq" => a.version = Succ(m.data[k].version))

\* The keys with an EntryError.  Actions are for different keys, so the order
\* of the three loops (insert, update, delete) does not matter.
Errors(m, actions) ==
    {k \in DOMAIN actions : IF actions[k].op = "Insert" THEN k \in DOMAIN m.data
                            ELSE ~Succeeds(m, k, actions[k])}

Mutated(data, actions) ==
    LET deleted == {k \in DOMAIN actions : actions[k].op = "Delete"}
        written == DOMAIN actions \ deleted
    IN  [k \in (DOMAIN data \cup written) \ deleted |->
            IF k \in written
            THEN [content |-> actions[k].content, version |-> actions[k].version]
            ELSE data[k]]

-----------------------------------------------------------------------------
Init ==
    /\ workload \in Workloads
    /\ map \in workload.maps
    /\ requests = {}
    /\ accepted = [i \in 1..MaxRequests |-> 0]
    /\ life = [k \in Keys |-> 0]
    /\ last = [k \in Keys |-> IF k \in DOMAIN map.data THEN map.data[k].version ELSE -1]

\* A request has, as history, what its client saw: the Map in read, and life.
NextId == Cardinality(requests) + 1

\* A request leaves a client.
Send(request) ==
    /\ NextId <= workload.requests
    /\ requests' = requests \cup {request}
    /\ UNCHANGED <<map, accepted, life, last>>

SendMutateEntries(user) ==
    \E ks \in SUBSET workload.keys \ {{}} :
        \E actions \in [ks -> UNION {ActionsFor(k) : k \in ks}] :
            /\ \A k \in ks : actions[k] \in ActionsFor(k)
            /\ Send([type |-> "mutate", by |-> user, actions |-> actions,
                     id |-> NextId, read |-> map, life |-> life])

\* A change of the shell that is validated carries the version after the one
\* the client read; one that is not may carry any version.
SendShellChange(type) ==
    \E user \in Users,
       set \in IF type = "set" THEN PermissionSets ELSE {{}},
       v \in IF type \in {"set", "del", "chown"} THEN {Succ(map.version)} ELSE ForcedVersions :
          Send([type |-> type, user |-> user, set |-> set, version |-> v,
                id |-> NextId, read |-> map, life |-> life])

Accept(q) == accepted' = [accepted EXCEPT ![q.id] = IF @ = 2 THEN 2 ELSE @ + 1]

-----------------------------------------------------------------------------
\* The operations of the Map

\* The history of the entries, from the new data, within the bound.
RecordEntries ==
    /\ \A k \in Keys : k \in DOMAIN map'.data \ DOMAIN map.data => life[k] < MaxLives
    /\ life' = [k \in Keys |-> IF k \in DOMAIN map'.data \ DOMAIN map.data
                               THEN life[k] + 1 ELSE life[k]]
    /\ last' = [k \in Keys |-> IF k \in DOMAIN map'.data
                               THEN map'.data[k].version ELSE last[k]]

\* Faulty: the valid actions are carried out, the others skipped.
MutateEntriesPartly(q) ==
    /\ q.type = "mutate"
    /\ OpsAllowed(map, q.actions, q.by)
    /\ map' = [map EXCEPT !.data = Mutated(@,
                 [k \in DOMAIN q.actions \ Errors(map, q.actions) |-> q.actions[k]])]
    /\ RecordEntries
    /\ Accept(q)
    /\ UNCHANGED requests

\* Data::mutate_entries: AccessDenied and InvalidEntryActions change nothing.
\* (Actions of the other flavour are an InvalidOperation and not modelled.)
MutateEntries(q) ==
    /\ q.type = "mutate"
    /\ OpsAllowed(map, q.actions, q.by)
    /\ Errors(map, q.actions) = {}
    /\ map' = [map EXCEPT !.data = Mutated(@, q.actions)]
    /\ RecordEntries
    /\ Accept(q)
    /\ UNCHANGED requests

\* take_entries is called by the holder of the Map, without a request.
TakeEntries ==
    /\ "Take" \in workload.entryOps
    /\ map' = [map EXCEPT !.data = <<>>]
    /\ RecordEntries
    /\ UNCHANGED <<requests, accepted>>

\* Faulty: the version is only checked to be newer.
SetUserPermissionsIfNewer(q) ==
    /\ q.type = "set"
    /\ q.version > map.version \/ q.version = 0
    /\ map' = [map EXCEPT !.permissions = With(@, q.user, q.set)]
    /\ Accept(q)
    /\ UNCHANGED <<requests, life, last>>

SetUserPermissions(q) ==
    /\ q.type = "set"
    /\ q.version = Succ(map.version)
    /\ map' = [map EXCEPT !.permissions = With(@, q.user, q.set), !.version = q.version]
    /\ Accept(q)
    /\ UNCHANGED <<requests, life, last>>

\* Faulty: the version stays.
DelUserPermissionsKeepingVersion(q) ==
    /\ q.type = "del"
    /\ q.version = Succ(map.version)
    /\ q.user \in DOMAIN map.permissions
    /\ map' = [map EXCEPT !.permissions = Without(@, q.user)]
    /\ Accept(q)
    /\ UNCHANGED <<requests, life, last>>

DelUserPermissions(q) ==
    /\ q.type = "del"
    /\ q.version = Succ(map.version)
    /\ q.user \in DOMAIN map.permissions
    /\ map' = [map EXCEPT !.permissions = Without(@, q.user), !.version = q.version]
    /\ Accept(q)
    /\ UNCHANGED <<requests, life, last>>

ChangeOwner(q) ==
    /\ q.type = "chown"
    /\ q.version = Succ(map.version)
    /\ map' = [map EXCEPT !.owner = q.user, !.version = q.version]
    /\ Accept(q)
    /\ UNCHANGED <<requests, life, last>>

DelUserPermissionsWithoutValidation(q) ==
    /\ q.type = "del_without_validation"
    /\ q.version > map.version
    /\ map' = [map EXCEPT !.permissions = Without(@, q.user), !.version = q.version]
    /\ Accept(q)
    /\ UNCHANGED <<requests, life, last>>

\* Faulty: any other version will do.
ChangeOwnerIfDifferent(q) ==
    /\ q.type = "chown_without_validation"
    /\ q.version # map.version
    /\ map' = [map EXCEPT !.owner = q.user, !.version = q.version]
    /\ Accept(q)
    /\ UNCHANGED <<requests, life, last>>

ChangeOwnerWithoutValidation(q) ==
    /\ q.type = "chown_without_validation"
    /\ q.version > map.version
    /\ map' = [map EXCEPT !.owner = q.user, !.version = q.version]
    /\ Accept(q)
    /\ UNCHANGED <<requests, life, last>>

Handle(q) ==
    \/ MutateEntries(q)
    \/ SetUserPermissions(q)
    \/ DelUserPermissions(q)
    \/ ChangeOwner(q)
    \/ DelUserPermissionsWithoutValidation(q)
    \/ ChangeOwnerWithoutValidation(q)

Next ==
    /\ UNCHANGED workload
    /\ \/ \E user \in workload.users : SendMutateEntries(user)
       \/ \E type \in workload.shellOps : SendShellChange(type)
       \/ \E q \in requests : Handle(q)
       \/ TakeEntries

Spec == Init /\ [][Next]_vars

-----------------------------------------------------------------------------
\* Properties

\* The Map of a reachable state; versions stay in the range of a u64.
MapTypeOK ==
    /\ workload \in Workloads
    /\ IsTyped(map)
    /\ accepted \in [1..MaxRequests -> 0..2]
    /\ \A q \in requests : q.id \in 1..MaxRequests

\* The request that a step accepts.
IsAccepted(q) == accepted'[q.id] > accepted[q.id]

\* Sequenced entries are never overwritten blindly: an update or a delete that
\* is accepted finds the very value its client had read, unless the entry was
\* deleted and inserted again in between (mutate_entries' version checks).
NoLostUpdate ==
    [][map.kind = "Seq" =>
         \A q \in requests : q.type = "mutate" /\ IsAccepted(q) =>
            \A k \in DOMAIN q.actions :
               q.actions[k].op # "Insert" /\ q.life[k] = life[k] =>
                  /\ k \in DOMAIN q.read.data
                  /\ q.read.data[k] = map.data[k]]_vars

\* mutate_entries carries out all the actions of one request or none, touches
\* no other entry, and only for a requester that check_permissions would let
\* do each of them on the Map as it is now.  (take_entries is nobody's request.)
MutationIsAllOrNothing ==
    [][map'.data # map.data /\ ~TakeEntries =>
         \E q \in requests :
            /\ q.type = "mutate"
            /\ \A op \in OpsOf(q.actions) : CheckPermissions(map, op, q.by)
            /\ \A k \in Keys :
                 IF k \notin DOMAIN q.actions
                 THEN /\ k \in DOMAIN map.data <=> k \in DOMAIN map'.data
                      /\ k \in DOMAIN map.data => map'.data[k] = map.data[k]
                 ELSE LET a == q.actions[k]
                      IN  /\ k \in DOMAIN map.data <=> a.op # "Insert"
                          /\ k \in DOMAIN map'.data <=> a.op # "Delete"
                          /\ a.op # "Delete" => map'.data[k].content = a.content]_vars

ShellChanges == {q \in requests : q.type # "mutate" /\ accepted[q.id] > 0}

\* A version of the Map stands for one change of permissions or owner: no
\* request takes effect twice, no two accepted changes share a version, and the
\* Map has the version of the newest (while versions do not wrap around).
VersionsIdentifyShellChanges ==
    /\ \A q \in ShellChanges :
          /\ accepted[q.id] = 1
          /\ q.version <= map.version
          /\ \A p \in ShellChanges : p.version = q.version => p = q
    /\ map.version = 0 \/ \E q \in ShellChanges : q.version = map.version

\* A validated change of permissions or owner is only accepted on the very
\* permissions and owner its client had read.
ShellChangeSawCurrent ==
    [][\A q \in requests : q.type \in {"set", "del", "chown"} /\ IsAccepted(q) =>
         q.read.permissions = map.permissions /\ q.read.owner = map.owner]_vars

OwnerChanges ==
    {q \in requests : /\ q.type \in {"chown", "chown_without_validation"}
                      /\ accepted[q.id] > 0}

\* Late changes never undo newer ones: the owner is the one named by the
\* accepted change with the greatest version, forced or not.
NewestOwnerWins ==
    \A q \in OwnerChanges :
        (\A p \in OwnerChanges : p.version <= q.version) => map.owner = q.user

\* "Requires the new `version` of the Map fields. If it does not match the
\* current version + 1, an error will be returned." (map.rs:356, of the calls
\* without validation as well): the version only ever moves by one.
VersionsAreSuccessors ==
    [][map'.version # map.version => map'.version = map.version + 1]_vars

\* "Version should be increased for any changes to Map fields except for data."
\* (map.rs:51)
ShellChangesIncreaseVersion ==
    [][<<map.permissions, map.owner>>' # <<map.permissions, map.owner>> =>
         map'.version > map.version]_vars

\* "Requires the new `version` of the sequenced entry content. If it does not
\* match the current version + 1, an error will be returned." (map.rs:993, of
\* ins): an entry that comes back continues the versions of its key.
InsertContinuesVersions ==
    [][\A k \in Keys :
         /\ k \notin DOMAIN map.data /\ k \in DOMAIN map'.data
         /\ last[k] >= 0
         => map'.data[k].version = Succ(last[k])]_vars
=============================================================================
