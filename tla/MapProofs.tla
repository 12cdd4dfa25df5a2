------------------------------ MODULE MapProofs --------------------------------
(***************************************************************************)
(* Proofs about MapData, for any Maps, keys, users and permissions, any    *)
(* number of requests, and any width of the version.                       *)
(***************************************************************************)
EXTENDS MapData, FiniteSetTheorems, TLAPS

-----------------------------------------------------------------------------
\* Entries: a request is carried out as a whole or not at all.

\* Inductive: a Map keeps its fields.
MapInv == workload \in Workloads /\ IsMap(map)

\* What a request to change the shell leaves alone.
LEMMA ShellKeepsData ==
    ASSUME IsMap(map), NEW q,
           \/ SetUserPermissions(q) \/ DelUserPermissions(q) \/ ChangeOwner(q)
           \/ DelUserPermissionsWithoutValidation(q) \/ ChangeOwnerWithoutValidation(q)
    PROVE  IsMap(map') /\ map'.data = map.data
<1>1. CASE SetUserPermissions(q)
  BY <1>1 DEF SetUserPermissions, IsMap
<1>2. CASE DelUserPermissions(q) \/ DelUserPermissionsWithoutValidation(q)
  BY <1>2 DEF DelUserPermissions, DelUserPermissionsWithoutValidation, IsMap
<1>3. CASE ChangeOwner(q) \/ ChangeOwnerWithoutValidation(q)
  BY <1>3 DEF ChangeOwner, ChangeOwnerWithoutValidation, IsMap
<1>4. QED
  BY <1>1, <1>2, <1>3

LEMMA MapStep == MapInv /\ [Next]_vars => MapInv'
<1> SUFFICES ASSUME MapInv, [Next]_vars PROVE MapInv'
  OBVIOUS
<1>1. workload' = workload
  BY DEF Next, vars
<1>2. ASSUME NEW q, MutateEntries(q) PROVE IsMap(map')
  BY <1>2 DEF MutateEntries, MapInv, IsMap
<1>3. ASSUME TakeEntries PROVE IsMap(map')
  BY <1>3 DEF TakeEntries, MapInv, IsMap
<1>4. ASSUME map' = map PROVE IsMap(map')
  BY <1>4 DEF MapInv
<1>5. ASSUME NEW q \in requests, Handle(q) PROVE IsMap(map')
  BY <1>2, <1>5, ShellKeepsData DEF Handle, MapInv
<1>6. IsMap(map')
  BY <1>3, <1>4, <1>5 DEF Next, vars, SendMutateEntries, SendShellChange, Send
<1>7. QED
  BY <1>1, <1>6 DEF MapInv

LEMMA MapInvariant == Spec => []MapInv
<1>1. Init => MapInv
  BY MapsAssumption DEF Init, MapInv
<1>2. QED
  BY <1>1, MapStep, PTL DEF Spec

\* What MutationIsAllOrNothing says of the step of a request q.
Whole(q) ==
    /\ q.type = "mutate"
    /\ \A op \in OpsOf(q.actions) : CheckPermissions(map, op, q.by)
    /\ \A k \in Keys :
         IF k \notin DOMAIN q.actions
         THEN /\ k \in DOMAIN map.data <=> k \in DOMAIN map'.data
              /\ k \in DOMAIN map.data => map'.data[k] = map.data[k]
         ELSE LET a == q.actions[k]
              IN  /\ k \in DOMAIN map.data <=> a.op # "Insert"
                  /\ k \in DOMAIN map'.data <=> a.op # "Delete"
                  /\ a.op # "Delete" => map'.data[k].content = a.content

LEMMA MutateIsWhole ==
    ASSUME MapInv, NEW q, MutateEntries(q)
    PROVE  Whole(q)
<1>1. map'.data = Mutated(map.data, q.actions)
  BY DEF MutateEntries, MapInv, IsMap
<1>2. \A op \in OpsOf(q.actions) : CheckPermissions(map, op, q.by)
  BY DEF MutateEntries, OpsAllowed, CheckPermissions
<1>3. \A k \in DOMAIN q.actions :
        IF q.actions[k].op = "Insert" THEN k \notin DOMAIN map.data ELSE k \in DOMAIN map.data
  BY DEF MutateEntries, Errors, Succeeds
<1>4. ASSUME NEW k, k \notin DOMAIN q.actions
      PROVE  /\ k \in DOMAIN map.data <=> k \in DOMAIN map'.data
             /\ k \in DOMAIN map.data => map'.data[k] = map.data[k]
  BY <1>1, <1>4 DEF Mutated
<1>5. ASSUME NEW k, k \in DOMAIN q.actions
      PROVE  /\ k \in DOMAIN map.data <=> q.actions[k].op # "Insert"
             /\ k \in DOMAIN map'.data <=> q.actions[k].op # "Delete"
             /\ q.actions[k].op # "Delete" => map'.data[k].content = q.actions[k].content
  BY <1>1, <1>3, <1>5 DEF Mutated
<1>6. QED
  BY <1>2, <1>4, <1>5 DEF Whole, MutateEntries

\* mutate_entries carries out all the actions of a request or none, touches no other
\* entry, and only for who may do each of them now (both flavours, map.rs:577).
THEOREM MutationIsAllOrNothingHolds == Spec => MutationIsAllOrNothing
<1>1. ASSUME MapInv, [Next]_vars, map'.data # map.data, ~TakeEntries
      PROVE  \E q \in requests : Whole(q)
  <2>1. PICK q \in requests : Handle(q)
    BY <1>1 DEF Next, vars, SendMutateEntries, SendShellChange, Send
  <2>2. MutateEntries(q)
    BY <1>1, <2>1, ShellKeepsData DEF Handle, MapInv
  <2>3. QED
    BY <1>1, <2>2, MutateIsWhole
<1>2. MapInv /\ [Next]_vars =>
        [map'.data # map.data /\ ~TakeEntries => \E q \in requests : Whole(q)]_vars
  BY <1>1
<1>3. QED
  BY <1>2, MapInvariant, PTL DEF Spec, MutationIsAllOrNothing, Whole

-----------------------------------------------------------------------------
\* Permissions and owner, as long as versions do not wrap around.

NoWrap == map.version < U64 - 1

Validated == {"set", "del", "chown"}
OwnerTypes == {"chown", "chown_without_validation"}

\* Inductive: every request has an id of its own, and no request was accepted
\* that was not sent.
RequestsInv ==
    /\ IsFiniteSet(requests) /\ Cardinality(requests) <= MaxRequests
    /\ \A q \in requests : q.id \in 1..Cardinality(requests)
    /\ \A p, q \in requests : p.id = q.id => p = q
    /\ accepted \in [1..MaxRequests -> 0..2]
    /\ \A i \in 1..MaxRequests : i > Cardinality(requests) => accepted[i] = 0

\* What a validated request had read is still there, or the version has moved on.
ReadInv ==
    \A q \in requests : q.type \in Validated =>
        /\ q.read.version \in Nat /\ q.version = q.read.version + 1
        /\ q.read.version <= map.version
        /\ q.read.version = map.version =>
              q.read.permissions = map.permissions /\ q.read.owner = map.owner

VersionsInv ==
    /\ map.version \in Nat
    /\ \A q \in requests : q.type # "mutate" => q.version \in Nat

ShellInv ==
    /\ MapInv /\ RequestsInv /\ VersionsInv /\ ReadInv
    /\ VersionsIdentifyShellChanges /\ NewestOwnerWins

\* A client sends a request r.
Sends(r) ==
    /\ requests' = requests \cup {r} /\ r.id = NextId /\ NextId <= MaxRequests
    /\ r.type # "mutate" => r.version \in Nat
    /\ r.type \in Validated => r.version = map.version + 1 /\ r.read = map
    /\ map' = map /\ accepted' = accepted

\* A request r to change permissions or owner is accepted.
Changes(r) ==
    /\ r \in requests /\ r.type # "mutate" /\ r.version > map.version
    /\ r.type \in Validated => r.version = map.version + 1
    /\ map'.version = r.version
    /\ map'.owner = IF r.type \in OwnerTypes THEN r.user ELSE map.owner
    /\ accepted' = [accepted EXCEPT ![r.id] = IF @ = 2 THEN 2 ELSE @ + 1]
    /\ requests' = requests

\* Permissions and owner stay as they are; a request for entries may be accepted.
Keeps ==
    /\ requests' = requests
    /\ map'.version = map.version /\ map'.permissions = map.permissions
    /\ map'.owner = map.owner
    /\ \/ accepted' = accepted
       \/ \E r \in requests :
            /\ r.type = "mutate"
            /\ accepted' = [accepted EXCEPT ![r.id] = IF @ = 2 THEN 2 ELSE @ + 1]

\* What clients ask of the shell is never a request for entries.
LEMMA ShellTypes == \A w \in Workloads : "mutate" \notin w.shellOps
BY RequestsAssumption

\* Versions are numbers, so without wrapping around the next one is one more.
LEMMA SuccIsNext ==
    ASSUME VersionsInv, NoWrap
    PROVE  Succ(map.version) = map.version + 1 /\ map.version + 1 \in Nat
BY U64Assumption DEF VersionsInv, NoWrap, Succ

\* Every step is one of the three.
LEMMA StepIsOneOfThree ==
    ASSUME MapInv, RequestsInv, VersionsInv, NoWrap, [Next]_vars
    PROVE  Keeps \/ (\E r : Sends(r)) \/ \E r : Changes(r)
<1>0. Succ(map.version) = map.version + 1 /\ map.version + 1 \in Nat
  BY SuccIsNext
<1>1. workload.requests \in 0..MaxRequests /\ MaxRequests \in Nat /\ NextId \in Nat
  BY RequestsAssumption, FS_CardinalityType DEF MapInv, RequestsInv, NextId
<1>2. ASSUME NEW user, SendMutateEntries(user) PROVE \E r : Sends(r)
  <2>1. PICK a : Send([type |-> "mutate", by |-> user, actions |-> a,
                       id |-> NextId, read |-> map, life |-> life])
    BY <1>2 DEF SendMutateEntries
  <2> DEFINE r == [type |-> "mutate", by |-> user, actions |-> a,
                   id |-> NextId, read |-> map, life |-> life]
  <2>2. r.id = NextId /\ r.type = "mutate" /\ r.type \notin Validated
    BY DEF Validated
  <2>3. /\ NextId <= workload.requests /\ requests' = requests \cup {r}
        /\ map' = map /\ accepted' = accepted
    BY <2>1 DEF Send
  <2> HIDE DEF r
  <2>4. NextId <= MaxRequests
    BY <1>1, <2>3
  <2>5. QED
    BY <2>2, <2>3, <2>4 DEF Sends
<1>3. ASSUME NEW type, SendShellChange(type), type # "mutate" PROVE \E r : Sends(r)
  <2>1. PICK u, p : \E v \in IF type \in Validated THEN {Succ(map.version)} ELSE ForcedVersions :
          Send([type |-> type, user |-> u, set |-> p, version |-> v,
                id |-> NextId, read |-> map, life |-> life])
    BY <1>3 DEF SendShellChange, Validated
  <2>2. PICK v \in IF type \in Validated THEN {Succ(map.version)} ELSE ForcedVersions :
          Send([type |-> type, user |-> u, set |-> p, version |-> v,
                id |-> NextId, read |-> map, life |-> life])
    BY <2>1
  <2> DEFINE r == [type |-> type, user |-> u, set |-> p, version |-> v,
                   id |-> NextId, read |-> map, life |-> life]
  <2>3. r.id = NextId /\ r.type = type /\ r.version = v /\ r.read = map
    OBVIOUS
  <2>4. v \in Nat /\ (type \in Validated => v = map.version + 1)
    <3>1. ForcedVersions \subseteq Nat
      BY U64Assumption DEF Versions
    <3>2. CASE type \in Validated
      BY <1>0, <3>2
    <3>3. CASE type \notin Validated
      BY <3>1, <3>3
    <3>4. QED
      BY <3>2, <3>3
  <2>5. /\ NextId <= workload.requests /\ requests' = requests \cup {r}
        /\ map' = map /\ accepted' = accepted
    BY <2>2 DEF Send
  <2> HIDE DEF r
  <2>6. NextId <= MaxRequests
    BY <1>1, <2>5
  <2>7. QED
    BY <2>3, <2>4, <2>5, <2>6 DEF Sends
<1>4. ASSUME NEW r \in requests, SetUserPermissions(r) PROVE Changes(r)
  BY <1>0, <1>4 DEF SetUserPermissions, Changes, Accept, OwnerTypes, MapInv, IsMap, VersionsInv
<1>5. ASSUME NEW r \in requests, DelUserPermissions(r) PROVE Changes(r)
  BY <1>0, <1>5 DEF DelUserPermissions, Changes, Accept, OwnerTypes, MapInv, IsMap, VersionsInv
<1>6. ASSUME NEW r \in requests, ChangeOwner(r) PROVE Changes(r)
  BY <1>0, <1>6 DEF ChangeOwner, Changes, Accept, OwnerTypes, MapInv, IsMap, VersionsInv
<1>7. ASSUME NEW r \in requests, DelUserPermissionsWithoutValidation(r) PROVE Changes(r)
  BY <1>7 DEF DelUserPermissionsWithoutValidation, Changes, Accept, OwnerTypes, Validated,
              MapInv, IsMap
<1>8. ASSUME NEW r \in requests, ChangeOwnerWithoutValidation(r) PROVE Changes(r)
  BY <1>8 DEF ChangeOwnerWithoutValidation, Changes, Accept, OwnerTypes, Validated,
              MapInv, IsMap
<1>9. ASSUME NEW r \in requests, MutateEntries(r) PROVE Keeps
  BY <1>9 DEF MutateEntries, Keeps, Accept, MapInv, IsMap
<1>10. ASSUME TakeEntries PROVE Keeps
  BY <1>10 DEF TakeEntries, Keeps, MapInv, IsMap
<1>11. ASSUME UNCHANGED vars PROVE Keeps
  BY <1>11 DEF vars, Keeps
<1>12. QED
  BY <1>2, <1>3, <1>4, <1>5, <1>6, <1>7, <1>8, <1>9, <1>10, <1>11, ShellTypes
     DEF Next, Handle, MapInv

LEMMA SendKeepsShell ==
    ASSUME ShellInv, NEW r, Sends(r)
    PROVE  /\ RequestsInv' /\ VersionsInv' /\ ReadInv'
           /\ VersionsIdentifyShellChanges' /\ NewestOwnerWins'
<1> DEFINE n == Cardinality(requests)
<1>1. /\ n \in Nat /\ r.id = n + 1 /\ n + 1 <= MaxRequests /\ MaxRequests \in Nat
      /\ \A q \in requests : q.id \in 1..n
  BY FS_CardinalityType, RequestsAssumption DEF ShellInv, MapInv, RequestsInv, Sends, NextId
<1>2. r \notin requests
  BY <1>1
<1>3. IsFiniteSet(requests') /\ Cardinality(requests') = n + 1
  BY <1>2, FS_AddElement DEF ShellInv, RequestsInv, Sends
<1>4. accepted[r.id] = 0 /\ accepted' = accepted /\ map' = map /\ requests' = requests \cup {r}
  BY <1>1 DEF ShellInv, RequestsInv, Sends
<1> HIDE DEF n
<1>5. RequestsInv'
  <2>1. \A q \in requests' : q.id \in 1..(n + 1)
    BY <1>1, <1>4
  <2>2. \A p, q \in requests' : p.id = q.id => p = q
    BY <1>1, <1>4 DEF ShellInv, RequestsInv
  <2>3. \A i \in 1..MaxRequests : i > n + 1 => accepted[i] = 0
    BY <1>1 DEF ShellInv, RequestsInv, n
  <2>4. accepted' \in [1..MaxRequests -> 0..2]
    BY <1>4 DEF ShellInv, RequestsInv
  <2>5. QED
    BY <1>1, <1>3, <1>4, <2>1, <2>2, <2>3, <2>4 DEF RequestsInv
<1>6. VersionsInv'
  BY <1>4 DEF ShellInv, VersionsInv, Sends
<1>7. ReadInv'
  BY <1>4 DEF ShellInv, VersionsInv, ReadInv, Sends
<1>8. ShellChanges' = ShellChanges /\ OwnerChanges' = OwnerChanges
  BY <1>4 DEF ShellChanges, OwnerChanges
<1>9. VersionsIdentifyShellChanges'
  BY <1>4, <1>8 DEF ShellInv, VersionsIdentifyShellChanges
<1>10. NewestOwnerWins'
  BY <1>4, <1>8 DEF ShellInv, NewestOwnerWins
<1>11. QED
  BY <1>5, <1>6, <1>7, <1>9, <1>10

LEMMA ChangeKeepsShell ==
    ASSUME ShellInv, NEW r, Changes(r)
    PROVE  /\ RequestsInv' /\ VersionsInv' /\ ReadInv'
           /\ VersionsIdentifyShellChanges' /\ NewestOwnerWins'
<1>1. /\ r \in requests /\ requests' = requests /\ r.type # "mutate"
      /\ map'.version = r.version /\ r.version > map.version
      /\ r.version \in Nat /\ map.version \in Nat
  BY DEF Changes, ShellInv, VersionsInv
<1>2. \A q \in requests : q.id \in 1..MaxRequests
  BY FS_CardinalityType, RequestsAssumption DEF ShellInv, MapInv, RequestsInv
<1>3. \A q \in ShellChanges : q \in requests /\ accepted[q.id] = 1 /\ q.version <= map.version
                              /\ q.version \in Nat
  BY DEF ShellChanges, ShellInv, VersionsIdentifyShellChanges, VersionsInv
<1>4. r \notin ShellChanges /\ accepted[r.id] = 0
  BY <1>1, <1>2, <1>3 DEF ShellChanges, ShellInv, RequestsInv
<1>5. /\ accepted'[r.id] = 1
      /\ \A q \in requests : q # r => accepted'[q.id] = accepted[q.id]
  BY <1>1, <1>2, <1>4 DEF Changes, ShellInv, RequestsInv
<1>6. RequestsInv'
  <2>1. accepted' \in [1..MaxRequests -> 0..2]
    <3>1. accepted \in [1..MaxRequests -> 0..2] /\ accepted' = [accepted EXCEPT ![r.id] = 1]
      BY <1>4 DEF Changes, ShellInv, RequestsInv
    <3>2. 1 \in 0..2 /\ r.id \in 1..MaxRequests
      BY <1>1, <1>2
    <3>3. QED
      BY <3>1, <3>2, Zenon
  <2>2. r.id <= Cardinality(requests) /\ r.id \in Int /\ Cardinality(requests) \in Nat
    BY <1>1, FS_CardinalityType DEF ShellInv, RequestsInv
  <2>3. \A i \in 1..MaxRequests : i > Cardinality(requests) => accepted'[i] = 0
    BY <2>2, RequestsAssumption DEF Changes, ShellInv, RequestsInv
  <2>4. QED
    BY <1>1, <2>1, <2>3 DEF ShellInv, RequestsInv
<1>7. VersionsInv'
  BY <1>1 DEF ShellInv, VersionsInv
<1>8. ReadInv'
  <2>1. ASSUME NEW q \in requests, q.type \in Validated
        PROVE  /\ q.read.version \in Nat /\ q.version = q.read.version + 1
               /\ q.read.version <= map.version
    BY <2>1 DEF ShellInv, ReadInv
  <2>2. QED
    BY <1>1, <2>1 DEF ReadInv
<1>9. ShellChanges' = ShellChanges \cup {r}
  BY <1>1, <1>4, <1>5 DEF ShellChanges
<1>10. VersionsIdentifyShellChanges'
  <2>1. \A q \in ShellChanges' : accepted'[q.id] = 1 /\ q.version <= map'.version
    BY <1>1, <1>3, <1>4, <1>5, <1>9
  <2>2. \A q \in ShellChanges : q.version # r.version
    BY <1>1, <1>3
  <2>3. \A p, q \in ShellChanges : p.version = q.version => p = q
    BY DEF ShellInv, VersionsIdentifyShellChanges
  <2>4. \A p, q \in ShellChanges' : p.version = q.version => p = q
    BY <1>9, <2>2, <2>3
  <2>5. \E q \in ShellChanges' : q.version = map'.version
    BY <1>1, <1>9
  <2>6. QED
    BY <2>1, <2>4, <2>5 DEF VersionsIdentifyShellChanges
<1>11. OwnerChanges \subseteq ShellChanges
  BY DEF OwnerChanges, ShellChanges
<1>12. NewestOwnerWins'
  <2>1. CASE r.type \in OwnerTypes
    <3>1. OwnerChanges' = OwnerChanges \cup {r}
      BY <1>1, <1>4, <1>5, <2>1 DEF OwnerChanges, OwnerTypes
    <3>2. \A q \in OwnerChanges : ~(r.version <= q.version)
      BY <1>1, <1>3, <1>11
    <3>3. map'.owner = r.user
      BY <2>1 DEF Changes
    <3>4. QED
      BY <3>1, <3>2, <3>3 DEF NewestOwnerWins
  <2>2. CASE r.type \notin OwnerTypes
    <3>1. OwnerChanges' = OwnerChanges
      BY <1>1, <1>4, <1>5, <2>2 DEF OwnerChanges, OwnerTypes
    <3>2. map'.owner = map.owner
      BY <2>2 DEF Changes
    <3>3. QED
      BY <3>1, <3>2 DEF ShellInv, NewestOwnerWins
  <2>3. QED
    BY <2>1, <2>2
<1>13. QED
  BY <1>6, <1>7, <1>8, <1>10, <1>12

LEMMA KeepingKeepsShell ==
    ASSUME ShellInv, Keeps
    PROVE  /\ RequestsInv' /\ VersionsInv' /\ ReadInv'
           /\ VersionsIdentifyShellChanges' /\ NewestOwnerWins'
<1>1. /\ requests' = requests /\ map'.version = map.version
      /\ map'.permissions = map.permissions /\ map'.owner = map.owner
  BY DEF Keeps
<1>2. \A q \in requests : q.id \in 1..MaxRequests /\ q.id <= Cardinality(requests)
  BY FS_CardinalityType, RequestsAssumption DEF ShellInv, MapInv, RequestsInv
<1>3. \A q \in requests : q.type # "mutate" => accepted'[q.id] = accepted[q.id]
  BY <1>2 DEF Keeps, ShellInv, RequestsInv
<1>4. RequestsInv'
  <2>1. Cardinality(requests) \in Nat
    BY FS_CardinalityType DEF ShellInv, RequestsInv
  <2>2. accepted' \in [1..MaxRequests -> 0..2]
    BY DEF Keeps, ShellInv, RequestsInv
  <2>3. \A i \in 1..MaxRequests : i > Cardinality(requests) => accepted'[i] = 0
    BY <1>2, <2>1, RequestsAssumption DEF Keeps, ShellInv, RequestsInv
  <2>4. QED
    BY <1>1, <2>2, <2>3 DEF ShellInv, RequestsInv
<1>5. VersionsInv' /\ ReadInv'
  BY <1>1 DEF ShellInv, VersionsInv, ReadInv
<1>6. ShellChanges' = ShellChanges /\ OwnerChanges' = OwnerChanges
  BY <1>1, <1>3 DEF ShellChanges, OwnerChanges
<1>7. VersionsIdentifyShellChanges'
  BY <1>1, <1>3, <1>6 DEF ShellInv, VersionsIdentifyShellChanges, ShellChanges
<1>8. NewestOwnerWins'
  BY <1>1, <1>6 DEF ShellInv, NewestOwnerWins
<1>9. QED
  BY <1>4, <1>5, <1>7, <1>8

LEMMA ShellStep == ShellInv /\ NoWrap /\ [Next]_vars => ShellInv'
<1> SUFFICES ASSUME ShellInv, NoWrap, [Next]_vars PROVE ShellInv'
  OBVIOUS
<1>1. MapInv'
  BY MapStep DEF ShellInv
<1>2. Keeps \/ (\E r : Sends(r)) \/ \E r : Changes(r)
  BY StepIsOneOfThree DEF ShellInv
<1>3. /\ RequestsInv' /\ VersionsInv' /\ ReadInv'
      /\ VersionsIdentifyShellChanges' /\ NewestOwnerWins'
  BY <1>2, SendKeepsShell, ChangeKeepsShell, KeepingKeepsShell
<1>4. QED
  BY <1>1, <1>3 DEF ShellInv

LEMMA ShellInit == Init => ShellInv
<1> SUFFICES ASSUME Init PROVE ShellInv
  OBVIOUS
<1>1. MapInv /\ map.version = 0 /\ requests = {}
  BY MapsAssumption DEF Init, MapInv
<1>2. RequestsInv
  BY <1>1, FS_EmptySet, RequestsAssumption DEF Init, RequestsInv
<1>3. QED
  BY <1>1, <1>2 DEF ShellInv, VersionsInv, ReadInv, VersionsIdentifyShellChanges, ShellChanges,
                    NewestOwnerWins, OwnerChanges

LEMMA ShellInvariant == Spec /\ []NoWrap => []ShellInv
BY ShellInit, ShellStep, PTL DEF Spec

\* No request to change permissions or owner takes effect twice, and no two that
\* take effect share a version, unless versions wrap around (map.rs:292, 363).
THEOREM VersionsIdentifyShellChangesHolds ==
    Spec /\ []NoWrap => []VersionsIdentifyShellChanges
<1>1. ShellInv => VersionsIdentifyShellChanges
  BY DEF ShellInv
<1>2. QED
  BY <1>1, ShellInvariant, PTL

\* The owner is the one that the newest accepted change names, however late the
\* others arrive (change_owner, change_owner_without_validation, map.rs:340, 358).
THEOREM NewestOwnerWinsHolds == Spec /\ []NoWrap => []NewestOwnerWins
<1>1. ShellInv => NewestOwnerWins
  BY DEF ShellInv
<1>2. QED
  BY <1>1, ShellInvariant, PTL

\* A validated change is only accepted on the permissions and the owner that its
\* client had read (set_user_permissions, map.rs:292).
THEOREM ShellChangeSawCurrentHolds == Spec /\ []NoWrap => ShellChangeSawCurrent
<1>1. ASSUME ShellInv, NoWrap, [Next]_vars,
             NEW q \in requests, q.type \in Validated, IsAccepted(q)
      PROVE  q.read.permissions = map.permissions /\ q.read.owner = map.owner
  <2>1. q.id \in 1..MaxRequests /\ accepted[q.id] \in 0..2
    BY <1>1, FS_CardinalityType, RequestsAssumption DEF ShellInv, MapInv, RequestsInv
  <2>2. Changes(q)
    <3>1. Keeps \/ (\E r : Sends(r)) \/ \E r : Changes(r)
      BY <1>1, StepIsOneOfThree DEF ShellInv
    <3>2. ASSUME Keeps PROVE FALSE
      <4>1. accepted' # accepted
        BY <1>1, <2>1 DEF IsAccepted
      <4>2. PICK r \in requests :
              /\ r.type = "mutate"
              /\ accepted' = [accepted EXCEPT ![r.id] = IF @ = 2 THEN 2 ELSE @ + 1]
        BY <3>2, <4>1 DEF Keeps
      <4>3. r.id # q.id
        BY <1>1, <4>2 DEF Validated, ShellInv, RequestsInv
      <4>4. accepted'[q.id] = accepted[q.id]
        BY <2>1, <4>2, <4>3 DEF ShellInv, RequestsInv
      <4>5. QED
        BY <1>1, <2>1, <4>4 DEF IsAccepted
    <3>3. ASSUME NEW r, Sends(r) PROVE FALSE
      BY <1>1, <2>1, <3>3 DEF Sends, IsAccepted
    <3>4. ASSUME NEW r, Changes(r), r # q PROVE FALSE
      <4>1. r.id # q.id /\ r.id \in 1..MaxRequests
        BY <1>1, <3>4, FS_CardinalityType, RequestsAssumption
           DEF Changes, ShellInv, MapInv, RequestsInv
      <4>2. accepted'[q.id] = accepted[q.id]
        BY <2>1, <3>4, <4>1 DEF Changes, ShellInv, RequestsInv
      <4>3. QED
        BY <1>1, <2>1, <4>2 DEF IsAccepted
    <3>5. QED
      BY <3>1, <3>2, <3>3, <3>4
  <2>3. q.version = map.version + 1 /\ map.version \in Nat
    BY <1>1, <2>2 DEF Changes, ShellInv, VersionsInv
  <2>4. /\ q.read.version \in Nat /\ q.version = q.read.version + 1
        /\ q.read.version = map.version =>
             q.read.permissions = map.permissions /\ q.read.owner = map.owner
    BY <1>1 DEF ShellInv, ReadInv
  <2>5. QED
    BY <2>3, <2>4
<1>2. ShellInv /\ NoWrap /\ [Next]_vars =>
        [\A q \in requests : q.type \in {"set", "del", "chown"} /\ IsAccepted(q) =>
           q.read.permissions = map.permissions /\ q.read.owner = map.owner]_vars
  BY <1>1 DEF Validated
<1>3. QED
  BY <1>2, ShellInvariant, PTL DEF Spec, ShellChangeSawCurrent

-----------------------------------------------------------------------------
\* The types, of the requests as of the Map, wrapping around or not.

\* A step sends one request, or accepts at most one of those that were sent.
LEMMA RequestsStep == MapInv /\ RequestsInv /\ [Next]_vars => RequestsInv'
<1> SUFFICES ASSUME MapInv, RequestsInv, [Next]_vars PROVE RequestsInv'
  OBVIOUS
<1> DEFINE n == Cardinality(requests)
<1>1. /\ n \in Nat /\ MaxRequests \in Nat /\ n <= MaxRequests /\ NextId = n + 1
      /\ workload.requests \in 0..MaxRequests
      /\ \A q \in requests : q.id \in 1..n
  BY FS_CardinalityType, RequestsAssumption DEF MapInv, RequestsInv, NextId
<1> HIDE DEF n
<1>2. ASSUME NEW r, Send(r), r.id = NextId PROVE RequestsInv'
  <2>1. r \notin requests /\ n + 1 <= MaxRequests
    BY <1>1, <1>2 DEF Send
  <2>2. IsFiniteSet(requests') /\ Cardinality(requests') = n + 1
    BY <1>2, <2>1, FS_AddElement DEF RequestsInv, Send, n
  <2>3. \A q \in requests' : q.id \in 1..(n + 1)
    BY <1>1, <1>2 DEF Send
  <2>4. \A p, q \in requests' : p.id = q.id => p = q
    BY <1>1, <1>2 DEF Send, RequestsInv
  <2>5. accepted' \in [1..MaxRequests -> 0..2]
    BY <1>2 DEF Send, RequestsInv
  <2>6. \A i \in 1..MaxRequests : i > n + 1 => accepted'[i] = 0
    BY <1>1, <1>2 DEF Send, RequestsInv, n
  <2>7. QED
    BY <2>1, <2>2, <2>3, <2>4, <2>5, <2>6 DEF RequestsInv
<1>3. ASSUME requests' = requests, NEW r \in requests, Accept(r) PROVE RequestsInv'
  <2>1. r.id \in 1..MaxRequests /\ r.id <= n
    BY <1>1
  <2>2. accepted' \in [1..MaxRequests -> 0..2]
    BY <1>3, <2>1 DEF Accept, RequestsInv
  <2>3. \A i \in 1..MaxRequests : i > n => accepted'[i] = 0
    BY <1>1, <1>3, <2>1 DEF Accept, RequestsInv, n
  <2>4. QED
    BY <1>3, <2>2, <2>3 DEF RequestsInv, n
<1>4. ASSUME requests' = requests, accepted' = accepted PROVE RequestsInv'
  BY <1>4 DEF RequestsInv
<1>5. ASSUME NEW user, SendMutateEntries(user) PROVE RequestsInv'
  <2>1. PICK a : Send([type |-> "mutate", by |-> user, actions |-> a,
                       id |-> NextId, read |-> map, life |-> life])
    BY <1>5 DEF SendMutateEntries
  <2>2. QED
    BY <1>2, <2>1
<1>6. ASSUME NEW type, SendShellChange(type) PROVE RequestsInv'
  <2>1. PICK u, p, v :
          Send([type |-> type, user |-> u, set |-> p, version |-> v,
                id |-> NextId, read |-> map, life |-> life])
    BY <1>6 DEF SendShellChange
  <2>2. QED
    BY <1>2, <2>1
<1>7. ASSUME NEW r \in requests, Handle(r) PROVE RequestsInv'
  BY <1>3, <1>7 DEF Handle, MutateEntries, SetUserPermissions, DelUserPermissions, ChangeOwner,
                    DelUserPermissionsWithoutValidation, ChangeOwnerWithoutValidation
<1>8. QED
  BY <1>4, <1>5, <1>6, <1>7 DEF Next, vars, TakeEntries

LEMMA RequestsInvariant == Spec => []RequestsInv
<1>1. Init => RequestsInv
  BY FS_EmptySet, RequestsAssumption DEF Init, RequestsInv
<1>2. QED
  BY <1>1, RequestsStep, MapInvariant, PTL DEF Spec

\* What a request would write is of the types of the Map.
IsTypedRequest(q) ==
    /\ q.type = "mutate" =>
         /\ DOMAIN q.actions \subseteq Keys
         /\ \A k \in DOMAIN q.actions : q.actions[k].op # "Delete" =>
               q.actions[k].content \in Contents /\ q.actions[k].version \in Versions
    /\ q.type # "mutate" => q.user \in Users /\ q.version \in Versions
    /\ q.type = "set" => q.set \in PermissionSets

\* Inductive.
TypesInv == MapInv /\ IsTyped(map) /\ \A q \in requests : IsTypedRequest(q)

\* Wrapping around keeps a version within a u64.
LEMMA SuccTyped == ASSUME NEW v \in Versions PROVE Succ(v) \in Versions
BY U64Assumption DEF Versions, Succ

LEMMA SentIsTyped ==
    ASSUME TypesInv
    PROVE  /\ \A user : SendMutateEntries(user) => \A q \in requests' : IsTypedRequest(q)
           /\ \A type \in workload.shellOps :
                SendShellChange(type) => \A q \in requests' : IsTypedRequest(q)
<1>1. ASSUME NEW user, SendMutateEntries(user) PROVE \A q \in requests' : IsTypedRequest(q)
  <2>1. PICK ks \in SUBSET workload.keys \ {{}} :
          \E actions \in [ks -> UNION {ActionsFor(k) : k \in ks}] :
              /\ \A k \in ks : actions[k] \in ActionsFor(k)
              /\ Send([type |-> "mutate", by |-> user, actions |-> actions,
                       id |-> NextId, read |-> map, life |-> life])
    BY <1>1 DEF SendMutateEntries
  <2>2. PICK actions \in [ks -> UNION {ActionsFor(k) : k \in ks}] :
              /\ \A k \in ks : actions[k] \in ActionsFor(k)
              /\ Send([type |-> "mutate", by |-> user, actions |-> actions,
                       id |-> NextId, read |-> map, life |-> life])
    BY <2>1
  <2> DEFINE r == [type |-> "mutate", by |-> user, actions |-> actions,
                   id |-> NextId, read |-> map, life |-> life]
  <2>3. r.type = "mutate" /\ r.actions = actions /\ DOMAIN actions = ks
    BY <2>2
  <2>4. requests' = requests \cup {r}
    BY <2>2 DEF Send
  <2> HIDE DEF r
  <2>5. ks \subseteq Keys
    BY MapsAssumption DEF TypesInv, MapInv
  <2>6. ASSUME NEW k \in ks, actions[k].op # "Delete"
        PROVE  actions[k].content \in Contents /\ actions[k].version \in Versions
    <3>1. Version(k) \in Versions
      BY U64Assumption DEF Version, TypesInv, IsTyped, Value, Versions
    <3>2. Succ(Version(k)) \in Versions /\ 0 \in Versions
      BY <3>1, SuccTyped, U64Assumption DEF Versions
    <3>3. workload.insertVersions \subseteq Versions
      BY U64Assumption DEF TypesInv, MapInv
    <3>4. QED
      BY <2>2, <2>6, <3>2, <3>3 DEF ActionsFor
  <2>7. IsTypedRequest(r)
    BY <2>3, <2>5, <2>6 DEF IsTypedRequest
  <2>8. QED
    BY <2>4, <2>7 DEF TypesInv
<1>2. ASSUME NEW type \in workload.shellOps, SendShellChange(type)
      PROVE  \A q \in requests' : IsTypedRequest(q)
  <2>1. PICK u \in Users, p \in IF type = "set" THEN PermissionSets ELSE {{}},
             v \in IF type \in {"set", "del", "chown"} THEN {Succ(map.version)} ELSE ForcedVersions :
          Send([type |-> type, user |-> u, set |-> p, version |-> v,
                id |-> NextId, read |-> map, life |-> life])
    BY <1>2 DEF SendShellChange
  <2> DEFINE r == [type |-> type, user |-> u, set |-> p, version |-> v,
                   id |-> NextId, read |-> map, life |-> life]
  <2>2. r.type = type /\ r.user = u /\ r.set = p /\ r.version = v
    OBVIOUS
  <2>3. requests' = requests \cup {r}
    BY <2>1 DEF Send
  <2> HIDE DEF r
  <2>4. v \in Versions /\ (type = "set" => p \in PermissionSets)
    BY SuccTyped, U64Assumption DEF TypesInv, IsTyped
  <2>5. r.type # "mutate"
    BY <2>2, ShellTypes DEF TypesInv, MapInv
  <2>6. QED
    BY <2>2, <2>3, <2>4, <2>5 DEF TypesInv, IsTypedRequest
<1>3. QED
  BY <1>1, <1>2

\* A request that is typed leaves a typed Map.
LEMMA HandledIsTyped ==
    ASSUME TypesInv, NEW q \in requests, Handle(q)
    PROVE  IsTyped(map')
<1>1. IsTypedRequest(q) /\ IsMap(map) /\ IsTyped(map)
  BY DEF TypesInv, MapInv
<1>2. CASE MutateEntries(q)
  <2>1. /\ map' = [map EXCEPT !.data = Mutated(@, q.actions)] /\ q.type = "mutate"
    BY <1>2 DEF MutateEntries
  <2>2. /\ map'.data = Mutated(map.data, q.actions) /\ map'.kind = map.kind
        /\ map'.permissions = map.permissions /\ map'.version = map.version
        /\ map'.owner = map.owner
    BY <1>1, <2>1 DEF IsMap
  <2>3. \A k \in DOMAIN map'.data : k \in Keys /\ map'.data[k] \in Value
    BY <1>1, <2>1, <2>2 DEF Mutated, IsTyped, IsTypedRequest, Value
  <2>4. QED
    BY <1>1, <2>2, <2>3 DEF IsTyped
<1>3. CASE SetUserPermissions(q)
  <2>1. /\ map'.permissions = With(map.permissions, q.user, q.set) /\ map'.version = q.version
        /\ map'.data = map.data /\ map'.kind = map.kind /\ map'.owner = map.owner
        /\ q.user \in Users /\ q.set \in PermissionSets /\ q.version \in Versions
    BY <1>1, <1>3 DEF SetUserPermissions, IsMap, IsTypedRequest
  <2>2. \A u \in DOMAIN map'.permissions :
          u \in Users /\ map'.permissions[u] \in PermissionSets
    BY <1>1, <2>1 DEF IsTyped, With
  <2>3. QED
    BY <1>1, <2>1, <2>2 DEF IsTyped
<1>4. CASE DelUserPermissions(q) \/ DelUserPermissionsWithoutValidation(q)
  <2>1. /\ map'.permissions = Without(map.permissions, q.user) /\ map'.version = q.version
        /\ map'.data = map.data /\ map'.kind = map.kind /\ map'.owner = map.owner
        /\ q.version \in Versions
    BY <1>1, <1>4 DEF DelUserPermissions, DelUserPermissionsWithoutValidation, IsMap,
                      IsTypedRequest
  <2>2. \A u \in DOMAIN map'.permissions :
          u \in DOMAIN map.permissions /\ map'.permissions[u] = map.permissions[u]
    BY <2>1 DEF Without
  <2>3. QED
    BY <1>1, <2>1, <2>2 DEF IsTyped
<1>5. CASE ChangeOwner(q) \/ ChangeOwnerWithoutValidation(q)
  BY <1>1, <1>5 DEF ChangeOwner, ChangeOwnerWithoutValidation, IsMap, IsTyped, IsTypedRequest
<1>6. QED
  BY <1>2, <1>3, <1>4, <1>5 DEF Handle

LEMMA TypesStep == TypesInv /\ [Next]_vars => TypesInv'
<1> SUFFICES ASSUME TypesInv, [Next]_vars PROVE TypesInv'
  OBVIOUS
<1>1. MapInv'
  BY MapStep DEF TypesInv
<1>2. ASSUME NEW q \in requests, Handle(q) PROVE TypesInv'
  <2>1. requests' = requests
    BY <1>2 DEF Handle, MutateEntries, SetUserPermissions, DelUserPermissions, ChangeOwner,
                DelUserPermissionsWithoutValidation, ChangeOwnerWithoutValidation
  <2>2. QED
    BY <1>1, <1>2, <2>1, HandledIsTyped DEF TypesInv
<1>3. ASSUME TakeEntries PROVE TypesInv'
  <2>1. /\ map'.data = <<>> /\ map'.kind = map.kind /\ map'.permissions = map.permissions
        /\ map'.version = map.version /\ map'.owner = map.owner /\ requests' = requests
    BY <1>3 DEF TakeEntries, TypesInv, MapInv, IsMap
  <2>2. DOMAIN map'.data = {}
    BY <2>1
  <2>3. QED
    BY <1>1, <2>1, <2>2 DEF TypesInv, IsTyped
<1>4. ASSUME NEW user, SendMutateEntries(user) PROVE TypesInv'
  <2>1. map' = map
    BY <1>4 DEF SendMutateEntries, Send
  <2>2. QED
    BY <1>1, <1>4, <2>1, SentIsTyped DEF TypesInv
<1>5. ASSUME NEW type \in workload.shellOps, SendShellChange(type) PROVE TypesInv'
  <2>1. map' = map
    BY <1>5 DEF SendShellChange, Send
  <2>2. QED
    BY <1>1, <1>5, <2>1, SentIsTyped DEF TypesInv
<1>6. ASSUME UNCHANGED vars PROVE TypesInv'
  BY <1>1, <1>6 DEF vars, TypesInv
<1>7. QED
  BY <1>2, <1>3, <1>4, <1>5, <1>6 DEF Next

\* Whatever order requests arrive in, entries, permissions and owner stay of their
\* types and every version within a u64, wrapping around or not (map.rs:39, 292, 618).
THEOREM MapTypeOKHolds == Spec => []MapTypeOK
<1>1. Init => TypesInv
  BY MapsAssumption DEF Init, TypesInv, MapInv
<1>2. Spec => []TypesInv
  BY <1>1, TypesStep, PTL DEF Spec
<1>3. TypesInv /\ RequestsInv => MapTypeOK
  BY FS_CardinalityType, RequestsAssumption DEF TypesInv, MapInv, RequestsInv, MapTypeOK
<1>4. QED
  BY <1>2, <1>3, RequestsInvariant, PTL

-----------------------------------------------------------------------------
\* Entries of a sequenced Map, as long as their versions do not wrap around.

EntriesNoWrap == \A k \in DOMAIN map.data : map.data[k].version < U64 - 1

\* What an action of a request r for k knows of the entry: as long as k was not
\* inserted since, the entry is the one its client had read, or a later version of
\* it, or gone.
Foresees(r, k) ==
    /\ k \in Keys /\ r.actions[k].version \in Nat
    /\ r.life[k] \in Nat /\ r.life[k] <= life[k]
    /\ k \in DOMAIN r.read.data =>
         /\ r.read.data[k].version \in Nat
         /\ r.actions[k].op # "Insert" => r.actions[k].version = r.read.data[k].version + 1
    /\ r.life[k] = life[k] /\ k \in DOMAIN map.data =>
         /\ k \in DOMAIN r.read.data
         /\ r.read.data[k].version <= map.data[k].version
         /\ r.read.data[k].version = map.data[k].version => r.read.data[k] = map.data[k]

\* Inductive, for a sequenced Map.
EntriesInv ==
    /\ life \in [Keys -> Nat]
    /\ \A k \in DOMAIN map.data : map.data[k].version \in Nat
    /\ \A r \in requests : r.type = "mutate" => \A k \in DOMAIN r.actions : Foresees(r, k)

\* What a step does to one entry: it goes or stays, gets the next version, or
\* comes (back).
Entry(k) ==
    \/ k \notin DOMAIN map'.data /\ life'[k] = life[k]
    \/ /\ k \in DOMAIN map.data /\ k \in DOMAIN map'.data /\ life'[k] = life[k]
       /\ \/ map'.data[k] = map.data[k]
          \/ map'.data[k].version = map.data[k].version + 1
    \/ /\ k \notin DOMAIN map.data /\ k \in DOMAIN map'.data /\ life'[k] = life[k] + 1
       /\ map'.data[k].version \in Nat

LEMMA EntryForeseen ==
    ASSUME EntriesInv, NEW r \in requests, r.type = "mutate", NEW k \in DOMAIN r.actions,
           Entry(k)
    PROVE  Foresees(r, k)'
<1>1. Foresees(r, k)
  BY DEF EntriesInv
<1>2. k \in Keys /\ life[k] \in Nat /\ r.life[k] \in Nat /\ r.life[k] <= life[k]
  BY <1>1 DEF Foresees, EntriesInv
<1>3. CASE k \notin DOMAIN map'.data /\ life'[k] = life[k]
  BY <1>1, <1>3 DEF Foresees
<1>4. CASE /\ k \in DOMAIN map.data /\ k \in DOMAIN map'.data /\ life'[k] = life[k]
           /\ map'.data[k] = map.data[k]
  BY <1>1, <1>4 DEF Foresees
<1>5. CASE /\ k \in DOMAIN map.data /\ k \in DOMAIN map'.data /\ life'[k] = life[k]
           /\ map'.data[k].version = map.data[k].version + 1
  <2>1. map.data[k].version \in Nat
    BY <1>5 DEF EntriesInv
  <2>2. QED
    BY <1>1, <1>5, <2>1 DEF Foresees
<1>6. CASE /\ k \notin DOMAIN map.data /\ k \in DOMAIN map'.data /\ life'[k] = life[k] + 1
           /\ map'.data[k].version \in Nat
  BY <1>1, <1>2, <1>6 DEF Foresees
<1>7. QED
  BY <1>3, <1>4, <1>5, <1>6 DEF Entry

\* The versions after a step.
LEMMA EntryVersions ==
    ASSUME EntriesInv, NEW k \in DOMAIN map'.data, Entry(k)
    PROVE  map'.data[k].version \in Nat
BY DEF Entry, EntriesInv

\* mutate_entries of a sequenced Map: an update carries the version after the
\* current one, an insert is for a key that is absent.
LEMMA MutateEntry ==
    ASSUME MapInv, EntriesInv, EntriesNoWrap, map.kind = "Seq",
           NEW r \in requests, MutateEntries(r), NEW k \in Keys
    PROVE  Entry(k)
<1>1. map'.data = Mutated(map.data, r.actions) /\ r.type = "mutate"
  BY DEF MutateEntries, MapInv, IsMap
<1>2. life'[k] = IF k \in DOMAIN map'.data \ DOMAIN map.data THEN life[k] + 1 ELSE life[k]
  BY DEF MutateEntries, RecordEntries
<1>3. k \in DOMAIN map.data => /\ map.data[k].version \in Nat
                               /\ Succ(map.data[k].version) = map.data[k].version + 1
  BY U64Assumption DEF EntriesInv, EntriesNoWrap, Succ
<1>4. k \in DOMAIN r.actions =>
        /\ r.actions[k].version \in Nat
        /\ IF r.actions[k].op = "Insert" THEN k \notin DOMAIN map.data
           ELSE /\ k \in DOMAIN map.data
                /\ r.actions[k].version = Succ(map.data[k].version)
  BY <1>1 DEF MutateEntries, Errors, Succeeds, EntriesInv, Foresees
<1>5. CASE k \notin DOMAIN r.actions
  <2>1. /\ k \in DOMAIN map'.data <=> k \in DOMAIN map.data
        /\ k \in DOMAIN map.data => map'.data[k] = map.data[k]
    BY <1>1, <1>5 DEF Mutated
  <2>2. QED
    BY <1>2, <2>1 DEF Entry
<1>6. CASE k \in DOMAIN r.actions /\ r.actions[k].op = "Delete"
  <2>1. k \notin DOMAIN map'.data
    BY <1>1, <1>6 DEF Mutated
  <2>2. QED
    BY <1>2, <2>1 DEF Entry
<1>7. CASE k \in DOMAIN r.actions /\ r.actions[k].op # "Delete"
  <2>1. k \in DOMAIN map'.data /\ map'.data[k].version = r.actions[k].version
    BY <1>1, <1>7 DEF Mutated
  <2>2. QED
    BY <1>2, <1>3, <1>4, <1>7, <2>1 DEF Entry
<1>8. QED
  BY <1>5, <1>6, <1>7

LEMMA TakeEntry ==
    ASSUME MapInv, TakeEntries, NEW k \in Keys
    PROVE  Entry(k)
<1>1. map'.data = <<>>
  BY DEF TakeEntries, MapInv, IsMap
<1>2. k \notin DOMAIN map'.data
  BY <1>1
<1>3. life'[k] = life[k]
  BY <1>2 DEF TakeEntries, RecordEntries
<1>4. QED
  BY <1>2, <1>3 DEF Entry

\* A request for entries knows the entries as they are when it is sent.
LEMMA SendForesees ==
    ASSUME MapInv, EntriesInv, EntriesNoWrap, map.kind = "Seq", NEW user,
           SendMutateEntries(user)
    PROVE  /\ map' = map /\ life' = life
           /\ \E r : /\ requests' = requests \cup {r}
                     /\ \A k \in DOMAIN r.actions : Foresees(r, k)
<1>1. PICK ks \in SUBSET workload.keys \ {{}} :
        \E actions \in [ks -> UNION {ActionsFor(k) : k \in ks}] :
            /\ \A k \in ks : actions[k] \in ActionsFor(k)
            /\ Send([type |-> "mutate", by |-> user, actions |-> actions,
                     id |-> NextId, read |-> map, life |-> life])
  BY DEF SendMutateEntries
<1>2. PICK actions \in [ks -> UNION {ActionsFor(k) : k \in ks}] :
            /\ \A k \in ks : actions[k] \in ActionsFor(k)
            /\ Send([type |-> "mutate", by |-> user, actions |-> actions,
                     id |-> NextId, read |-> map, life |-> life])
  BY <1>1
<1> DEFINE r == [type |-> "mutate", by |-> user, actions |-> actions,
                 id |-> NextId, read |-> map, life |-> life]
<1>3. r.actions = actions /\ r.read = map /\ r.life = life /\ DOMAIN actions = ks
  BY <1>2
<1>4. requests' = requests \cup {r} /\ map' = map /\ life' = life
  BY <1>2 DEF Send
<1> HIDE DEF r
<1>5. ASSUME NEW k \in ks PROVE Foresees(r, k)
  <2>1. k \in Keys /\ life[k] \in Nat
    BY MapsAssumption DEF MapInv, EntriesInv
  <2>2. actions[k] \in ActionsFor(k)
    BY <1>2
  <2>3. workload.insertVersions \subseteq Nat
    BY U64Assumption DEF MapInv, Versions
  <2>4. /\ Version(k) \in Nat
        /\ k \in DOMAIN map.data => Version(k) = map.data[k].version
    BY DEF Version, EntriesInv
  <2>5. /\ Succ(Version(k)) \in Nat
        /\ k \in DOMAIN map.data => Succ(Version(k)) = Version(k) + 1
    BY <2>4, U64Assumption DEF EntriesNoWrap, Succ
  <2>6. /\ actions[k].version \in Nat
        /\ actions[k].op # "Insert" => actions[k].version = Succ(Version(k))
    BY <2>2, <2>3, <2>5 DEF ActionsFor
  <2>7. QED
    BY <1>3, <2>1, <2>4, <2>5, <2>6 DEF Foresees
<1>6. QED
  BY <1>3, <1>4, <1>5

\* A Map never changes its kind.
LEMMA KindStays ==
    ASSUME MapInv, [Next]_vars
    PROVE  map'.kind = map.kind
<1>1. ASSUME NEW q, MutateEntries(q) PROVE map'.kind = map.kind
  BY <1>1 DEF MutateEntries, MapInv, IsMap
<1>2. ASSUME NEW q, SetUserPermissions(q) PROVE map'.kind = map.kind
  BY <1>2 DEF SetUserPermissions, MapInv, IsMap
<1>3. ASSUME NEW q, DelUserPermissions(q) \/ DelUserPermissionsWithoutValidation(q)
      PROVE  map'.kind = map.kind
  BY <1>3 DEF DelUserPermissions, DelUserPermissionsWithoutValidation, MapInv, IsMap
<1>4. ASSUME NEW q, ChangeOwner(q) \/ ChangeOwnerWithoutValidation(q)
      PROVE  map'.kind = map.kind
  BY <1>4 DEF ChangeOwner, ChangeOwnerWithoutValidation, MapInv, IsMap
<1>5. ASSUME TakeEntries PROVE map'.kind = map.kind
  BY <1>5 DEF TakeEntries, MapInv, IsMap
<1>6. QED
  BY <1>1, <1>2, <1>3, <1>4, <1>5
     DEF Next, Handle, vars, SendMutateEntries, SendShellChange, Send

\* A step that changes entries changes each of them in one of the ways of Entry.
LEMMA ChangedEntries ==
    ASSUME EntriesInv, life' \in [Keys -> Nat], requests' = requests,
           \A k \in Keys : Entry(k), DOMAIN map'.data \subseteq DOMAIN map.data \cup Keys,
           \A k \in DOMAIN map.data \ Keys :
              k \in DOMAIN map'.data => map'.data[k] = map.data[k]
    PROVE  EntriesInv'
<1>1. \A k \in DOMAIN map'.data : map'.data[k].version \in Nat
  BY EntryVersions DEF EntriesInv
<1>2. \A r \in requests : r.type = "mutate" =>
        \A k \in DOMAIN r.actions : Foresees(r, k)'
  <2>1. ASSUME NEW r \in requests, r.type = "mutate", NEW k \in DOMAIN r.actions
        PROVE  Foresees(r, k)'
    <3>1. k \in Keys
      BY <2>1 DEF EntriesInv, Foresees
    <3>2. QED
      BY <2>1, <3>1, EntryForeseen
  <2>2. QED
    BY <2>1
<1>3. QED
  BY <1>1, <1>2 DEF EntriesInv

\* What is sent is foreseen, and what was sent before as well.
LEMMA MoreRequests ==
    ASSUME EntriesInv, life' = life, map'.data = map.data, NEW r,
           requests' \subseteq requests \cup {r},
           r.type = "mutate" => \A k \in DOMAIN r.actions : Foresees(r, k)
    PROVE  EntriesInv'
<1>1. \A q \in requests' : q.type = "mutate" => \A k \in DOMAIN q.actions : Foresees(q, k)
  BY DEF EntriesInv
<1>2. QED
  BY <1>1 DEF EntriesInv, Foresees

SeqInv == map.kind = "Seq" => EntriesInv

LEMMA SeqStep == MapInv /\ SeqInv /\ EntriesNoWrap /\ [Next]_vars => SeqInv'
<1> SUFFICES ASSUME MapInv, SeqInv, EntriesNoWrap, [Next]_vars, map.kind = "Seq"
             PROVE  EntriesInv'
  BY KindStays DEF SeqInv
<1>0. EntriesInv /\ life \in [Keys -> Nat]
  BY DEF SeqInv, EntriesInv
<1>1. ASSUME NEW r \in requests, MutateEntries(r) PROVE EntriesInv'
  <2>1. map'.data = Mutated(map.data, r.actions) /\ r.type = "mutate" /\ requests' = requests
    BY <1>1 DEF MutateEntries, MapInv, IsMap
  <2>2. DOMAIN r.actions \subseteq Keys
    BY <1>0, <2>1 DEF EntriesInv, Foresees
  <2>3. /\ DOMAIN map'.data \subseteq DOMAIN map.data \cup Keys
        /\ \A k \in DOMAIN map.data \ Keys :
              k \in DOMAIN map'.data => map'.data[k] = map.data[k]
    BY <2>1, <2>2 DEF Mutated
  <2>4. life' \in [Keys -> Nat]
    BY <1>0, <1>1 DEF MutateEntries, RecordEntries
  <2>5. QED
    BY <1>0, <1>1, <2>1, <2>3, <2>4, MutateEntry, ChangedEntries
<1>2. ASSUME TakeEntries PROVE EntriesInv'
  <2>1. map'.data = <<>> /\ requests' = requests
    BY <1>2 DEF TakeEntries, MapInv, IsMap
  <2>2. DOMAIN map'.data = {}
    BY <2>1
  <2>3. life' \in [Keys -> Nat]
    BY <1>0, <1>2 DEF TakeEntries, RecordEntries
  <2>4. QED
    BY <1>0, <1>2, <2>1, <2>2, <2>3, TakeEntry, ChangedEntries
<1>3. ASSUME NEW user, SendMutateEntries(user) PROVE EntriesInv'
  BY <1>0, <1>3, SendForesees, MoreRequests
<1>4. ASSUME NEW type, SendShellChange(type), type # "mutate" PROVE EntriesInv'
  <2>1. PICK u, p, v :
          Send([type |-> type, user |-> u, set |-> p, version |-> v,
                id |-> NextId, read |-> map, life |-> life])
    BY <1>4 DEF SendShellChange
  <2> DEFINE r == [type |-> type, user |-> u, set |-> p, version |-> v,
                   id |-> NextId, read |-> map, life |-> life]
  <2>2. r.type # "mutate" /\ requests' = requests \cup {r} /\ map' = map /\ life' = life
    BY <1>4, <2>1 DEF Send
  <2> HIDE DEF r
  <2>3. QED
    BY <1>0, <2>2, MoreRequests
<1>5. ASSUME NEW q \in requests, Handle(q), ~MutateEntries(q) PROVE EntriesInv'
  <2>1. map'.data = map.data
    BY <1>5, ShellKeepsData DEF Handle, MapInv
  <2>2. life' = life /\ requests' = requests
    BY <1>5 DEF Handle, SetUserPermissions, DelUserPermissions, ChangeOwner,
                DelUserPermissionsWithoutValidation, ChangeOwnerWithoutValidation
  <2>3. QED
    BY <1>0, <2>1, <2>2 DEF EntriesInv, Foresees
<1>6. ASSUME UNCHANGED vars PROVE EntriesInv'
  BY <1>0, <1>6 DEF vars, EntriesInv, Foresees
<1>7. QED
  BY <1>1, <1>2, <1>3, <1>4, <1>5, <1>6, ShellTypes DEF Next, MapInv

LEMMA SeqInit == Init => SeqInv
<1> SUFFICES ASSUME Init PROVE EntriesInv
  BY DEF SeqInv
<1>1. \A k \in DOMAIN map.data : map.data[k].version \in Nat
  BY MapsAssumption DEF Init, IsTyped, Value, Versions
<1>2. life \in [Keys -> Nat] /\ requests = {}
  BY DEF Init
<1>3. QED
  BY <1>1, <1>2 DEF EntriesInv

\* The request that a step accepts for entries is the one that is handled.
LEMMA AcceptedMutation ==
    ASSUME MapInv, RequestsInv, [Next]_vars,
           NEW q \in requests, q.type = "mutate", IsAccepted(q)
    PROVE  MutateEntries(q)
<1>1. q.id \in 1..MaxRequests /\ accepted[q.id] \in 0..2
  BY FS_CardinalityType, RequestsAssumption DEF MapInv, RequestsInv
<1>2. accepted'[q.id] # accepted[q.id]
  BY <1>1 DEF IsAccepted
<1>3. PICK r \in requests : Handle(r) /\ Accept(r)
  <2>1. accepted' # accepted
    BY <1>2
  <2>2. PICK r \in requests : Handle(r)
    BY <2>1 DEF Next, vars, SendMutateEntries, SendShellChange, Send, TakeEntries
  <2>3. Accept(r)
    BY <2>2 DEF Handle, MutateEntries, SetUserPermissions, DelUserPermissions, ChangeOwner,
                DelUserPermissionsWithoutValidation, ChangeOwnerWithoutValidation
  <2>4. QED
    BY <2>2, <2>3
<1>4. r.id = q.id
  BY <1>1, <1>2, <1>3 DEF Accept, RequestsInv
<1>5. r = q
  BY <1>3, <1>4 DEF RequestsInv
<1>6. QED
  BY <1>3, <1>5 DEF Handle, SetUserPermissions, DelUserPermissions, ChangeOwner,
                    DelUserPermissionsWithoutValidation, ChangeOwnerWithoutValidation

LEMMA SeqInvariant == Spec /\ []EntriesNoWrap => []SeqInv
BY SeqInit, SeqStep, MapInvariant, PTL DEF Spec

\* An accepted update or delete of a sequenced entry finds the value its client had
\* read, unless the entry was inserted again since (the version checks of update and
\* delete, map.rs:618 and 640), as long as no entry's version wraps around.
THEOREM NoLostUpdateHolds == Spec /\ []EntriesNoWrap => NoLostUpdate
<1>1. ASSUME MapInv, RequestsInv, SeqInv, EntriesNoWrap, [Next]_vars, map.kind = "Seq",
             NEW q \in requests, q.type = "mutate", IsAccepted(q),
             NEW k \in DOMAIN q.actions, q.actions[k].op # "Insert", q.life[k] = life[k]
      PROVE  k \in DOMAIN q.read.data /\ q.read.data[k] = map.data[k]
  <2>1. EntriesInv /\ Foresees(q, k)
    BY <1>1 DEF SeqInv, EntriesInv
  <2>2. MutateEntries(q)
    BY <1>1, AcceptedMutation
  <2>3. k \in DOMAIN map.data /\ q.actions[k].version = Succ(map.data[k].version)
    BY <1>1, <2>2 DEF MutateEntries, Errors, Succeeds
  <2>4. map.data[k].version \in Nat /\ Succ(map.data[k].version) = map.data[k].version + 1
    BY <1>1, <2>1, <2>3, U64Assumption DEF EntriesInv, EntriesNoWrap, Succ
  <2>5. QED
    BY <1>1, <2>1, <2>3, <2>4 DEF Foresees
<1>2. MapInv /\ RequestsInv /\ SeqInv /\ EntriesNoWrap /\ [Next]_vars =>
        [map.kind = "Seq" =>
           \A q \in requests : q.type = "mutate" /\ IsAccepted(q) =>
              \A k \in DOMAIN q.actions :
                 q.actions[k].op # "Insert" /\ q.life[k] = life[k] =>
                    /\ k \in DOMAIN q.read.data
                    /\ q.read.data[k] = map.data[k]]_vars
  BY <1>1
<1>3. QED
  BY <1>2, MapInvariant, RequestsInvariant, SeqInvariant, PTL DEF Spec, NoLostUpdate
=============================================================================
