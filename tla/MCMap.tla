------------------------------- MODULE MCMap --------------------------------
(* Values of the constants of MapData for TLC. *)
EXTENDS MapData, TLC

CONSTANTS alice, bob, k1, k2, c1, c2   \* public keys, entry keys, contents

NewMap(kind, data, permissions) ==
    [kind |-> kind, data |-> data, permissions |-> permissions, version |-> 0, owner |-> alice]

Entry(version) == k1 :> [content |-> c1, version |-> version]

\* bob may do one thing, or two of the three.
MCSets == {{"Update"}, {"Insert", "Delete"}}

\* The owner changes one entry, whose version is about to wrap around.
OneEntry ==
    [maps |-> {NewMap("Seq", <<>>, <<>>), NewMap("Seq", Entry(U64 - 3), <<>>)},
     keys |-> {k1}, users |-> {alice}, entryOps |-> {"Insert", "Update", "Delete", "Take"},
     insertVersions |-> {0, U64 - 3}, shellOps |-> {}, requests |-> 3]

\* Both flavours, with one entry and permissions for bob.
TwoEntries ==
    [maps |-> {NewMap(kind, Entry(0), bob :> s) : kind \in {"Seq", "Unseq"}, s \in MCSets},
     keys |-> {k1, k2}, users |-> {alice, bob}, entryOps |-> {"Insert", "Update", "Delete"},
     insertVersions |-> {0}, shellOps |-> {"set"}, requests |-> 2]

\* Just constructed: empty, or with an entry and permissions for bob.
Shell(ops) ==
    [maps |-> {NewMap("Seq", <<>>, <<>>), NewMap("Seq", Entry(0), bob :> {"Update"})},
     keys |-> {}, users |-> {}, entryOps |-> {},
     insertVersions |-> {}, shellOps |-> ops, requests |-> 3]

MCWorkloads ==
    {OneEntry, TwoEntries,
     Shell({"set", "del", "chown", "del_without_validation", "chown_without_validation"})}

OwnerChangesOnly == {Shell({"chown", "chown_without_validation"})}

Reinsertion ==
    {[OneEntry EXCEPT !.maps = {NewMap("Seq", <<>>, <<>>), NewMap("Seq", Entry(0), <<>>)},
                      !.entryOps = {"Insert", "Update", "Delete"}, !.insertVersions = {0}]}
=============================================================================
