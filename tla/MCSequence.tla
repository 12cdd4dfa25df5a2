----------------------------- MODULE MCSequence -----------------------------
(* Values of the constants of SequenceCrdt for TLC. *)
EXTENDS SequenceCrdt, TLC

CONSTANTS e1, e2, alice, bob   \* entries and public keys

Perms(append, manage) == [append |-> append, manage_permissions |-> manage]

\* Anyone may append; an explicit denial; an explicit None that falls back to
\* Anyone; and a map that names nobody.
MCPubMaps ==
    {Anyone :> Perms("true", "false") @@ alice :> Perms("false", "true"),
     Anyone :> Perms("true", "none") @@ alice :> Perms("none", "false"),
     bob :> Perms("true", "true")}

PrivPerms(read, append, manage) ==
    [append |-> append, manage_permissions |-> manage, read |-> read]

\* alice may only read, bob may only manage permissions.
MCPrivMaps ==
    {alice :> PrivPerms(TRUE, FALSE, FALSE) @@ bob :> PrivPerms(FALSE, FALSE, TRUE)}

\* One map, for the runs that are about the lists.
MCOnePubMap == {Anyone :> Perms("true", "false") @@ alice :> Perms("false", "true")}
=============================================================================
