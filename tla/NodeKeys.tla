------------------------------ MODULE NodeKeys --------------------------------
(***************************************************************************)
(* The identity of a node: src/src/identity/node.rs.  A node has an        *)
(* Ed25519 key pair for ever and a BLS key share while it is an elder.     *)
(* The share is kept twice, in bls with its secret and in public_id, and   *)
(* callers use either: sign reads bls, public_key reads public_id.         *)
(***************************************************************************)
EXTENDS Keys

CONSTANTS
    Nodes,
    KeySets,    \* the key sets of elders: one for each generation of a section
    Indices,    \* the indices of the members of a key set
    Members,    \* for each key set, the index of each of its members
    Holder,     \* the type in use: "NodeKeypairs" or "FullId"
    None        \* Option::None

ASSUME MembersAssumption ==
    /\ DOMAIN Members = KeySets
    /\ \A s \in KeySets : /\ DOMAIN Members[s] \subseteq Nodes
                          /\ \A n \in DOMAIN Members[s] : Members[s][n] \in Indices

ASSUME NoneAssumption ==
    /\ \A s \in KeySets : \A i, j \in Indices :
          BlsKeypairShare(j, BlsShare(s, i), s) # None
    /\ \A s \in KeySets : \A i \in Indices : BlsShare(s, i) # None

VARIABLES
    bls,         \* the field bls of each node
    public_bls   \* the field public_id.bls of each node

keyVars == <<bls, public_bls>>

\* NodeKeypairs::new, within_range
KeysInit ==
    /\ bls = [n \in Nodes |-> None]
    /\ public_bls = [n \in Nodes |-> None]

\* PublicId::name: the network address of a node.
NodeName(n) == NameOf(Ed25519(n))

\* NodeKeypairs::public_key
PublicKey(n) == IF public_bls[n] # None THEN public_bls[n] ELSE Ed25519(n)

\* NodeKeypairs::public_key_set
PublicKeySet(n) == IF bls[n] # None THEN bls[n].public_key_set ELSE None

SignUsingEd25519(n, data) == Signature("Ed25519", Raw(Ed25519(n), data))

SignUsingBls(n, data) ==
    IF bls[n] # None THEN SignatureShare(bls[n].index, Raw(bls[n].public, data)) ELSE None

\* NodeKeypairs::sign
Sign(n, data) ==
    IF bls[n] # None THEN SignUsingBls(n, data) ELSE SignUsingEd25519(n, data)

-----------------------------------------------------------------------------
\* Faulty: an elder with a share keeps showing the old one.
SetBlsKeysOnce(n, index, share, set) ==
    /\ public_bls' = [public_bls EXCEPT ![n] = IF @ = None THEN share ELSE @]
    /\ bls' = [bls EXCEPT ![n] = BlsKeypairShare(index, share, set)]

\* Faulty: the share of an earlier key set keeps its index.
SetBlsKeysKeepingIndex(n, index, share, set) ==
    /\ public_bls' = [public_bls EXCEPT ![n] = share]
    /\ bls' = [bls EXCEPT ![n] =
         BlsKeypairShare(IF @ # None THEN @.index ELSE index, share, set)]

\* Faulty: counts the members from one.
SetBlsKeysFromOne(n, index, share, set) ==
    /\ public_bls' = [public_bls EXCEPT ![n] = share]
    /\ bls' = [bls EXCEPT ![n] = BlsKeypairShare(index + 1, share, set)]

\* set_bls_keys of NodeKeypairs is told the index, that of FullId is not.
SetBlsKeys(n, index, share, set) ==
    /\ public_bls' = [public_bls EXCEPT ![n] = share]
    /\ bls' = [bls EXCEPT ![n] =
         BlsKeypairShare(IF Holder = "FullId" THEN 0 ELSE index, share, set)]

ClearBlsKeys(n) ==
    /\ public_bls' = [public_bls EXCEPT ![n] = None]
    /\ bls' = [bls EXCEPT ![n] = None]

\* A node becomes an elder, or its section has a new key set.
Promote(n) ==
    \E s \in KeySets :
        /\ n \in DOMAIN Members[s]
        /\ SetBlsKeys(n, Members[s][n], BlsShare(s, Members[s][n]), s)

KeysNext == \E n \in Nodes : Promote(n) \/ ClearBlsKeys(n)

KeysSpec == KeysInit /\ [][KeysNext]_keyVars

-----------------------------------------------------------------------------
\* Properties

KeysTypeOK ==
    /\ bls \in [Nodes -> {BlsKeypairShare(j, BlsShare(s, i), s) :
                            s \in KeySets, i \in Indices, j \in Indices \cup {0}} \cup {None}]
    /\ public_bls \in [Nodes -> {BlsShare(s, i) : s \in KeySets, i \in Indices} \cup {None}]

\* What a node signs verifies under the key it shows at that time, whatever
\* promotions and demotions there were (sign and public_key, node.rs:251, 270,
\* read two different fields).
SignMatchesPublicKey ==
    \A n \in Nodes : Verify(PublicKey(n), Sign(n, n), n) = "Ok"

\* "A signature share, with its index in the combined collection" (keys/mod.rs:187):
\* the index that sign_using_bls puts in a share leads to the key of that share
\* in the key set of the node, so that a proof made of the three can be checked.
IndexLocatesShare ==
    \A n \in Nodes : bls[n] # None =>
        LET signature == SignUsingBls(n, n)
        IN  Verify(BlsShare(PublicKeySet(n), signature.index), signature, n) = "Ok"
=============================================================================
