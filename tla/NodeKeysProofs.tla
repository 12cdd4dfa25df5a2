---------------------------- MODULE NodeKeysProofs -----------------------------
(***************************************************************************)
(* Proofs about the keys of a node, for any nodes, key sets and members:   *)
(* the two fields that a share is kept in never part.                      *)
(***************************************************************************)
EXTENDS NodeKeys, TLAPS

\* Inductive: a node has no share, or the secret and the public half of its share of
\* one key set, with the index under which it is a member.
Share(n, s, i) ==
    /\ bls[n] = BlsKeypairShare(i, BlsShare(s, i), s)
    /\ public_bls[n] = BlsShare(s, i)

NoShare(n) == bls[n] = None /\ public_bls[n] = None

OwnShare(n, s) == n \in DOMAIN Members[s] /\ Share(n, s, Members[s][n])

KeysInv ==
    /\ bls = [n \in Nodes |-> bls[n]]
    /\ public_bls = [n \in Nodes |-> public_bls[n]]
    /\ \A n \in Nodes : NoShare(n) \/ \E s \in KeySets : OwnShare(n, s)

\* So it has some index.
LEMMA OwnShareIsShare ==
    ASSUME NEW n, NEW s \in KeySets, OwnShare(n, s)
    PROVE  \E i \in Indices : Share(n, s, i)
BY MembersAssumption DEF OwnShare

\* set_bls_keys of NodeKeypairs writes both fields from one share.
LEMMA PromoteKeeps ==
    ASSUME KeysInv, Holder = "NodeKeypairs", NEW n \in Nodes, Promote(n)
    PROVE  KeysInv'
<1>1. PICK s \in KeySets :
        n \in DOMAIN Members[s] /\ SetBlsKeys(n, Members[s][n], BlsShare(s, Members[s][n]), s)
  BY DEF Promote
<1>3. /\ bls' = [bls EXCEPT ![n] =
                   BlsKeypairShare(Members[s][n], BlsShare(s, Members[s][n]), s)]
      /\ public_bls' = [public_bls EXCEPT ![n] = BlsShare(s, Members[s][n])]
  BY <1>1 DEF SetBlsKeys
<1>4. OwnShare(n, s)'
  BY <1>1, <1>3 DEF KeysInv, Share, OwnShare
<1>5. \A m \in Nodes : m # n => bls'[m] = bls[m] /\ public_bls'[m] = public_bls[m]
  BY <1>3 DEF KeysInv
<1>6. \A m \in Nodes : NoShare(m)' \/ \E t \in KeySets : OwnShare(m, t)'
  BY <1>4, <1>5 DEF KeysInv, Share, OwnShare, NoShare
<1>7. QED
  BY <1>3, <1>6 DEF KeysInv

\* clear_bls_keys clears both.
LEMMA ClearKeeps ==
    ASSUME KeysInv, NEW n \in Nodes, ClearBlsKeys(n)
    PROVE  KeysInv'
<1>1. \A m \in Nodes : IF m = n THEN NoShare(m)'
                       ELSE bls'[m] = bls[m] /\ public_bls'[m] = public_bls[m]
  BY DEF ClearBlsKeys, KeysInv, NoShare
<1>2. \A m \in Nodes : NoShare(m)' \/ \E t \in KeySets : OwnShare(m, t)'
  BY <1>1 DEF KeysInv, Share, OwnShare, NoShare
<1>3. QED
  BY <1>2 DEF ClearBlsKeys, KeysInv

LEMMA KeysStep ==
    ASSUME Holder = "NodeKeypairs"
    PROVE  KeysInv /\ [KeysNext]_keyVars => KeysInv'
<1> SUFFICES ASSUME KeysInv, [KeysNext]_keyVars PROVE KeysInv'
  OBVIOUS
<1>1. CASE UNCHANGED keyVars
  BY <1>1 DEF keyVars, KeysInv, Share, OwnShare, NoShare
<1>2. CASE KeysNext
  BY <1>2, PromoteKeeps, ClearKeeps DEF KeysNext
<1>3. QED
  BY <1>1, <1>2

\* The invariant gives the three properties.
LEMMA KeysInvTypes == KeysInv => KeysTypeOK
BY OwnShareIsShare DEF KeysInv, KeysTypeOK, Share, NoShare

LEMMA KeysInvSigns == KeysInv => SignMatchesPublicKey
<1> SUFFICES ASSUME KeysInv, NEW n \in Nodes
             PROVE  Verify(PublicKey(n), Sign(n, n), n) = "Ok"
  BY DEF SignMatchesPublicKey
<1>1. CASE NoShare(n)
  BY <1>1 DEF NoShare, PublicKey, Sign, SignUsingEd25519, Signature, Raw, Ed25519,
              Verify, RawVerify
<1>2. ASSUME NEW s \in KeySets, NEW i \in Indices, Share(n, s, i)
      PROVE  Verify(PublicKey(n), Sign(n, n), n) = "Ok"
  <2>1. bls[n] # None /\ public_bls[n] # None
    BY <1>2, NoneAssumption DEF Share
  <2>2. PublicKey(n) = BlsShare(s, i)
    BY <1>2, <2>1 DEF Share, PublicKey
  <2>3. Sign(n, n) = SignatureShare(i, Raw(BlsShare(s, i), n))
    BY <1>2, <2>1 DEF Share, Sign, SignUsingBls, BlsKeypairShare
  <2>4. QED
    BY <2>2, <2>3 DEF Verify, RawVerify, SignatureShare, BlsShare
<1>3. QED
  BY <1>1, <1>2, OwnShareIsShare DEF KeysInv

LEMMA KeysInvLocates == KeysInv => IndexLocatesShare
<1> SUFFICES ASSUME KeysInv, NEW n \in Nodes, bls[n] # None
             PROVE  Verify(BlsShare(PublicKeySet(n), SignUsingBls(n, n).index),
                           SignUsingBls(n, n), n) = "Ok"
  BY DEF IndexLocatesShare
<1>1. PICK s \in KeySets, i \in Indices : Share(n, s, i)
  BY OwnShareIsShare DEF KeysInv, NoShare
<1>2. PublicKeySet(n) = s
  BY <1>1 DEF Share, PublicKeySet, BlsKeypairShare
<1>3. SignUsingBls(n, n) = SignatureShare(i, Raw(BlsShare(s, i), n))
  BY <1>1 DEF Share, SignUsingBls, BlsKeypairShare
<1>4. QED
  BY <1>2, <1>3 DEF Verify, RawVerify, SignatureShare, BlsShare

LEMMA KeysInvariant ==
    ASSUME Holder = "NodeKeypairs"
    PROVE  KeysSpec => []KeysInv
<1>1. KeysInit => KeysInv
  BY DEF KeysInit, KeysInv, NoShare
<1>2. QED
  BY <1>1, KeysStep, PTL DEF KeysSpec

\* However often a node is promoted and demoted: what it signs verifies under the key
\* it shows (sign, public_key, set_bls_keys, clear_bls_keys of NodeKeypairs).
THEOREM SignMatchesPublicKeyHolds ==
    ASSUME Holder = "NodeKeypairs"
    PROVE  KeysSpec => []SignMatchesPublicKey
BY KeysInvariant, KeysInvSigns, PTL

\* And its shares have the index under which the key set knows them.
THEOREM IndexLocatesShareHolds ==
    ASSUME Holder = "NodeKeypairs"
    PROVE  KeysSpec => []IndexLocatesShare
BY KeysInvariant, KeysInvLocates, PTL
=============================================================================
