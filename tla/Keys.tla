-------------------------------- MODULE Keys ----------------------------------
(***************************************************************************)
(* Public keys, signatures, key pairs and proofs: src/src/keys/.  The      *)
(* cryptography is external and ideal: a secret key is known by its public *)
(* key, a signature by the key that made it and what it is over, and a BLS *)
(* signature of a key set by the shares it was combined from.              *)
(***************************************************************************)
EXTENDS Integers, FiniteSets

CONSTANT Threshold   \* more than Threshold shares make a signature of a key set

ASSUME ThresholdAssumption == Threshold \in Nat

\* PublicKey
Ed25519(holder) == [type |-> "Ed25519", of |-> holder]
Bls(set) == [type |-> "Bls", of |-> set]
BlsShare(set, index) == [type |-> "BlsShare", of |-> set, index |-> index]

\* From<PublicKey> for XorName: a name stands for one key, and is not a key.
NameOf(key) == [name |-> key]

-----------------------------------------------------------------------------
\* Signatures of the cryptographic libraries.

Raw(key, data) == [key |-> key, data |-> data]

RawVerify(key, raw, data) == raw = Raw(key, data)

\* PublicKeySet::combine_signatures: shares is a set of records [index, share].
\* Too few, or one that is not of the member at its index or not over the same
\* data, and the result is a signature that nothing verifies.
Combine(set, shares, data) ==
    IF /\ Cardinality({s.index : s \in shares}) > Threshold
       /\ \A s \in shares : RawVerify(BlsShare(set, s.index), s.share, data)
    THEN Raw(Bls(set), data)
    ELSE [invalid |-> shares]

-----------------------------------------------------------------------------
\* Signature, SignatureShare and Keypair

Signature(type, raw) == [type |-> type, sig |-> raw]

SignatureShare(index, raw) == [type |-> "BlsShare", sig |-> raw, index |-> index]

\* PublicKey::verify.  The index of a share is not looked at.
Verify(key, signature, data) ==
    IF key.type # signature.type THEN "SigningKeyTypeMismatch"
    ELSE IF RawVerify(key, signature.sig, data) THEN "Ok" ELSE "InvalidSignature"

\* Keypair::sign, and FullId::sign of clients and apps, who never hold a share.
KeypairSign(key, data) == Signature(key.type, Raw(key, data))

\* BlsKeypairShare, which also holds the secret of the key public.
BlsKeypairShare(index, public, set) ==
    [index |-> index, public |-> public, public_key_set |-> set]

-----------------------------------------------------------------------------
\* Proofs: a signature together with the key to check it with.

Ed25519Proof(public_key, raw) ==
    [type |-> "Ed25519", public_key |-> public_key, signature |-> raw]

BlsProof(public_key, raw) ==
    [type |-> "Bls", public_key |-> public_key, signature |-> raw]

BlsProofShare(set, index, raw) ==
    [type |-> "BlsShare", public_key_set |-> set, index |-> index, signature |-> raw]

\* Proof::id; the key of a share is looked up in the key set.
ProofId(proof) ==
    IF proof.type = "BlsShare" THEN BlsShare(proof.public_key_set, proof.index)
    ELSE proof.public_key

\* Proof::signature
ProofSignature(proof) ==
    IF proof.type = "BlsShare" THEN SignatureShare(proof.index, proof.signature)
    ELSE Signature(proof.type, proof.signature)

\* Proof::verify
ProofVerify(proof, payload) ==
    Verify(ProofId(proof), ProofSignature(proof), payload) = "Ok"
=============================================================================
