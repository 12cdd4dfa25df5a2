--------------------------- MODULE RoutingPathProofs ---------------------------
(***************************************************************************)
(* Proofs about the ways messages take, for any nodes, sections, key sets  *)
(* and thresholds: the network implements CommandPath, every message is    *)
(* dealt with where it belongs, and an envelope has two proxies at most.   *)
(***************************************************************************)
EXTENDS RoutingProofs

-----------------------------------------------------------------------------
\* The envelopes there are of a data command

theEnvelope == FirstEnvelope(scenario)

\* An elder of the section has added itself to b, as its duty there asks.
AddedTo(b, duty, section, e) ==
    \E proof :
        /\ e = WithProxy(b, NodeSender(duty, proof))
        /\ VerifyEnvelope(e) =>
             \E n \in Elders[section] : SenderId(NodeSender(duty, proof)) \in KeysOf(n)

FromGateway(e) ==
    AddedTo(theEnvelope, "Gateway", SectionOf(NameOf(SenderId(theEnvelope.origin))), e)

paymentSection == SectionOf(NameOf(first.cmd.payment.signed_transfer.transfer.id.actor))

FromPayment(e) ==
    \E b \in Verified : FromGateway(b) /\ AddedTo(b, "Payment", paymentSection, e)

\* The votes of Payment elders put together.
FromSection(e) ==
    \E b \in Verified :
        /\ FromGateway(b)
        /\ \E proof : e = WithProxy(b, SectionSender("Payment", proof))
        /\ VerifyEnvelope(e) => agreed

OnPath(e) == IsData /\ (FromGateway(e) \/ FromPayment(e) \/ FromSection(e))

\* Without proxies: what its client has sent, and everything else that is said.
Plain(e) == e.proxies = <<>> /\ (IsData /\ e.message = first => e = theEnvelope)

SignedBy(n, p) ==
    /\ p.signature.type \in {"Ed25519", "BlsShare"}
    /\ \E key \in KeysOf(n) : p.signature.sig = Raw(key, p.data)

\* Inductive: a node has signed with a key of its own what it is about to send, an
\* envelope with proxies is a data command on its path, and that is all there is to it.
PathInv ==
    /\ scenario \in Scenarios
    /\ \A e \in net : Plain(e) \/ OnPath(e)
    /\ IsData => \A e \in net : e.message = first \/ e.message.type = "CmdError"
    /\ \A n \in Nodes : \A p \in pending[n] :
          /\ SignedBy(n, p)
          /\ IF "proxies" \in DOMAIN p.data
             THEN Passes(p.data, p.duty) /\ Reaches(Destination(p.data), n)
             ELSE IsData => p.data.type = "CmdError"

LEMMA FirstIs ==
    ASSUME scenario \in Scenarios
    PROVE  /\ IsEnvelope(theEnvelope) /\ theEnvelope.message = first
           /\ theEnvelope.proxies = <<>> /\ MostRecentSender(theEnvelope) = theEnvelope.origin
           /\ IsData => /\ theEnvelope.origin.type = "Client"
                        /\ Destination(theEnvelope)
                             = Address("Section", NameOf(SenderId(theEnvelope.origin)))
<1>1. \E s : theEnvelope = NewEnvelope(first, s)
  BY DEF theEnvelope, FirstEnvelope, ClientEnvelope, first
<1>2. IsEnvelope(theEnvelope)
  BY <1>1, NewChain
<1>3. theEnvelope.message = first /\ theEnvelope.proxies = <<>>
  BY <1>1 DEF NewEnvelope
<1>4. MostRecentSender(theEnvelope) = theEnvelope.origin
  BY <1>3 DEF MostRecentSender
<1>5. ASSUME IsData
      PROVE  /\ theEnvelope.origin.type = "Client"
             /\ Destination(theEnvelope) = Address("Section", NameOf(SenderId(theEnvelope.origin)))
  <2>1. scenario.by \in Clients
    BY <1>5, ScenariosAssumption DEF IsData, first
  <2>2. theEnvelope.origin.type = "Client"
    BY <2>1 DEF theEnvelope, FirstEnvelope, ClientEnvelope, NewEnvelope, ClientSender
  <2>3. first.type = "Cmd" /\ first.cmd.class = "Data"
    BY <1>5 DEF IsData
  <2>4. Destination(theEnvelope) = CmdDst(theEnvelope)
    BY <1>3, <2>3 DEF Destination
  <2>5. CmdDst(theEnvelope) = SectionOfOrigin(theEnvelope)
    BY <1>3, <1>4, <2>2, <2>3 DEF CmdDst
  <2>6. QED
    BY <2>2, <2>4, <2>5 DEF SectionOfOrigin
<1>6. QED
  BY <1>2, <1>3, <1>4, <1>5

\* The first envelope does not depend on what keys there are later.
LEMMA FirstStays ==
    ASSUME scenario' = scenario
    PROVE  theEnvelope' = theEnvelope
<1>1. ASSUME NEW n, NEW m
      PROVE  LET signature == Signature("Ed25519", Raw(Ed25519(n), m))
             IN  /\ ProofOf(n, signature) = Ed25519Proof(Ed25519(n), signature.sig)
                 /\ ProofOf(n, signature)' = Ed25519Proof(Ed25519(n), signature.sig)
  BY DEF ProofOf, Signature
<1>2. QED
  BY <1>1 DEF theEnvelope, FirstEnvelope

LEMMA GatewayIs ==
    ASSUME scenario \in Scenarios, IsData, NEW e, FromGateway(e)
    PROVE  /\ IsEnvelope(e) /\ e.message = first /\ e.origin = theEnvelope.origin
           /\ Len(e.proxies) = 1 /\ WithoutLast(e) = theEnvelope
           /\ MostRecentSender(e).type = "Node" /\ MostRecentSender(e).duty = "Gateway"
           /\ VerifyEnvelope(e) => ThroughGateway(e)
           /\ SectionOf(Destination(e).name) = paymentSection
           /\ Destination(e).type = "Section"
<1>1. PICK proof :
        /\ e = WithProxy(theEnvelope, NodeSender("Gateway", proof))
        /\ VerifyEnvelope(e) =>
             \E n \in Elders[SectionOf(NameOf(SenderId(theEnvelope.origin)))] :
               SenderId(NodeSender("Gateway", proof)) \in KeysOf(n)
  BY DEF FromGateway, AddedTo
<1> DEFINE s == NodeSender("Gateway", proof)
<1>2. s.type = "Node" /\ s.duty = "Gateway"
  BY DEF NodeSender
<1>3. IsEnvelope(theEnvelope) /\ theEnvelope.message = first /\ theEnvelope.proxies = <<>>
  BY FirstIs
<1>4. Len(theEnvelope.proxies) = 0 /\ e = WithProxy(theEnvelope, s)
  BY <1>1, <1>3
<1> HIDE DEF s
<1>5. /\ IsEnvelope(e) /\ e.message = first /\ e.origin = theEnvelope.origin
      /\ Len(e.proxies) = 1 /\ WithoutLast(e) = theEnvelope /\ MostRecentSender(e) = s
      /\ e.proxies # <<>> /\ e.proxies[1] = s
  <2>1. /\ IsEnvelope(e) /\ e.message = theEnvelope.message /\ e.origin = theEnvelope.origin
        /\ WithoutLast(e) = theEnvelope /\ MostRecentSender(e) = s
    BY <1>3, <1>4, ProxyAdded
  <2>2. Len(e.proxies) = Len(theEnvelope.proxies) + 1
    BY <1>3, <1>4, ProxyAdded
  <2>3. e.proxies # <<>> /\ e.proxies[1] = s
    BY <1>3, <1>4, ProxyAdded
  <2>4. QED
    BY <1>3, <1>4, <2>1, <2>2, <2>3
<1>6. VerifyEnvelope(e) => ThroughGateway(e)
  BY <1>1, <1>2, <1>5 DEF ThroughGateway, AddedBy, s
<1>7. first.type = "Cmd" /\ first.cmd.class = "Data"
  BY DEF IsData
<1>8. Destination(e) = CmdDst(e)
  BY <1>5, <1>7 DEF Destination
<1>9. CmdDst(e) = Address("Section", NameOf(AgreementFrom(first.cmd.payment)))
  BY <1>2, <1>5, <1>7 DEF CmdDst
<1>10. AgreementFrom(first.cmd.payment) = first.cmd.payment.signed_transfer.transfer.id.actor
  BY DEF AgreementFrom, SignedFrom, TransferFrom
<1>11. QED
  BY <1>2, <1>5, <1>6, <1>8, <1>9, <1>10 DEF Address, paymentSection

LEMMA PaymentIs ==
    ASSUME scenario \in Scenarios, IsData, NEW e, FromPayment(e)
    PROVE  /\ IsEnvelope(e) /\ e.message = first /\ e.origin = theEnvelope.origin
           /\ Len(e.proxies) = 2
           /\ WithoutLast(e) \in Verified /\ FromGateway(WithoutLast(e))
           /\ MostRecentSender(e).type = "Node" /\ MostRecentSender(e).duty = "Payment"
           /\ VerifyEnvelope(e) =>
                \E n \in PaymentElders : SenderId(MostRecentSender(e)) \in KeysOf(n)
<1>1. PICK b \in Verified : FromGateway(b) /\ AddedTo(b, "Payment", paymentSection, e)
  BY DEF FromPayment
<1>2. PICK proof :
        /\ e = WithProxy(b, NodeSender("Payment", proof))
        /\ VerifyEnvelope(e) =>
             \E n \in Elders[paymentSection] : SenderId(NodeSender("Payment", proof)) \in KeysOf(n)
  BY <1>1 DEF AddedTo
<1> DEFINE s == NodeSender("Payment", proof)
<1>3. s.type = "Node" /\ s.duty = "Payment"
  BY DEF NodeSender
<1>4. /\ IsEnvelope(b) /\ b.message = first /\ b.origin = theEnvelope.origin
      /\ Len(b.proxies) = 1 /\ e = WithProxy(b, s)
  BY <1>1, <1>2, GatewayIs
<1> HIDE DEF s
<1>5. /\ IsEnvelope(e) /\ e.message = first /\ e.origin = theEnvelope.origin
      /\ Len(e.proxies) = 2 /\ WithoutLast(e) = b /\ MostRecentSender(e) = s
  <2>1. /\ IsEnvelope(e) /\ e.message = b.message /\ e.origin = b.origin
        /\ WithoutLast(e) = b /\ MostRecentSender(e) = s
    BY <1>4, ProxyAdded
  <2>2. Len(e.proxies) = Len(b.proxies) + 1
    BY <1>4, ProxyAdded
  <2>3. QED
    BY <1>4, <2>1, <2>2
<1>6. QED
  BY <1>1, <1>2, <1>3, <1>5 DEF s, PaymentElders, paymentSection

LEMMA SectionIs ==
    ASSUME scenario \in Scenarios, IsData, NEW e, FromSection(e)
    PROVE  /\ IsEnvelope(e) /\ e.message = first /\ e.origin = theEnvelope.origin
           /\ Len(e.proxies) = 2
           /\ MostRecentSender(e).type = "Section" /\ MostRecentSender(e).duty = "Payment"
           /\ VerifyEnvelope(e) => agreed
           /\ Destination(e) = Address("Section", DataCmdDst(first.cmd.cmd))
<1>0. PICK b \in Verified :
        /\ FromGateway(b) /\ \E proof : e = WithProxy(b, SectionSender("Payment", proof))
        /\ VerifyEnvelope(e) => agreed
  BY DEF FromSection
<1>1. PICK proof : e = WithProxy(b, SectionSender("Payment", proof))
  BY <1>0
<1> DEFINE s == SectionSender("Payment", proof)
<1>2. s.type = "Section" /\ s.duty = "Payment"
  BY DEF SectionSender
<1>3. /\ IsEnvelope(b) /\ b.message = first /\ b.origin = theEnvelope.origin
      /\ Len(b.proxies) = 1 /\ e = WithProxy(b, s)
  BY <1>0, <1>1, GatewayIs
<1> HIDE DEF s
<1>4. /\ IsEnvelope(e) /\ e.message = first /\ e.origin = theEnvelope.origin
      /\ Len(e.proxies) = 2 /\ MostRecentSender(e) = s
  <2>1. /\ IsEnvelope(e) /\ e.message = b.message /\ e.origin = b.origin
        /\ WithoutLast(e) = b /\ MostRecentSender(e) = s
    BY <1>3, ProxyAdded
  <2>2. Len(e.proxies) = Len(b.proxies) + 1
    BY <1>3, ProxyAdded
  <2>3. QED
    BY <1>3, <2>1, <2>2
<1>5. first.type = "Cmd" /\ first.cmd.class = "Data"
  BY DEF IsData
<1>6. Destination(e) = CmdDst(e)
  BY <1>4, <1>5 DEF Destination
<1>7. CmdDst(e) = Address("Section", DataCmdDst(first.cmd.cmd))
  BY <1>2, <1>4, <1>5 DEF CmdDst
<1>8. QED
  BY <1>0, <1>2, <1>4, <1>6, <1>7

-----------------------------------------------------------------------------
\* Who has signed

\* A node signs with a key of its own.
LEMMA SignIs ==
    ASSUME KeysInv, NEW n \in Nodes, NEW data
    PROVE  /\ Sign(n, data).type \in {"Ed25519", "BlsShare"}
           /\ \E key \in KeysOf(n) : Sign(n, data).sig = Raw(key, data)
<1>1. CASE bls[n] = None
  <2>1. Sign(n, data) = Signature("Ed25519", Raw(Ed25519(n), data))
    BY <1>1 DEF Sign, SignUsingEd25519
  <2>2. QED
    BY <2>1 DEF Signature, KeysOf
<1>2. CASE bls[n] # None
  <2>1. PICK s \in KeySets : OwnShare(n, s)
    BY <1>2 DEF KeysInv, NoShare
  <2>2. /\ Sign(n, data) = SignatureShare(Members[s][n], Raw(BlsShare(s, Members[s][n]), data))
        /\ n \in DOMAIN Members[s]
    BY <1>2, <2>1 DEF OwnShare, Share, Sign, SignUsingBls, BlsKeypairShare
  <2>3. BlsShare(s, Members[s][n]) \in KeysOf(n)
    BY <2>2 DEF KeysOf
  <2>4. QED
    BY <2>2, <2>3 DEF SignatureShare
<1>3. QED
  BY <1>1, <1>2

\* If the proof it added verifies, it was made with the key that signed.
LEMMA SignerIs ==
    ASSUME NEW b, IsEnvelope(b), NEW n, NEW duty, NEW signature, NEW key,
           signature.sig = Raw(key, b), NEW s, s = NodeSender(duty, ProofOf(n, signature)),
           VerifyEnvelope(WithProxy(b, s))
    PROVE  SenderId(s) = key
<1> DEFINE e == WithProxy(b, s)
<1>1. MostRecentSender(e) = s /\ Signed(e) = b
  BY ProxyAdded
<1>2. SenderSignature(s).sig = signature.sig
  BY DEF SenderSignature, ProofSignature, NodeSender, ProofOf, BlsProofShare, Ed25519Proof,
         SignatureShare, Signature
<1>3. SenderSignature(s).sig = Raw(SenderId(s), b)
  BY <1>1 DEF VerifyEnvelope, Verify, RawVerify
<1>4. Raw(SenderId(s), b) = Raw(key, b)
  BY <1>2, <1>3
<1>5. Raw(SenderId(s), b).key = SenderId(s) /\ Raw(key, b).key = key
  BY DEF Raw
<1>6. QED
  BY <1>4, <1>5

\* The key of a share tells whose it is.
LEMMA ShareTells ==
    ASSUME NEW n, NEW set, NEW i, BlsShare(set, i) \in KeysOf(n)
    PROVE  set \in KeySets /\ n \in DOMAIN Members[set] /\ i = Members[set][n]
<1>1. BlsShare(set, i) # Ed25519(n)
  BY DEF BlsShare, Ed25519
<1>2. PICK s \in KeySets : n \in DOMAIN Members[s] /\ BlsShare(set, i) = BlsShare(s, Members[s][n])
  BY <1>1 DEF KeysOf
<1>3. set = s /\ i = Members[s][n]
  BY <1>2 DEF BlsShare
<1>4. QED
  BY <1>2, <1>3

\* An elder adds itself where it was reached, in the duty it has there.
LEMMA NodeAdds ==
    ASSUME NEW n \in Nodes, NEW b, IsEnvelope(b), NEW p, SignedBy(n, p), p.data = b,
           Reaches(Destination(b), n), Destination(b).type = "Section",
           NEW e, e = WithProxy(b, NodeSender(p.duty, ProofOf(n, p.signature)))
    PROVE  AddedTo(b, p.duty, SectionOf(Destination(b).name), e)
<1> DEFINE proof == ProofOf(n, p.signature)
           s == NodeSender(p.duty, proof)
<1>1. n \in Elders[SectionOf(Destination(b).name)]
  BY DEF Reaches
<1>2. PICK key \in KeysOf(n) : p.signature.sig = Raw(key, b)
  BY DEF SignedBy
<1>3. VerifyEnvelope(e) => SenderId(s) = key
  BY <1>2, SignerIs
<1> HIDE DEF proof
<1>4. VerifyEnvelope(e) =>
        \E m \in Elders[SectionOf(Destination(b).name)] : SenderId(NodeSender(p.duty, proof)) \in KeysOf(m)
  BY <1>1, <1>2, <1>3
<1>5. e = WithProxy(b, NodeSender(p.duty, proof))
  BY DEF proof
<1>6. QED
  BY <1>4, <1>5 DEF AddedTo

-----------------------------------------------------------------------------
\* What a step adds to the path

\* Nothing but data commands is passed on, from the client or from the Gateway.
LEMMA PassingIs ==
    ASSUME PathInv, CreditInv, NEW b \in net, IsCmd(b, "Data")
    PROVE  /\ IsData /\ b.message = first
           /\ b = theEnvelope \/ FromGateway(b) \/ FromPayment(b) \/ FromSection(b)
           /\ \A duty : Passes(b, duty) => \/ duty = "Gateway" /\ b = theEnvelope
                                           \/ duty = "Payment" /\ FromGateway(b)
<1>1. b.message = first
  <2>1. b.message = first \/ IsRegistration(b.message)
    BY DEF CreditInv, said, IsCmd
  <2>2. QED
    BY <2>1 DEF IsRegistration, IsTransferCmd, IsCmd
<1>2. IsData
  BY <1>1 DEF IsData, IsCmd
<1>3. b = theEnvelope \/ FromGateway(b) \/ FromPayment(b) \/ FromSection(b)
  BY <1>1, <1>2 DEF PathInv, Plain, OnPath
<1>4. b = theEnvelope => MostRecentSender(b).type = "Client"
  BY <1>2, FirstIs DEF PathInv
<1>5. FromPayment(b) => MostRecentSender(b).type = "Node" /\ MostRecentSender(b).duty = "Payment"
  BY <1>2, PaymentIs DEF PathInv
<1>6. FromSection(b) => MostRecentSender(b).type = "Section"
  BY <1>2, SectionIs DEF PathInv
<1>7. FromGateway(b) => MostRecentSender(b).type = "Node"
  BY <1>2, GatewayIs DEF PathInv
<1>8. QED
  BY <1>1, <1>2, <1>3, <1>4, <1>5, <1>6, <1>7 DEF Passes

LEMMA SentIsOnPath ==
    ASSUME PathInv, CreditInv, Travels, NEW n \in Nodes, NEW p \in pending[n], NEW e, Sends(n, p, e)
    PROVE  /\ Plain(e) \/ OnPath(e)
           /\ IsData => e.message = first \/ e.message.type = "CmdError"
<1> DEFINE s == NodeSender(p.duty, ProofOf(n, p.signature))
<1>1. SignedBy(n, p)
  BY DEF PathInv
<1>2. CASE "proxies" \in DOMAIN p.data
  <2>1. p.data \in net /\ VerifyEnvelope(p.data) /\ IsEnvelope(p.data)
    BY <1>2 DEF Travels, ChainsInv, Sent
  <2>2. Passes(p.data, p.duty) /\ Reaches(Destination(p.data), n) /\ IsCmd(p.data, "Data")
    BY <1>2 DEF PathInv, Passes
  <2>3. e = WithProxy(p.data, s)
    BY <1>2 DEF Sends, Extend
  <2>4. /\ IsData /\ p.data.message = first
        /\ \/ p.duty = "Gateway" /\ p.data = theEnvelope
           \/ p.duty = "Payment" /\ FromGateway(p.data)
    BY <2>1, <2>2, PassingIs
  <2>5. e.message = first
    BY <2>1, <2>3, <2>4, ProxiesOnly
  <2>6. CASE p.duty = "Gateway" /\ p.data = theEnvelope
    <3>1. /\ Destination(p.data).type = "Section"
          /\ SectionOf(Destination(p.data).name) = SectionOf(NameOf(SenderId(theEnvelope.origin)))
      BY <2>4, <2>6, FirstIs DEF PathInv, Address
    <3>2. AddedTo(p.data, p.duty, SectionOf(Destination(p.data).name), e)
      BY <1>1, <2>1, <2>2, <2>3, <3>1, NodeAdds
    <3>3. FromGateway(e)
      BY <2>6, <3>1, <3>2 DEF FromGateway
    <3>4. QED
      BY <2>4, <2>5, <3>3 DEF OnPath
  <2>7. CASE p.duty = "Payment" /\ FromGateway(p.data)
    <3>1. /\ Destination(p.data).type = "Section"
          /\ SectionOf(Destination(p.data).name) = paymentSection
      BY <2>4, <2>7, GatewayIs DEF PathInv
    <3>2. AddedTo(p.data, p.duty, SectionOf(Destination(p.data).name), e)
      BY <1>1, <2>1, <2>2, <2>3, <3>1, NodeAdds
    <3>3. FromPayment(e)
      BY <2>1, <2>7, <3>1, <3>2 DEF FromPayment, Verified
    <3>4. QED
      BY <2>4, <2>5, <3>3 DEF OnPath
  <2>8. QED
    BY <2>4, <2>6, <2>7
<1>3. CASE "proxies" \notin DOMAIN p.data
  <2>1. IsData => p.data.type = "CmdError"
    BY <1>3 DEF PathInv
  <2>2. e = NewEnvelope(p.data, s)
    BY <1>3 DEF Sends, Extend
  <2>3. e.proxies = <<>> /\ e.message = p.data
    BY <2>2 DEF NewEnvelope
  <2>4. IsData => first.type = "Cmd"
    BY DEF IsData
  <2>5. IsData => e.message # first
    BY <2>1, <2>3, <2>4
  <2>6. Plain(e)
    BY <2>3, <2>5 DEF Plain
  <2>7. QED
    BY <2>1, <2>3, <2>6
<1>4. QED
  BY <1>2, <1>3

\* The votes of the Payment elders on the envelope base, and who of them has voted with
\* shares of the key set s.
votes == {v \in net : v.message = first /\ IsVote(v) /\ VerifyEnvelope(v)}

VotersOn(base) == {SenderId(MostRecentSender(v)) : v \in {w \in votes : WithoutLast(w) = base}}

AgreeOn(base, s) ==
    {n \in PaymentElders \cap DOMAIN Members[s] : BlsShare(s, Members[s][n]) \in VotersOn(base)}

LEMMA AgreedIs ==
    agreed <=> /\ IsData
               /\ \E base \in {WithoutLast(v) : v \in votes} : \E s \in KeySets :
                     ThroughGateway(base) /\ Cardinality(AgreeOn(base, s)) > Threshold
BY DEF agreed, votes, VotersOn, AgreeOn

LEMMA AgreeOnIsFinite ==
    ASSUME NEW base, NEW s \in KeySets
    PROVE  IsFiniteSet(AgreeOn(base, s)) /\ Cardinality(AgreeOn(base, s)) \in Nat
<1>1. AgreeOn(base, s) \in SUBSET Nodes
  BY MembersAssumption DEF AgreeOn
<1>2. QED
  BY <1>1, NodesAssumption, FS_Subset, FS_CardinalityType

\* What is agreed stays agreed, and what has been through the Gateway has been there.
LEMMA AgreedStays ==
    ASSUME net \subseteq net', scenario' = scenario
    PROVE  (agreed => agreed') /\ (forwarded => forwarded')
<1>1. first' = first /\ (IsData' <=> IsData) /\ PaymentElders' = PaymentElders
  BY DEF first, IsData, PaymentElders
<1>2. votes \subseteq votes' /\ Verified \subseteq Verified'
  BY <1>1 DEF votes, Verified
<1>3. forwarded => forwarded'
  BY <1>1, <1>2 DEF forwarded
<1>4. ASSUME NEW base \in {WithoutLast(v) : v \in votes}, NEW s \in KeySets, ThroughGateway(base),
             Cardinality(AgreeOn(base, s)) > Threshold
      PROVE  Cardinality(AgreeOn(base, s)') > Threshold
  <2>1. AgreeOn(base, s) \in SUBSET AgreeOn(base, s)'
    BY <1>1, <1>2 DEF AgreeOn, VotersOn
  <2>2. AgreeOn(base, s)' \in SUBSET Nodes
    BY MembersAssumption DEF AgreeOn
  <2>3. IsFiniteSet(AgreeOn(base, s)') /\ Cardinality(AgreeOn(base, s)') \in Nat
    BY <2>2, NodesAssumption, FS_Subset, FS_CardinalityType
  <2>4. Cardinality(AgreeOn(base, s)) <= Cardinality(AgreeOn(base, s)')
    BY <2>1, <2>3, FS_Subset
  <2>5. QED
    BY <1>4, <2>3, <2>4, AgreeOnIsFinite, ThresholdAssumption
<1>5. agreed' <=> /\ IsData'
                  /\ \E base \in {WithoutLast(v) : v \in votes'} : \E s \in KeySets :
                        ThroughGateway(base) /\ Cardinality(AgreeOn(base, s)') > Threshold
  BY AgreedIs DEF agreed, votes, VotersOn, AgreeOn
<1>6. agreed => agreed'
  BY <1>1, <1>2, <1>4, <1>5, AgreedIs
<1>7. QED
  BY <1>3, <1>6

\* The vote of a node is that of a Payment elder, on an envelope from the Gateway.
LEMMA VoteIs ==
    ASSUME PathInv, CreditInv, NEW b \in net, IsCmd(b, "Data"), IsVote(b)
    PROVE  IsData /\ b.message = first /\ FromPayment(b)
<1>1. MostRecentSender(b).type = "Node" /\ MostRecentSender(b).duty = "Payment"
  BY DEF IsVote
<1>2. IsData /\ b.message = first
  BY PassingIs
<1>3. b # theEnvelope
  BY <1>1, <1>2, FirstIs DEF PathInv
<1>4. ~FromGateway(b)
  BY <1>1, <1>2, GatewayIs DEF PathInv
<1>5. ~FromSection(b)
  BY <1>1, <1>2, SectionIs DEF PathInv
<1>6. QED
  BY <1>2, <1>3, <1>4, <1>5, PassingIs

\* A proof of the Payment section that verifies stands for a quorum of it.
LEMMA QuorumOfVotes ==
    ASSUME PathInv, CreditInv, Travels, NEW b \in net, VerifyEnvelope(b), IsCmd(b, "Data"), IsVote(b),
           VerifyEnvelope(Accumulated(b))
    PROVE  agreed
<1> DEFINE base == WithoutLast(b)
           set == MostRecentSender(b).proof.public_key_set
           raw == Combine(set, VotesOf(b), base)
           s == SectionSender("Payment", BlsProof(Bls(set), raw))
           I == {x.index : x \in VotesOf(b)}
           W == {n \in AgreeOn(base, set) : n \in DOMAIN Members[set] /\ Members[set][n] \in I}
           f == [n \in W |-> Members[set][n]]
<1>1. IsData /\ b.message = first /\ FromPayment(b)
  BY VoteIs
<1>2. IsEnvelope(base) /\ base \in Verified /\ FromGateway(base)
  BY <1>1, PaymentIs, GatewayIs DEF PathInv
<1>3. ThroughGateway(base)
  BY <1>1, <1>2, GatewayIs DEF PathInv, Verified
<1>4. raw = Raw(Bls(set), base)
  <2> HIDE DEF base, set, raw
  <2>1. Accumulated(b) = WithProxy(base, s)
    BY DEF Accumulated, base, set, raw
  <2>2. s.proof = BlsProof(Bls(set), raw)
    BY DEF SectionSender
  <2> HIDE DEF s
  <2>3. MostRecentSender(Accumulated(b)) = s /\ Signed(Accumulated(b)) = base
    BY <1>2, <2>1, ProxyAdded
  <2>4. SenderId(s) = Bls(set) /\ SenderSignature(s) = Signature("Bls", raw)
    BY <2>2 DEF SenderId, SenderSignature, ProofId, ProofSignature, BlsProof
  <2>5. Verify(Bls(set), Signature("Bls", raw), base) = "Ok"
    BY <2>3, <2>4 DEF VerifyEnvelope
  <2>6. QED
    BY <2>5 DEF Verify, RawVerify, Signature, Bls
<1>5. Cardinality(I) > Threshold
  <2>1. [invalid |-> VotesOf(b)] # Raw(Bls(set), base)
    BY DEF Raw
  <2>2. QED
    BY <1>4, <2>1 DEF Combine
<1>6. ASSUME NEW v \in VotesWith(b)
      PROVE  /\ set \in KeySets
             /\ \E n \in W : Members[set][n] = ShareOf(v).index
  <2>1. /\ v \in net /\ IsVote(v) /\ VerifyEnvelope(v) /\ WithoutLast(v) = base
        /\ MostRecentSender(v).proof.public_key_set = set
    BY DEF VotesWith
  <2>2. v.message = first /\ FromPayment(v)
    <3>1. Plain(v) \/ OnPath(v)
      BY <2>1 DEF PathInv
    <3>2. v.message = first
      <4>1. IsEnvelope(v)
        BY <2>1 DEF Travels, ChainsInv, Sent
      <4>2. base.message = first
        BY <1>1, <1>2, GatewayIs DEF PathInv
      <4>3. QED
        BY <2>1, <4>1, <4>2, ProxiesOnly
    <3>3. MostRecentSender(v).type = "Node" /\ MostRecentSender(v).duty = "Payment"
      BY <2>1 DEF IsVote
    <3>4. ASSUME Plain(v) PROVE FALSE
      <4>1. v = theEnvelope
        BY <1>1, <3>2, <3>4 DEF Plain
      <4>2. QED
        BY <1>1, <3>3, <4>1, FirstIs DEF PathInv
    <3>5. QED
      BY <1>1, <3>1, <3>2, <3>3, <3>4, GatewayIs, SectionIs, PaymentIs DEF PathInv, OnPath
  <2>3. PICK n \in PaymentElders : SenderId(MostRecentSender(v)) \in KeysOf(n)
    BY <1>1, <2>1, <2>2, PaymentIs DEF PathInv
  <2>4. SenderId(MostRecentSender(v)) = BlsShare(set, ShareOf(v).index)
    BY <2>1 DEF SenderId, ProofId, IsVote, ShareOf
  <2>5. set \in KeySets /\ n \in DOMAIN Members[set] /\ ShareOf(v).index = Members[set][n]
    BY <2>3, <2>4, ShareTells
  <2>6. v \in votes
    BY <2>1, <2>2 DEF votes
  <2>7. n \in AgreeOn(base, set)
    BY <2>1, <2>3, <2>4, <2>5, <2>6 DEF AgreeOn, VotersOn
  <2>8. ShareOf(v).index \in I
    BY DEF VotesOf
  <2>9. QED
    BY <2>5, <2>7, <2>8
<1>7. f \in Surjection(W, I)
  <2>1. \A i \in I : \E n \in W : Members[set][n] = i
    BY <1>6 DEF VotesOf
  <2>2. QED
    BY <2>1 DEF Surjection
<1>8. b \in VotesWith(b) /\ b \in votes
  BY <1>1 DEF VotesWith, votes
<1>9. set \in KeySets
  BY <1>6, <1>8
<1>10. W \in SUBSET AgreeOn(base, set)
  OBVIOUS
<1> HIDE DEF I, W, f
<1>11. IsFiniteSet(W) /\ Cardinality(W) <= Cardinality(AgreeOn(base, set))
  BY <1>9, <1>10, AgreeOnIsFinite, FS_Subset
<1>12. Cardinality(W) \in Nat /\ IsFiniteSet(I) /\ Cardinality(I) <= Cardinality(W)
  BY <1>7, <1>11, FS_Surjection, FS_CardinalityType
<1>13. Cardinality(I) \in Nat
  BY <1>12, FS_CardinalityType
<1>14. Cardinality(AgreeOn(base, set)) > Threshold
  BY <1>5, <1>9, <1>11, <1>12, <1>13, AgreeOnIsFinite, ThresholdAssumption
<1>15. QED
  BY <1>1, <1>3, <1>8, <1>9, <1>14, AgreedIs

LEMMA AccumulatedIsOnPath ==
    ASSUME PathInv, CreditInv, Travels, NEW b \in net, VerifyEnvelope(b), IsCmd(b, "Data"),
           IsVote(b)
    PROVE  IsData /\ FromSection(Accumulated(b)) /\ Accumulated(b).message = first
<1> DEFINE base == WithoutLast(b)
           e == Accumulated(b)
<1>1. IsData /\ FromPayment(b)
  BY VoteIs
<1>2. base \in Verified /\ FromGateway(base)
  BY <1>1, PaymentIs DEF PathInv
<1>3. \E proof : e = WithProxy(base, SectionSender("Payment", proof))
  BY DEF Accumulated
<1>4. VerifyEnvelope(e) => agreed
  BY QuorumOfVotes
<1> HIDE DEF base, e
<1>5. FromSection(e)
  BY <1>2, <1>3, <1>4 DEF FromSection
<1>6. QED
  BY <1>1, <1>5, SectionIs DEF PathInv, e

\* A data command is refused, or nothing is said.
LEMMA DataSays ==
    ASSUME PathInv, IsData, NEW n, NEW e \in net, NEW m, Says(n, e, m)
    PROVE  m.type = "CmdError"
<1>1. e.message = first \/ e.message.type = "CmdError"
  BY DEF PathInv
<1>2. CASE e.message = first
  <2>1. first.type = "Cmd" /\ first.cmd.class = "Data"
    BY DEF IsData
  <2>2. m = Refusal(e)
    BY <1>2, <2>1, SaysIs DEF IsTransferCmd, NodeTypes
  <2>3. QED
    BY <2>2 DEF Refusal, CmdError
<1>3. CASE e.message.type = "CmdError"
  BY <1>3, SaysIs DEF IsTransferCmd, NodeTypes
<1>4. QED
  BY <1>1, <1>2, <1>3

LEMMA PathInit == Init => PathInv
<1> SUFFICES ASSUME Init PROVE PathInv
  OBVIOUS
<1>1. scenario \in Scenarios /\ net = {theEnvelope} /\ \A n \in Nodes : pending[n] = {}
  BY DEF Init, theEnvelope
<1>2. Plain(theEnvelope) /\ theEnvelope.message = first
  BY <1>1, FirstIs DEF Plain
<1>3. QED
  BY <1>1, <1>2 DEF PathInv

LEMMA PathStep ==
    ASSUME PathInv, KeysInv, CreditInv, Travels, Adds
    PROVE  PathInv'
<1>0. /\ net \subseteq net' /\ scenario' = scenario /\ first' = first /\ (IsData' <=> IsData)
      /\ theEnvelope' = theEnvelope /\ paymentSection' = paymentSection
      /\ Verified \subseteq Verified' /\ (agreed => agreed')
  <2>1. net \subseteq net' /\ scenario' = scenario
    BY DEF Adds
  <2>2. agreed => agreed'
    BY <2>1, AgreedStays
  <2>3. QED
    BY <2>1, <2>2, FirstStays DEF first, IsData, paymentSection, Verified
<1>1. ASSUME NEW e, Plain(e) \/ OnPath(e)
      PROVE  (Plain(e) \/ OnPath(e))'
  <2>1. Plain(e) => Plain(e)'
    BY <1>0 DEF Plain
  <2>2. \A d : FromGateway(d) => FromGateway(d)'
    BY <1>0 DEF FromGateway, AddedTo
  <2>3. FromPayment(e) => FromPayment(e)'
    BY <1>0, <2>2 DEF FromPayment, AddedTo
  <2>4. FromSection(e) => FromSection(e)'
    BY <1>0, <2>2 DEF FromSection
  <2>5. QED
    BY <1>0, <1>1, <2>1, <2>2, <2>3, <2>4 DEF OnPath
<1>2. ASSUME NEW e \in net'
      PROVE  /\ Plain(e) \/ OnPath(e)
             /\ IsData => e.message = first \/ e.message.type = "CmdError"
  <2>1. CASE e \in net
    BY <2>1 DEF PathInv
  <2>2. ASSUME NEW n \in Nodes, NEW p \in pending[n], Sends(n, p, e)
        PROVE  /\ Plain(e) \/ OnPath(e)
               /\ IsData => e.message = first \/ e.message.type = "CmdError"
    BY <2>2, SentIsOnPath
  <2>3. ASSUME NEW b \in net, VerifyEnvelope(b), IsCmd(b, "Data"), IsVote(b), e = Accumulated(b)
        PROVE  OnPath(e) /\ e.message = first
    BY <2>3, AccumulatedIsOnPath DEF OnPath
  <2>4. ASSUME NEW c, NEW v \in Validations(c), e = ClientEnvelope(c, Registration(AgreementOf(c, v)))
        PROVE  Plain(e) /\ ~IsData
    <3>1. PICK x \in net : x.message.type = "Event"
      BY <2>4 DEF Validations
    <3>2. ~IsData
      BY <3>1 DEF PathInv, IsData
    <3>3. e.proxies = <<>>
      BY <2>4 DEF ClientEnvelope, NewEnvelope
    <3>4. QED
      BY <3>2, <3>3 DEF Plain
  <2>5. QED
    BY <2>1, <2>2, <2>3, <2>4 DEF Adds, Appears
<1>3. ASSUME NEW n \in Nodes, NEW p \in pending'[n]
      PROVE  /\ SignedBy(n, p)
             /\ IF "proxies" \in DOMAIN p.data
                THEN Passes(p.data, p.duty) /\ Reaches(Destination(p.data), n)
                ELSE IsData => p.data.type = "CmdError"
  <2>1. CASE p \in pending[n]
    BY <2>1 DEF PathInv
  <2>2. ASSUME NEW e \in net, Receives(n, e), Begins(n, e, p)
        PROVE  /\ SignedBy(n, p)
               /\ IF "proxies" \in DOMAIN p.data
                  THEN Passes(p.data, p.duty) /\ Reaches(Destination(p.data), n)
                  ELSE IsData => p.data.type = "CmdError"
    <3>1. SignedBy(n, p)
      BY <2>2, SignIs DEF Begins, SignedBy
    <3>2. CASE Says(n, e, p.data)
      BY <3>1, <3>2, SaidIsMessage, DataSays
    <3>3. CASE p.data = e /\ Passes(e, p.duty)
      <4>1. "proxies" \in DOMAIN e
        BY DEF Travels, ChainsInv, Sent, IsEnvelope
      <4>2. QED
        BY <2>2, <3>1, <3>3, <4>1 DEF Receives
    <3>4. QED
      BY <2>2, <3>2, <3>3 DEF Begins
  <2>3. QED
    BY <2>1, <2>2 DEF Adds
<1>4. \A e \in net' : (Plain(e) \/ OnPath(e))'
  BY <1>1, <1>2
<1>5. \A n \in Nodes : \A p \in pending'[n] :
        /\ SignedBy(n, p)
        /\ IF "proxies" \in DOMAIN p.data
           THEN Passes(p.data, p.duty) /\ Reaches(Destination(p.data), n)
           ELSE IsData' => p.data.type = "CmdError"
  BY <1>0, <1>3
<1>6. IsData' => \A e \in net' : e.message = first' \/ e.message.type = "CmdError"
  BY <1>0, <1>2
<1>7. scenario' \in Scenarios
  BY <1>0 DEF PathInv
<1>8. QED
  BY <1>4, <1>5, <1>6, <1>7 DEF PathInv

-----------------------------------------------------------------------------
\* The refinement

\* Nothing is agreed that has not been through the Gateway before.
LEMMA AgreedAfterGateway ==
    ASSUME PathInv, KeysInv, CreditInv, Travels, Adds, agreed'
    PROVE  forwarded
<1>0. first' = first /\ (IsData' <=> IsData)
  BY DEF Adds, first, IsData
<1>1. IsData' /\ \E v \in votes' : TRUE
  BY DEF agreed, votes
<1>2. PICK v \in net' : v.message = first /\ IsVote(v)
  BY <1>0, <1>1 DEF votes
<1>3. IsData
  BY <1>0, <1>1
<1>4. MostRecentSender(v).type = "Node" /\ MostRecentSender(v).duty = "Payment"
  BY <1>2 DEF IsVote
<1>5. IsCmd(v, "Data")
  BY <1>2, <1>3 DEF IsData, IsCmd
<1>6. FromPayment(v)
  <2>1. CASE v \in net
    BY <1>2, <1>5, <2>1, VoteIs
  <2>2. CASE v \notin net
    <3>1. Plain(v) \/ OnPath(v)
      <4>1. ASSUME NEW n \in Nodes, NEW p \in pending[n], Sends(n, p, v)
            PROVE  Plain(v) \/ OnPath(v)
        BY <4>1, SentIsOnPath
      <4>2. ASSUME NEW b \in net, VerifyEnvelope(b), IsCmd(b, "Data"), IsVote(b), v = Accumulated(b)
            PROVE  OnPath(v)
        BY <4>2, AccumulatedIsOnPath DEF OnPath
      <4>3. ASSUME NEW c, NEW m, v = ClientEnvelope(c, m)
            PROVE  FALSE
        BY <1>4, <4>3 DEF ClientEnvelope, NewEnvelope, MostRecentSender, ClientSender
      <4>4. QED
        BY <2>2, <4>1, <4>2, <4>3 DEF Adds, Appears
    <3>2. ~Plain(v)
      <4>1. v = theEnvelope => MostRecentSender(v).type = "Client"
        BY <1>3, FirstIs DEF PathInv
      <4>2. QED
        BY <1>2, <1>3, <1>4, <4>1 DEF Plain
    <3>3. ~FromGateway(v) /\ ~FromSection(v)
      BY <1>3, <1>4, GatewayIs, SectionIs DEF PathInv
    <3>4. QED
      BY <3>1, <3>2, <3>3 DEF OnPath
  <2>3. QED
    BY <2>1, <2>2
<1>7. PICK b \in Verified : FromGateway(b)
  BY <1>6 DEF FromPayment
<1>8. b.message = first /\ ThroughGateway(b)
  BY <1>3, <1>7, GatewayIs DEF PathInv, Verified
<1>9. QED
  BY <1>3, <1>7, <1>8 DEF forwarded

\* Who deals with the data command has it with the proof of the Payment section.
LEMMA DealingWithData ==
    ASSUME PathInv, CreditInv, IsAuthorisedData, NEW n \in Nodes, NEW e \in net, Receives(n, e),
           Key(e.message) = Key(first),
           \/ Deny(n, e) \/ ExecuteCmd(n, e) \/ ValidateTransfer(n, e)
           \/ RegisterTransfer(n, e) \/ AnswerQuery(n, e) \/ HandleNodeMessage(n, e)
    PROVE  agreed /\ Destination(e) = Address("Section", DataCmdDst(first.cmd.cmd))
<1>1. IsData /\ first.type = "Cmd" /\ first.cmd.class = "Data" /\ AuthorisedCmd(theEnvelope)
  BY DEF IsAuthorisedData, IsData, theEnvelope
<1>2. e.message.type = "Cmd"
  BY <1>1 DEF Key
<1>3. e.message = first
  BY <1>1, <1>2 DEF PathInv
<1>4. IsCmd(e, "Data")
  BY <1>1, <1>3 DEF IsCmd
<1>5. e = theEnvelope \/ FromGateway(e) \/ FromPayment(e) \/ FromSection(e)
  BY <1>4, PassingIs
<1>6. e.origin = theEnvelope.origin
  BY <1>1, <1>5, GatewayIs, PaymentIs, SectionIs DEF PathInv
<1>7. AuthorisedCmd(e)
  BY <1>1, <1>3, <1>6, FirstIs DEF AuthorisedCmd, PathInv
<1>8. ExecuteCmd(n, e)
  BY <1>1, <1>3, <1>7 DEF Deny, ValidateTransfer, RegisterTransfer, AnswerQuery,
                          HandleNodeMessage, IsCmd
<1>9. MostRecentSender(e).type = "Section"
  BY <1>1, <1>3, <1>8 DEF ExecuteCmd, Ready, IsCmd
<1>10. FromSection(e)
  <2>1. e = theEnvelope => MostRecentSender(e).type = "Client"
    BY <1>1, FirstIs DEF PathInv
  <2>2. QED
    BY <1>1, <1>5, <1>9, <2>1, GatewayIs, PaymentIs DEF PathInv
<1>11. QED
  BY <1>1, <1>10, SectionIs DEF PathInv, Receives

\* A step of the network deals with a message, or adds to the network.
LEMMA DealingOrAdding ==
    ASSUME [Next]_vars
    PROVE  \/ UNCHANGED handled
           \/ \E n \in Nodes : \E e \in net :
                /\ Receives(n, e) /\ Dedup(n, e.message) /\ UNCHANGED net
                /\ \/ Deny(n, e) \/ ExecuteCmd(n, e) \/ ValidateTransfer(n, e)
                   \/ RegisterTransfer(n, e) \/ AnswerQuery(n, e) \/ HandleNodeMessage(n, e)
<1>1. CASE UNCHANGED vars
  BY <1>1 DEF vars, routeVars
<1>2. ASSUME NEW n \in Nodes, NEW e \in net, Receives(n, e),
             \/ Deny(n, e) \/ ExecuteCmd(n, e) \/ ValidateTransfer(n, e)
             \/ RegisterTransfer(n, e) \/ AnswerQuery(n, e) \/ HandleNodeMessage(n, e)
      PROVE  Dedup(n, e.message) /\ UNCHANGED net
  BY <1>2, HandlingIs DEF DealsWith
<1>3. ASSUME NEW n \in Nodes, NEW e, Forward(n, e) \/ Accumulate(n, e)
      PROVE  UNCHANGED handled
  BY <1>3 DEF Forward, Accumulate
<1>4. CASE Work
  BY <1>2, <1>3, <1>4 DEF Work, Handle, FinishSend, Agree
<1>5. ASSUME NEW n \in Changing, ChangeKeys(n)
      PROVE  UNCHANGED handled
  BY <1>5 DEF ChangeKeys
<1>6. QED
  BY <1>1, <1>4, <1>5 DEF Next

LEMMA PathInitMaps == Init => Path!Init
<1> SUFFICES ASSUME Init PROVE Path!Init
  OBVIOUS
<1>1. scenario \in Scenarios /\ net = {theEnvelope} /\ \A n \in Nodes : handled[n] = {}
  BY DEF Init, theEnvelope
<1>2. theEnvelope.proxies = <<>> /\ MostRecentSender(theEnvelope) = theEnvelope.origin
      /\ (IsData => theEnvelope.origin.type = "Client")
  BY <1>1, FirstIs
<1>3. ~forwarded
  BY <1>1, <1>2 DEF forwarded, Verified, ThroughGateway
<1>4. ~agreed
  BY <1>1, <1>2 DEF agreed, IsVote
<1>5. executed = {}
  BY <1>1 DEF executed, DealtWith
<1>6. QED
  BY <1>3, <1>4, <1>5 DEF Path!Init

\* Boolean-valued variables that are the same.
LEMMA SameTruth ==
    ASSUME NEW P \in BOOLEAN, NEW Q \in BOOLEAN, P <=> Q
    PROVE  P = Q
OBVIOUS

LEMMA PathStepMaps ==
    ASSUME PathInv, KeysInv, CreditInv, Travels, [Next]_vars
    PROVE  [Path!Next]_(Path!pathVars)
<1>1. Adds
  BY StepAdds
<1>2. /\ net \subseteq net' /\ scenario' = scenario /\ first' = first /\ theEnvelope' = theEnvelope
      /\ (agreed => agreed') /\ (forwarded => forwarded') /\ (agreed' => forwarded)
  <2>1. net \subseteq net' /\ scenario' = scenario
    BY <1>1 DEF Adds
  <2>2. QED
    BY <1>1, <2>1, AgreedStays, FirstStays, AgreedAfterGateway DEF first
<1>3. forwarded \in BOOLEAN /\ forwarded' \in BOOLEAN /\ agreed \in BOOLEAN /\ agreed' \in BOOLEAN
  BY DEF forwarded, agreed
<1>4. IsAuthorisedData' <=> IsAuthorisedData
  BY <1>2 DEF IsAuthorisedData, IsData, theEnvelope, AuthorisedCmd, Authorised
<1>5. CASE UNCHANGED handled
  <2>1. executed' = executed
    BY <1>2, <1>4, <1>5 DEF executed, DealtWith
  <2>2. CASE ~forwarded /\ forwarded'
    <3>1. ~agreed /\ ~agreed'
      BY <1>2, <2>2
    <3>2. agreed' = agreed /\ forwarded' = TRUE
      BY <1>3, <2>2, <3>1
    <3>3. Path!Forward
      BY <2>1, <2>2, <3>2 DEF Path!Forward
    <3>4. QED
      BY <3>3 DEF Path!Next
  <2>3. CASE ~agreed /\ agreed'
    <3>1. forwarded /\ forwarded'
      BY <1>2, <2>3
    <3>2. forwarded' = forwarded /\ agreed' = TRUE
      BY <1>3, <2>3, <3>1
    <3>3. Path!Agree
      BY <2>1, <2>3, <3>1, <3>2 DEF Path!Agree
    <3>4. QED
      BY <3>3 DEF Path!Next
  <2>4. CASE ~(~forwarded /\ forwarded') /\ ~(~agreed /\ agreed')
    <3>1. (forwarded' <=> forwarded) /\ (agreed' <=> agreed)
      BY <1>2, <2>4
    <3>2. forwarded' = forwarded /\ agreed' = agreed
      BY <1>3, <3>1, SameTruth
    <3>3. QED
      BY <2>1, <3>2 DEF Path!pathVars
  <2>5. QED
    BY <2>2, <2>3, <2>4
<1>6. ASSUME NEW n \in Nodes, NEW e \in net, Receives(n, e), Dedup(n, e.message), UNCHANGED net,
             \/ Deny(n, e) \/ ExecuteCmd(n, e) \/ ValidateTransfer(n, e)
             \/ RegisterTransfer(n, e) \/ AnswerQuery(n, e) \/ HandleNodeMessage(n, e)
      PROVE  [Path!Next]_(Path!pathVars)
  <2>1. forwarded' = forwarded /\ agreed' = agreed
    <3>1. forwarded' <=> forwarded
      BY <1>2, <1>6 DEF forwarded, Verified, IsData
    <3>2. agreed' <=> agreed
      BY <1>2, <1>6 DEF agreed, IsData, PaymentElders
    <3>3. QED
      BY <1>3, <3>1, <3>2, SameTruth
  <2>2. \A m \in Nodes : DealtWith(m)' <=> DealtWith(m) \/ (m = n /\ Key(first) = Key(e.message))
    BY <1>2, <1>6 DEF Dedup, DealtWith, Travels
  <2>3. CASE ~IsAuthorisedData \/ Key(first) # Key(e.message)
    <3>1. executed' = executed
      BY <1>4, <2>2, <2>3 DEF executed
    <3>2. QED
      BY <2>1, <3>1 DEF Path!pathVars
  <2>4. CASE IsAuthorisedData /\ Key(first) = Key(e.message)
    <3>1. executed' = executed \cup {n} /\ n \notin executed
      <4>1. executed = {m \in Nodes : DealtWith(m)} /\ executed' = {m \in Nodes : DealtWith(m)'}
        BY <1>4, <2>4 DEF executed
      <4>2. ~DealtWith(n)
        BY <1>6, <2>4 DEF Dedup, DealtWith
      <4>3. QED
        BY <2>2, <2>4, <4>1, <4>2
    <3>2. agreed
      BY <1>6, <2>4, DealingWithData
    <3>3. Path!Execute(n)
      BY <2>1, <3>1, <3>2 DEF Path!Execute
    <3>4. QED
      BY <3>3 DEF Path!Next
  <2>5. QED
    BY <2>3, <2>4
<1>7. QED
  BY <1>5, <1>6, DealingOrAdding

\* The network implements CommandPath, for any sections, elders, key sets, threshold and
\* changes of keys: nobody carries a data command out before it has been through the
\* Gateway and more than Threshold Payment elders have signed it (cmd_dst,
\* messaging/mod.rs:118).
THEOREM ImplementsCommandPathHolds ==
    ASSUME Holder = "NodeKeypairs"
    PROVE  Spec => ImplementsCommandPath
<1>1. Travels /\ KeysInv /\ CreditInv /\ [Next]_vars => CreditInv'
  BY StepAdds, CreditStep
<1>2. PathInv /\ Travels /\ KeysInv /\ CreditInv /\ [Next]_vars => PathInv'
  BY StepAdds, PathStep
<1>3. PathInv /\ Travels /\ KeysInv /\ CreditInv /\ [Next]_vars => [Path!Next]_(Path!pathVars)
  BY PathStepMaps
<1>4. QED
  BY <1>1, <1>2, <1>3, CreditInit, PathInit, PathInitMaps, TravelsHolds, KeysHoldInNetwork, PTL
  DEF Spec, ImplementsCommandPath, Path!Spec

-----------------------------------------------------------------------------
\* Where a data command is carried out

AtHome(n) == n \in Elders[SectionOf(DataCmdDst(first.cmd.cmd))]

DataAtHome == IsAuthorisedData => \A n \in Nodes : DealtWith(n) => AtHome(n)

LEMMA DataAtHomeStep ==
    ASSUME PathInv, CreditInv, Travels, DataAtHome, [Next]_vars
    PROVE  DataAtHome'
<1>1. scenario' = scenario /\ first' = first /\ theEnvelope' = theEnvelope
  <2>1. Adds
    BY StepAdds
  <2>2. QED
    BY <2>1, FirstStays DEF Adds, first
<1>2. (IsAuthorisedData' <=> IsAuthorisedData) /\ \A n : AtHome(n)' <=> AtHome(n)
  BY <1>1 DEF IsAuthorisedData, IsData, theEnvelope, AuthorisedCmd, Authorised, AtHome
<1>3. ASSUME IsAuthorisedData, NEW n \in Nodes, DealtWith(n)', ~DealtWith(n)
      PROVE  AtHome(n)
  <2>1. PICK m \in Nodes : \E e \in net :
          /\ Receives(m, e) /\ Dedup(m, e.message)
          /\ \/ Deny(m, e) \/ ExecuteCmd(m, e) \/ ValidateTransfer(m, e)
             \/ RegisterTransfer(m, e) \/ AnswerQuery(m, e) \/ HandleNodeMessage(m, e)
    BY <1>1, <1>3, DealingOrAdding DEF DealtWith
  <2>2. PICK e \in net :
          /\ Receives(m, e) /\ Dedup(m, e.message)
          /\ \/ Deny(m, e) \/ ExecuteCmd(m, e) \/ ValidateTransfer(m, e)
             \/ RegisterTransfer(m, e) \/ AnswerQuery(m, e) \/ HandleNodeMessage(m, e)
    BY <2>1
  <2>3. m = n /\ Key(e.message) = Key(first)
    BY <1>1, <1>3, <2>2 DEF Dedup, DealtWith, Travels
  <2>4. Destination(e) = Address("Section", DataCmdDst(first.cmd.cmd))
    BY <1>3, <2>2, <2>3, DealingWithData
  <2>5. QED
    BY <2>2, <2>3, <2>4 DEF Receives, Reaches, Address, AtHome
<1>4. QED
  BY <1>2, <1>3 DEF DataAtHome

\* Whatever way its envelopes take, an authorised data command is dealt with by elders of
\* the section where its data is, and by nobody else (DataCmd::dst_address, and cmd_dst,
\* messaging/mod.rs:118).
THEOREM DataAtHomeHolds ==
    ASSUME Holder = "NodeKeypairs"
    PROVE  Spec => []DataAtHome
<1>1. Init => DataAtHome
  BY DEF Init, DataAtHome, DealtWith
<1>2. Travels /\ KeysInv /\ CreditInv /\ [Next]_vars => CreditInv'
  BY StepAdds, CreditStep
<1>3. PathInv /\ Travels /\ KeysInv /\ CreditInv /\ [Next]_vars => PathInv'
  BY StepAdds, PathStep
<1>4. PathInv /\ CreditInv /\ Travels /\ DataAtHome /\ [Next]_vars => DataAtHome'
  BY DataAtHomeStep
<1>5. QED
  BY <1>1, <1>2, <1>3, <1>4, CreditInit, PathInit, TravelsHolds, KeysHoldInNetwork, PTL DEF Spec

-----------------------------------------------------------------------------
\* Where every message is dealt with

\* The address reaches nodes of S only.
Only(address, S) == \A n \in Nodes : Reaches(address, n) => n \in S

Goes(m, address) ==
    \E b \in Business(scenario) : b.key = Key(m) /\ Only(address, b.nodes)

\* Signed by a node of S; under the name of a share no node is found.
By(origin, S) ==
    /\ origin.type = "Node"
    /\ origin.proof.type = "BlsShare" \/ \E n \in S : SenderId(origin) = Ed25519(n)

isDuplication == first.type = "NodeCmd" /\ first.cmd.op = "DuplicateChunk"

\* A command that ends in a credit.
credits ==
    \/ IsTransferCmd(first, "ValidateTransfer") \/ IsTransferCmd(first, "RegisterTransfer")
    \/ first.type = "NodeCmd" /\ first.cmd.op = "RegisterSectionPayout"

theCmd == IF first.type = "Cmd" THEN first.cmd.cmd ELSE first.cmd

IsFetch(m) ==
    isDuplication /\ \E h \in first.cmd.fetch_from_holders :
                        m = NodeQuery(GetChunks("GetChunks", h, first.cmd.address), first.id + 1)

IsCredit(m) ==
    credits /\ \E p : m = Propagation(p, creditId) /\ p.signed_transfer = theTransfer

\* Inductive: clients make queries and commands; what nodes ask and command comes from the
\* first sender, or from one whose business it was to ask or to register.
OriginsInv ==
    /\ \A e \in net :
          /\ e.message.type \in {"Query", "Cmd"} =>
                /\ e.origin.type = "Client"
                /\ IsCmd(e, "Transfer") \/ SenderId(e.origin) = ClientKey[scenario.by]
          /\ e.message.type = "NodeQuery" =>
                \/ e.message = first /\ By(e.origin, {scenario.by})
                \/ IsFetch(e.message) /\ By(e.origin, NodesNamed(first.cmd.new_holder))
          /\ e.message.type = "NodeCmd" =>
                \/ e.message = first /\ By(e.origin, {scenario.by})
                \/ IsCredit(e.message) /\ By(e.origin, Debtor(theCmd))
    /\ \A n \in Nodes : \A p \in pending[n] : "proxies" \notin DOMAIN p.data =>
          /\ p.data.type \notin {"Query", "Cmd"}
          /\ p.data.type = "NodeQuery" =>
                IsFetch(p.data) /\ n \in NodesNamed(first.cmd.new_holder)
          /\ p.data.type = "NodeCmd" => IsCredit(p.data) /\ n \in Debtor(theCmd)

\* Inductive: the address that an answer or an event has is that of its business, and a
\* client gives the id 2 to what it registers.
Placed(m) ==
    /\ m.type = "Cmd" => m = first \/ Key(m) = <<"Cmd", 2>>
    /\ m.type = "QueryResponse" => m.query_origin.type = "Client"
    /\ m.type = "CmdError" => m.cmd_origin.type = "Client"
    /\ m.type = "NodeQueryResponse" =>
          /\ Goes(m, m.query_origin)
          /\ m.response.query.op = "GetChunks" =>
                For("NodeEvent", m.correlation_id, Home(m.response.query.address.name))
                  \in Business(scenario)
    /\ m.type = "NodeCmdError" => Goes(m, m.cmd_origin)
    /\ m.type = "NodeEvent" => Goes(m, NodeEventDst(m.event))

HomesInv == OriginsInv /\ \A m \in said : Placed(m)

\* A name of a node is that of its Ed25519 key, and of no other key.
LEMMA NamesTell ==
    ASSUME NEW k, NEW n
    PROVE  /\ NameOf(Ed25519(k)) = NodeName(n) => k = n
           /\ \A s, i : NameOf(BlsShare(s, i)) # NodeName(n)
<1>1. \A a, b : NameOf(a) = NameOf(b) => a = b
  <2>1. \A a : NameOf(a).name = a
    BY DEF NameOf
  <2>2. QED
    BY <2>1
<1>2. Ed25519(k).of = k /\ Ed25519(n).of = n /\ Ed25519(n).type = "Ed25519"
  BY DEF Ed25519
<1>3. \A s, i : BlsShare(s, i).type = "BlsShare"
  BY DEF BlsShare
<1>4. QED
  BY <1>1, <1>2, <1>3 DEF NodeName

\* An answer to a node reaches that node only.
LEMMA AnswersReach ==
    ASSUME NEW origin, NEW S, By(origin, S)
    PROVE  Only(SenderAddress(origin), S)
<1> SUFFICES ASSUME NEW n \in Nodes, Reaches(SenderAddress(origin), n)
             PROVE  n \in S
  BY DEF Only
<1>1. NameOf(SenderId(origin)) = NodeName(n)
  BY DEF By, Reaches, SenderAddress, Address
<1>2. origin.proof.type = "BlsShare" =>
        SenderId(origin) = BlsShare(origin.proof.public_key_set, origin.proof.index)
  BY DEF SenderId, ProofId
<1>3. QED
  BY <1>1, <1>2, NamesTell DEF By

\* What a node finds a message of a node to ask for, exactly.
LEMMA FollowUpsAre ==
    ASSUME NEW n, NEW e, NEW m \in FollowUps(n, e) \cup Failures(e)
    PROVE  LET q == e.message
           IN  \/ /\ q.type = "NodeQuery"
                  /\ \E r : m = NodeQueryResponse(NodeResponse(q.query, r), q.id,
                                                  SenderAddress(e.origin))
               \/ /\ q.type = "NodeQueryResponse" /\ q.response.query.op = "GetChunks"
                  /\ m = NodeEvent(DuplicationComplete(q.response.query.address),
                                   q.correlation_id)
               \/ /\ q.type = "NodeCmd" /\ q.cmd.op = "DuplicateChunk"
                  /\ \E h \in q.cmd.fetch_from_holders :
                        m = NodeQuery(GetChunks("GetChunks", h, q.cmd.address), q.id + 1)
               \/ /\ q.type = "NodeCmd" /\ q.cmd.op = "ValidateSectionPayout"
                  /\ \E x, y : m = NodeEvent(SectionPayoutValidated(
                                               TransferValidated(q.cmd.payload, x, y)), q.id)
               \/ /\ q.type = "NodeCmd" /\ q.cmd.op = "RegisterSectionPayout"
                  /\ m = Propagation(q.cmd.payload, q.id + 1)
               \/ /\ q.type = "NodeCmd" /\ q.cmd.op \in {"DuplicateChunk", "PropagateTransfer"}
                  /\ \E x : m = NodeCmdError(x, q.id, SenderAddress(e.origin))
<1>1. CASE m \in FollowUps(n, e)
  BY <1>1 DEF FollowUps, Propagation
<1>2. CASE m \in Failures(e)
  BY <1>2 DEF Failures
<1>3. QED
  BY <1>1, <1>2

LEMMA FirstRequest ==
    ASSUME scenario \in Scenarios
    PROVE  /\ IsRequest(first) /\ first.id \in Nat /\ Key(first) = <<first.type, first.id>>
           /\ [key |-> Key(first), nodes |-> Handlers(scenario)] \in Business(scenario)
           /\ first.type \in RequestTypes
           /\ scenario.by \in Clients => first.type \in {"Cmd", "Query"}
           /\ scenario.by \notin Clients =>
                 scenario.by \in Nodes /\ first.type \in {"NodeCmd", "NodeQuery"}
<1>1. IsRequest(first) /\ first.id \in Nat
  BY ScenariosAssumption DEF first
<1>2. first.type \in RequestTypes /\ "id" \in DOMAIN first
  BY <1>1, RequestIs
<1>3. QED
  BY <1>1, <1>2, ScenariosAssumption DEF Key, Business, first

\* The business that each first message makes.
LEMMA TransfersMake ==
    /\ credits => /\ For("NodeCmd", creditId, Creditor(theCmd)) \in Business(scenario)
                  /\ For("NodeCmdError", creditId, Debtor(theCmd)) \in Business(scenario)
                  /\ theTransfer.transfer = TransferIn(theCmd)
    /\ beginsTransfer => /\ For("Cmd", 2, Debtor(theCmd)) \in Business(scenario)
                         /\ theTransfer.transfer = TransferIn(theCmd)
<1> DEFINE m == scenario.message
<1>1. CASE IsTransferCmd(m, "ValidateTransfer")
  <2>1. FollowingBusiness(scenario)
          = {For("Cmd", 2, Debtor(m.cmd.cmd))} \cup Crediting(m.cmd.cmd, 3)
    BY <1>1 DEF FollowingBusiness, IsTransferCmd
  <2>2. theCmd = m.cmd.cmd /\ creditId = 3 /\ theTransfer = m.cmd.cmd.payload
    BY <1>1 DEF theCmd, creditId, theTransfer, IsTransferCmd, first, beginsTransfer
  <2>3. TransferIn(m.cmd.cmd) = m.cmd.cmd.payload.transfer
    BY <1>1 DEF TransferIn, IsTransferCmd
  <2>4. QED
    BY <2>1, <2>2, <2>3 DEF Crediting, Business
<1>2. CASE IsTransferCmd(m, "RegisterTransfer")
  <2>1. FollowingBusiness(scenario) = Crediting(m.cmd.cmd, 3)
    BY <1>2 DEF FollowingBusiness, IsTransferCmd
  <2>2. /\ theCmd = m.cmd.cmd /\ creditId = 3 /\ ~beginsTransfer
        /\ theTransfer = m.cmd.cmd.payload.signed_transfer
    BY <1>2 DEF theCmd, creditId, theTransfer, IsTransferCmd, first, beginsTransfer
  <2>3. TransferIn(m.cmd.cmd) = m.cmd.cmd.payload.signed_transfer.transfer
    BY <1>2 DEF TransferIn, IsTransferCmd
  <2>4. QED
    BY <2>1, <2>2, <2>3 DEF Crediting, Business
<1>3. CASE m.type = "NodeCmd" /\ m.cmd.op = "RegisterSectionPayout"
  <2>1. FollowingBusiness(scenario) = Crediting(m.cmd, m.id + 1)
    BY <1>3 DEF FollowingBusiness
  <2>2. /\ theCmd = m.cmd /\ creditId = m.id + 1 /\ ~beginsTransfer
        /\ theTransfer = m.cmd.payload.signed_transfer
    BY <1>3 DEF theCmd, creditId, theTransfer, first, beginsTransfer
  <2>3. TransferIn(m.cmd) = m.cmd.payload.signed_transfer.transfer
    BY <1>3 DEF TransferIn
  <2>4. QED
    BY <2>1, <2>2, <2>3 DEF Crediting, Business
<1>4. QED
  BY <1>1, <1>2, <1>3 DEF credits, beginsTransfer, IsTransferCmd, first

LEMMA NodesMake ==
    LET sender == NodesNamed(NodeName(scenario.by))
    IN  /\ first.type = "NodeQuery" =>
              /\ For("NodeQueryResponse", first.id, sender) \in Business(scenario)
              /\ first.query.op = "GetChunks" =>
                    For("NodeEvent", first.id, Home(first.query.address.name))
                      \in Business(scenario)
        /\ isDuplication =>
              /\ For("NodeCmdError", first.id, sender) \in Business(scenario)
              /\ For("NodeQueryResponse", first.id + 1, NodesNamed(first.cmd.new_holder))
                   \in Business(scenario)
              /\ For("NodeEvent", first.id + 1, Home(first.cmd.address.name))
                   \in Business(scenario)
              /\ \A h \in first.cmd.fetch_from_holders :
                    For("NodeQuery", first.id + 1, NodesNamed(h)) \in Business(scenario)
        /\ first.type = "NodeCmd" /\ first.cmd.op = "ValidateSectionPayout" =>
              For("NodeEvent", first.id, Debtor(first.cmd)) \in Business(scenario)
        /\ first.type = "NodeCmd" /\ first.cmd.op = "PropagateTransfer" =>
              For("NodeCmdError", first.id, sender) \in Business(scenario)
<1> DEFINE m == scenario.message
           sender == NodesNamed(NodeName(scenario.by))
<1>1. ASSUME m.type = "NodeQuery"
      PROVE  FollowingBusiness(scenario)
               = {For("NodeQueryResponse", m.id, sender)} \cup
                 IF m.query.op = "GetChunks"
                 THEN {For("NodeEvent", m.id, Home(m.query.address.name))} ELSE {}
  BY <1>1 DEF FollowingBusiness
<1>2. ASSUME m.type = "NodeCmd", m.cmd.op = "DuplicateChunk"
      PROVE  FollowingBusiness(scenario)
               = {For("NodeCmdError", m.id, sender),
                  For("NodeQueryResponse", m.id + 1, NodesNamed(m.cmd.new_holder)),
                  For("NodeEvent", m.id + 1, Home(m.cmd.address.name))} \cup
                 {For("NodeQuery", m.id + 1, NodesNamed(h)) : h \in m.cmd.fetch_from_holders}
  BY <1>2 DEF FollowingBusiness
<1>3. ASSUME m.type = "NodeCmd", m.cmd.op = "ValidateSectionPayout"
      PROVE  FollowingBusiness(scenario) = {For("NodeEvent", m.id, Debtor(m.cmd))}
  BY <1>3 DEF FollowingBusiness
<1>4. ASSUME m.type = "NodeCmd", m.cmd.op = "PropagateTransfer"
      PROVE  FollowingBusiness(scenario) = {For("NodeCmdError", m.id, sender)}
  BY <1>4 DEF FollowingBusiness
<1>5. QED
  BY <1>1, <1>2, <1>3, <1>4 DEF Business, isDuplication, first

\* Destinations by the type of a message.
LEMMA Destinations ==
    ASSUME NEW e
    PROVE  LET m == e.message
           IN  /\ m.type = "Query" => Destination(e) = Address("Section", QueryDst(m.query))
               /\ IsCmd(e, "Auth") =>
                     Destination(e) = Address("Section", NameOf(SenderId(e.origin)))
               /\ IsCmd(e, "Transfer") =>
                     Destination(e) = Address("Section", TransferCmdDst(m.cmd.cmd))
               /\ m.type = "NodeQuery" => Destination(e) = NodeQueryDst(m.query)
               /\ m.type = "NodeCmd" => Destination(e) = NodeCmdDst(m.cmd)
               /\ m.type = "NodeEvent" => Destination(e) = NodeEventDst(m.event)
               /\ m.type = "NodeQueryResponse" => Destination(e) = m.query_origin
               /\ m.type = "NodeCmdError" => Destination(e) = m.cmd_origin
<1>1. e.message.type = "Cmd" => Destination(e) = CmdDst(e)
  BY DEF Destination
<1>2. IsCmd(e, "Auth") => CmdDst(e) = SectionOfOrigin(e)
  BY DEF CmdDst, IsCmd
<1>3. IsCmd(e, "Transfer") => CmdDst(e) = Address("Section", TransferCmdDst(e.message.cmd.cmd))
  BY DEF CmdDst, IsCmd
<1>4. e.message.type = "Query" =>
        Destination(e) = Address("Section", QueryDst(e.message.query))
  BY DEF Destination
<1>5. /\ e.message.type = "NodeQuery" => Destination(e) = NodeQueryDst(e.message.query)
      /\ e.message.type = "NodeCmd" => Destination(e) = NodeCmdDst(e.message.cmd)
      /\ e.message.type = "NodeEvent" => Destination(e) = NodeEventDst(e.message.event)
  BY DEF Destination
<1>6. /\ e.message.type = "NodeQueryResponse" => Destination(e) = e.message.query_origin
      /\ e.message.type = "NodeCmdError" => Destination(e) = e.message.cmd_origin
  BY DEF Destination
<1>7. QED
  BY <1>1, <1>2, <1>3, <1>4, <1>5, <1>6 DEF IsCmd, SectionOfOrigin

LEMMA TransferDst ==
    ASSUME NEW c
    PROVE  /\ c.op \in DOMAIN TransferCmdKind =>
                 TransferCmdDst(c) = NameOf(TransferIn(c).id.actor)
           /\ c.op \in {"ValidateSectionPayout", "RegisterSectionPayout"} =>
                 NodeTransferDst(c) = NameOf(TransferIn(c).id.actor)
           /\ c.op = "PropagateTransfer" => NodeTransferDst(c) = NameOf(TransferIn(c).to)
<1>1. c.op \in DOMAIN TransferCmdKind =>
        c.op \in {"SimulatePayout", "ValidateTransfer", "RegisterTransfer"}
  BY DEF TransferCmdKind
<1>2. /\ c.op = "SimulatePayout" => TransferCmdDst(c) = NameOf(TransferIn(c).id.actor)
      /\ c.op = "ValidateTransfer" => TransferCmdDst(c) = NameOf(TransferIn(c).id.actor)
      /\ c.op = "RegisterTransfer" => TransferCmdDst(c) = NameOf(TransferIn(c).id.actor)
  BY DEF TransferCmdDst, TransferIn, SignedFrom, AgreementFrom, TransferFrom
<1>3. /\ c.op = "ValidateSectionPayout" => NodeTransferDst(c) = NameOf(TransferIn(c).id.actor)
      /\ c.op = "RegisterSectionPayout" => NodeTransferDst(c) = NameOf(TransferIn(c).id.actor)
      /\ c.op = "PropagateTransfer" => NodeTransferDst(c) = NameOf(TransferIn(c).to)
  BY DEF NodeTransferDst, TransferIn, SignedFrom, AgreementFrom, AgreementTo, SignedTo,
         TransferTo, TransferFrom
<1>4. QED
  BY <1>1, <1>2, <1>3

LEMMA SectionReaches ==
    ASSUME NEW name, NEW n
    PROVE  /\ Reaches(Address("Section", name), n) <=> n \in Home(name)
           /\ Reaches(Address("Node", name), n) <=> NodeName(n) = name
           /\ ~Reaches(Address("Client", name), n)
BY DEF Reaches, Address, Home

\* What is said, and because of which message, by the type it has.
LEMMA SaysBecause ==
    ASSUME NEW n, NEW e, NEW m, Says(n, e, m)
    PROVE  LET q == e.message
           IN  /\ m.type \notin {"Query", "Cmd"}
               /\ m.type = "QueryResponse" =>
                     q.type = "Query" /\ m.query_origin = SenderAddress(e.origin)
               /\ m.type = "CmdError" =>
                     q.type = "Cmd" /\ m.cmd_origin = SenderAddress(e.origin)
               /\ m.type = "NodeQueryResponse" =>
                     /\ q.type = "NodeQuery"
                     /\ \E r : m = NodeQueryResponse(NodeResponse(q.query, r), q.id,
                                                     SenderAddress(e.origin))
               /\ m.type = "NodeCmdError" =>
                     /\ q.type = "NodeCmd" /\ q.cmd.op \in {"DuplicateChunk", "PropagateTransfer"}
                     /\ \E x : m = NodeCmdError(x, q.id, SenderAddress(e.origin))
               /\ m.type = "NodeQuery" =>
                     /\ q.type = "NodeCmd" /\ q.cmd.op = "DuplicateChunk"
                     /\ \E h \in q.cmd.fetch_from_holders :
                           m = NodeQuery(GetChunks("GetChunks", h, q.cmd.address), q.id + 1)
               /\ m.type = "NodeCmd" =>
                     \/ /\ IsTransferCmd(q, "RegisterTransfer")
                        /\ m = Propagation(q.cmd.cmd.payload, 3)
                     \/ /\ q.type = "NodeCmd" /\ q.cmd.op = "RegisterSectionPayout"
                        /\ m = Propagation(q.cmd.payload, q.id + 1)
               /\ m.type = "NodeEvent" =>
                     \/ /\ q.type = "NodeQueryResponse" /\ q.response.query.op = "GetChunks"
                        /\ m = NodeEvent(DuplicationComplete(q.response.query.address),
                                         q.correlation_id)
                     \/ /\ q.type = "NodeCmd" /\ q.cmd.op = "ValidateSectionPayout"
                        /\ \E x, y : m = NodeEvent(SectionPayoutValidated(
                                             TransferValidated(q.cmd.payload, x, y)), q.id)
<1>1. CASE e.message.type \in NodeTypes /\ m \in FollowUps(n, e) \cup Failures(e)
  BY <1>1, FollowUpsAre DEF Propagation, NodeCmd, NodeQueryResponse, NodeCmdError, NodeEvent,
                            NodeQuery
<1>2. CASE ~(e.message.type \in NodeTypes /\ m \in FollowUps(n, e) \cup Failures(e))
  BY <1>2 DEF Says, Refusal, CmdError, Validation, Event, Answer, QueryResponse, Propagation,
              NodeCmd, IsTransferCmd
<1>3. QED
  BY <1>1, <1>2

\* A command of a node is the first message or the credit that follows from it, and a
\* command to register, validate or duplicate is the first or what a client registers.
LEMMA CommandsAre ==
    ASSUME CreditInv, OriginsInv, NEW e \in net
    PROVE  /\ e.message.type = "NodeCmd" /\ e.message.cmd.op # "PropagateTransfer" =>
                 e.message = first /\ By(e.origin, {scenario.by})
           /\ IsTransferCmd(e.message, "RegisterTransfer") =>
                 /\ credits /\ creditId = 3
                 /\ e.message.cmd.cmd.payload.signed_transfer = theTransfer
<1>1. \A m : IsCredit(m) => m.cmd.op = "PropagateTransfer"
  BY DEF IsCredit, Propagation, NodeCmd, NodeTransfer
<1>2. ASSUME IsTransferCmd(e.message, "RegisterTransfer")
      PROVE  /\ credits /\ creditId = 3
             /\ e.message.cmd.cmd.payload.signed_transfer = theTransfer
  <2>1. e.message = first \/ (beginsTransfer /\ IsRegistration(e.message))
    BY <1>2 DEF CreditInv, said, IsTransferCmd
  <2>2. CASE e.message = first
    BY <1>2, <2>2 DEF credits, creditId, theTransfer, beginsTransfer, IsTransferCmd
  <2>3. CASE beginsTransfer /\ IsRegistration(e.message)
    BY <2>3 DEF credits, creditId, beginsTransfer, IsTransferCmd, IsRegistration
  <2>4. QED
    BY <2>1, <2>2, <2>3
<1>3. QED
  BY <1>1, <1>2 DEF OriginsInv

LEMMA FirstSender ==
    ASSUME scenario.by \in Clients
    PROVE  /\ theEnvelope.origin.type = "Client"
           /\ SenderId(theEnvelope.origin) = ClientKey[scenario.by]
BY DEF theEnvelope, FirstEnvelope, ClientEnvelope, NewEnvelope, ClientSender, SenderId, ProofId,
       BlsProof, Ed25519Proof

LEMMA HomesInit == Init => HomesInv
<1> SUFFICES ASSUME Init PROVE HomesInv
  OBVIOUS
<1>0. /\ scenario \in Scenarios /\ said = {first} /\ net = {theEnvelope}
      /\ theEnvelope.message = first /\ \A n \in Nodes : pending[n] = {}
  BY FirstIsSaid DEF Init, theEnvelope
<1>1. CASE scenario.by \in Clients
  <2>1. /\ theEnvelope.origin.type = "Client"
        /\ SenderId(theEnvelope.origin) = ClientKey[scenario.by]
    BY <1>1, FirstSender
  <2>2. OriginsInv
    BY <1>0, <1>1, <2>1, FirstRequest DEF OriginsInv
  <2>3. QED
    BY <1>0, <1>1, <2>2, FirstRequest DEF HomesInv, Placed
<1>2. CASE scenario.by \notin Clients
  <2>1. By(theEnvelope.origin, {scenario.by})
    BY <1>2 DEF By, theEnvelope, FirstEnvelope, NewEnvelope, NodeSender, ProofOf, Signature,
                SenderId, ProofId, Ed25519Proof
  <2>2. first.type \in {"NodeCmd", "NodeQuery"}
    BY <1>0, <1>2, FirstRequest
  <2>3. OriginsInv
    BY <1>0, <2>1, <2>2 DEF OriginsInv
  <2>4. QED
    BY <1>0, <2>2, <2>3 DEF HomesInv, Placed
<1>3. QED
  BY <1>1, <1>2

\* Who asks for chunks or has a transfer credited was told to.
LEMMA NodesAskRightly ==
    ASSUME CreditInv, OriginsInv, NEW n \in Nodes, NEW e \in net, Receives(n, e),
           NEW m, Says(n, e, m)
    PROVE  /\ m.type = "NodeQuery" => IsFetch(m) /\ n \in NodesNamed(first.cmd.new_holder)
           /\ m.type = "NodeCmd" => IsCredit(m) /\ n \in Debtor(theCmd)
<1>0. scenario \in Scenarios /\ Reaches(Destination(e), n)
  BY DEF CreditInv, Receives
<1>1. ASSUME e.message = first, first.type = "NodeCmd"
      PROVE  <<first.cmd.enum, first.cmd.op>> \in NodeCmds
  BY <1>0, <1>1, FirstRequest DEF IsRequest
<1>2. ASSUME m.type = "NodeQuery"
      PROVE  IsFetch(m) /\ n \in NodesNamed(first.cmd.new_holder)
  <2>1. /\ e.message.type = "NodeCmd" /\ e.message.cmd.op = "DuplicateChunk"
        /\ \E h \in e.message.cmd.fetch_from_holders :
              m = NodeQuery(GetChunks("GetChunks", h, e.message.cmd.address), e.message.id + 1)
    BY <1>2, SaysBecause
  <2>2. e.message = first
    BY <2>1, CommandsAre
  <2>3. first.cmd.enum = "Data"
    BY <1>1, <2>1, <2>2 DEF NodeCmds
  <2>4. Destination(e) = Address("Node", first.cmd.new_holder)
    BY <2>1, <2>2, <2>3, Destinations DEF NodeCmdDst
  <2>5. NodeName(n) = first.cmd.new_holder
    BY <1>0, <2>4, SectionReaches
  <2>6. QED
    BY <2>1, <2>2, <2>5 DEF IsFetch, isDuplication, NodesNamed
<1>3. ASSUME m.type = "NodeCmd"
      PROVE  IsCredit(m) /\ n \in Debtor(theCmd)
  <2>1. CASE /\ IsTransferCmd(e.message, "RegisterTransfer")
             /\ m = Propagation(e.message.cmd.cmd.payload, 3)
    <3> DEFINE c == e.message.cmd.cmd
    <3>1. credits /\ creditId = 3 /\ c.payload.signed_transfer = theTransfer
      BY <2>1, CommandsAre
    <3>2. TransferIn(c) = theTransfer.transfer
      BY <2>1, <3>1 DEF TransferIn, IsTransferCmd
    <3>3. c.op \in DOMAIN TransferCmdKind
      BY <2>1 DEF IsTransferCmd, TransferCmdKind
    <3>4. Destination(e) = Address("Section", NameOf(TransferIn(c).id.actor))
      BY <2>1, <3>3, Destinations, TransferDst DEF IsTransferCmd, IsCmd
    <3>5. n \in Home(NameOf(TransferIn(c).id.actor))
      BY <1>0, <3>4, SectionReaches
    <3>6. n \in Debtor(theCmd)
      BY <3>1, <3>2, <3>5, TransfersMake DEF Debtor
    <3>7. IsCredit(m)
      BY <2>1, <3>1 DEF IsCredit
    <3>8. QED
      BY <3>6, <3>7
  <2>2. CASE /\ e.message.type = "NodeCmd" /\ e.message.cmd.op = "RegisterSectionPayout"
             /\ m = Propagation(e.message.cmd.payload, e.message.id + 1)
    <3>1. e.message = first
      BY <2>2, CommandsAre
    <3>2. /\ credits /\ creditId = first.id + 1 /\ theCmd = first.cmd
          /\ theTransfer = first.cmd.payload.signed_transfer
      BY <2>2, <3>1 DEF credits, creditId, theTransfer, beginsTransfer, theCmd
    <3>3. first.cmd.enum = "Transfers"
      BY <1>1, <2>2, <3>1 DEF NodeCmds
    <3>4. Destination(e) = Address("Section", NameOf(TransferIn(first.cmd).id.actor))
      BY <2>2, <3>1, <3>3, Destinations, TransferDst DEF NodeCmdDst
    <3>5. n \in Debtor(theCmd)
      BY <1>0, <3>2, <3>4, SectionReaches DEF Debtor
    <3>6. QED
      BY <2>2, <3>1, <3>2, <3>5 DEF IsCredit
  <2>3. QED
    BY <1>3, <2>1, <2>2, SaysBecause
<1>4. QED
  BY <1>2, <1>3

LEMMA OriginsStep ==
    ASSUME Travels, CreditInv, OriginsInv, Adds
    PROVE  OriginsInv'
<1>0. /\ scenario' = scenario /\ first' = first /\ theCmd' = theCmd
      /\ \A m : (IsFetch(m)' <=> IsFetch(m)) /\ (IsCredit(m)' <=> IsCredit(m))
  BY DEF Adds, first, theCmd, IsFetch, IsCredit, isDuplication, credits, IsTransferCmd,
         creditId, theTransfer, beginsTransfer
<1> DEFINE Right(e) ==
      /\ e.message.type \in {"Query", "Cmd"} =>
            /\ e.origin.type = "Client"
            /\ IsCmd(e, "Transfer") \/ SenderId(e.origin) = ClientKey[scenario.by]
      /\ e.message.type = "NodeQuery" =>
            \/ e.message = first /\ By(e.origin, {scenario.by})
            \/ IsFetch(e.message) /\ By(e.origin, NodesNamed(first.cmd.new_holder))
      /\ e.message.type = "NodeCmd" =>
            \/ e.message = first /\ By(e.origin, {scenario.by})
            \/ IsCredit(e.message) /\ By(e.origin, Debtor(theCmd))
<1>1. \A e \in net : Right(e) /\ IsEnvelope(e)
  BY DEF OriginsInv, Travels, ChainsInv, Sent
<1>2. ASSUME NEW d \in net, NEW e, e.message = d.message, e.origin = d.origin
      PROVE  Right(e)
  BY <1>1, <1>2 DEF IsCmd
<1>3. ASSUME NEW n \in Nodes, NEW p \in pending[n], NEW e, Sends(n, p, e)
      PROVE  Right(e)
  <2> DEFINE s == NodeSender(p.duty, ProofOf(n, p.signature))
  <2>1. CASE "proxies" \in DOMAIN p.data
    <3>1. p.data \in net /\ e = WithProxy(p.data, s)
      BY <1>3, <2>1 DEF Travels, Sends, Extend
    <3>2. QED
      BY <1>1, <1>2, <3>1, ProxiesOnly
  <2>2. CASE "proxies" \notin DOMAIN p.data
    <3>1. e.message = p.data /\ e.origin = s
      BY <1>3, <2>2 DEF Sends, Extend, NewEnvelope
    <3>2. s.type = "Node" /\ s.proof = ProofOf(n, p.signature)
      BY DEF NodeSender
    <3>3. SenderId(s) = Ed25519(n) \/ s.proof.type = "BlsShare"
      BY <3>2 DEF SenderId, ProofId, ProofOf, BlsProofShare, Ed25519Proof
    <3>4. \A S : n \in S => By(e.origin, S)
      BY <3>1, <3>2, <3>3 DEF By
    <3>5. QED
      BY <2>2, <3>1, <3>4 DEF OriginsInv
  <2>3. QED
    BY <2>1, <2>2
<1>4. ASSUME NEW b \in net, NEW e, e = Accumulated(b)
      PROVE  Right(e)
  <2>1. PICK s : e = WithProxy(WithoutLast(b), s)
    BY <1>4 DEF Accumulated
  <2>2. e.message = b.message /\ e.origin = b.origin
    BY <1>1, <2>1, ProxiesOnly
  <2>3. QED
    BY <1>2, <2>2
<1>5. ASSUME NEW c, NEW payload, NEW e, e = ClientEnvelope(c, Registration(payload))
      PROVE  Right(e)
  BY <1>5 DEF ClientEnvelope, NewEnvelope, ClientSender, Registration, Cmd, TransferOf, IsCmd
<1>6. \A e \in net' : Right(e)
  BY <1>1, <1>3, <1>4, <1>5 DEF Adds, Appears
<1>7. ASSUME NEW n \in Nodes, NEW p \in pending'[n], "proxies" \notin DOMAIN p.data
      PROVE  /\ p.data.type \notin {"Query", "Cmd"}
             /\ p.data.type = "NodeQuery" =>
                   IsFetch(p.data) /\ n \in NodesNamed(first.cmd.new_holder)
             /\ p.data.type = "NodeCmd" => IsCredit(p.data) /\ n \in Debtor(theCmd)
  <2>1. CASE p \in pending[n]
    BY <1>7, <2>1 DEF OriginsInv
  <2>2. ASSUME NEW e \in net, Receives(n, e), Begins(n, e, p)
        PROVE  Says(n, e, p.data)
    BY <1>1, <1>7, <2>2 DEF Begins, IsEnvelope
  <2>3. QED
    BY <2>1, <2>2, NodesAskRightly, SaysBecause DEF Adds
<1>8. \A e \in net' :
        /\ e.message.type \in {"Query", "Cmd"} =>
              /\ e.origin.type = "Client"
              /\ IsCmd(e, "Transfer") \/ SenderId(e.origin) = ClientKey[scenario'.by]
        /\ e.message.type = "NodeQuery" =>
              \/ e.message = first' /\ By(e.origin, {scenario'.by})
              \/ IsFetch(e.message)' /\ By(e.origin, NodesNamed(first'.cmd.new_holder))
        /\ e.message.type = "NodeCmd" =>
              \/ e.message = first' /\ By(e.origin, {scenario'.by})
              \/ IsCredit(e.message)' /\ By(e.origin, Debtor(theCmd'))
  BY <1>0, <1>6
<1>9. \A n \in Nodes : \A p \in pending'[n] : "proxies" \notin DOMAIN p.data =>
        /\ p.data.type \notin {"Query", "Cmd"}
        /\ p.data.type = "NodeQuery" =>
              IsFetch(p.data)' /\ n \in NodesNamed(first'.cmd.new_holder)
        /\ p.data.type = "NodeCmd" => IsCredit(p.data)' /\ n \in Debtor(theCmd')
  BY <1>0, <1>7
<1>10. QED
  BY <1>8, <1>9 DEF OriginsInv

\* Its business is in the scenario, and its address reaches those whose business it is.
LEMMA GoesTo ==
    ASSUME NEW m, NEW type, NEW id, NEW S, NEW T, NEW address,
           Key(m) = <<type, id>>, For(type, id, S) \in Business(scenario),
           Only(address, T), T \cap Nodes \subseteq S
    PROVE  Goes(m, address)
<1>1. For(type, id, S).key = Key(m) /\ For(type, id, S).nodes = S
  BY DEF For
<1>2. Only(address, S)
  BY DEF Only
<1>3. QED
  BY <1>1, <1>2 DEF Goes

LEMMA SaysPlaced ==
    ASSUME CreditInv, OriginsInv, NEW n \in Nodes, NEW e \in net, Placed(e.message), NEW m,
           Says(n, e, m)
    PROVE  Placed(m)
<1> DEFINE q == e.message
           sender == NodesNamed(NodeName(scenario.by))
<1>0. scenario \in Scenarios
  BY DEF CreditInv
<1>1. \A o : o.type = "Client" => SenderAddress(o).type = "Client"
  BY DEF SenderAddress, Address
<1>2. {scenario.by} \cap Nodes \subseteq sender
  BY DEF NodesNamed
<1>3. m.type \in {"QueryResponse", "CmdError"} =>
        (IF m.type = "QueryResponse" THEN m.query_origin ELSE m.cmd_origin).type = "Client"
  BY <1>1, SaysBecause DEF OriginsInv
<1>4. ASSUME m.type = "NodeQueryResponse"
      PROVE  /\ Goes(m, m.query_origin)
             /\ m.response.query.op = "GetChunks" =>
                   For("NodeEvent", m.correlation_id, Home(m.response.query.address.name))
                     \in Business(scenario)
  <2>1. PICK r : /\ q.type = "NodeQuery"
                 /\ m = NodeQueryResponse(NodeResponse(q.query, r), q.id, SenderAddress(e.origin))
    BY <1>4, SaysBecause
  <2>2. /\ Key(m) = <<"NodeQueryResponse", q.id>> /\ m.correlation_id = q.id
        /\ m.response.query = q.query /\ m.query_origin = SenderAddress(e.origin)
    BY <2>1 DEF NodeQueryResponse, NodeResponse, Key
  <2>3. CASE q = first /\ By(e.origin, {scenario.by})
    <3>1. Only(m.query_origin, {scenario.by})
      BY <2>2, <2>3, AnswersReach
    <3>2. For("NodeQueryResponse", first.id, sender) \in Business(scenario)
      BY <2>1, <2>3, NodesMake
    <3>3. Goes(m, m.query_origin)
      BY <1>2, <2>2, <2>3, <3>1, <3>2, GoesTo
    <3>4. QED
      BY <2>1, <2>2, <2>3, <3>3, NodesMake
  <2>4. CASE IsFetch(q) /\ By(e.origin, NodesNamed(first.cmd.new_holder))
    <3>1. /\ isDuplication /\ q.id = first.id + 1
          /\ q.query.op = "GetChunks" /\ q.query.address = first.cmd.address
      BY <2>4 DEF IsFetch, NodeQuery, GetChunks
    <3>2. Only(m.query_origin, NodesNamed(first.cmd.new_holder))
      BY <2>2, <2>4, AnswersReach
    <3>3. For("NodeQueryResponse", first.id + 1, NodesNamed(first.cmd.new_holder))
            \in Business(scenario)
      BY <3>1, NodesMake
    <3>4. Goes(m, m.query_origin)
      BY <2>2, <3>1, <3>2, <3>3, GoesTo
    <3>5. QED
      BY <2>2, <3>1, <3>4, NodesMake
  <2>5. QED
    BY <2>1, <2>3, <2>4 DEF OriginsInv
<1>5. ASSUME m.type = "NodeCmdError"
      PROVE  Goes(m, m.cmd_origin)
  <2>1. PICK x : /\ q.type = "NodeCmd" /\ q.cmd.op \in {"DuplicateChunk", "PropagateTransfer"}
                 /\ m = NodeCmdError(x, q.id, SenderAddress(e.origin))
    BY <1>5, SaysBecause
  <2>2. Key(m) = <<"NodeCmdError", q.id>> /\ m.cmd_origin = SenderAddress(e.origin)
    BY <2>1 DEF NodeCmdError, Key
  <2>3. CASE q = first /\ By(e.origin, {scenario.by})
    <3>1. Only(m.cmd_origin, {scenario.by})
      BY <2>2, <2>3, AnswersReach
    <3>2. For("NodeCmdError", first.id, sender) \in Business(scenario)
      BY <2>1, <2>3, NodesMake DEF isDuplication
    <3>3. QED
      BY <1>2, <2>2, <2>3, <3>1, <3>2, GoesTo
  <2>4. CASE IsCredit(q) /\ By(e.origin, Debtor(theCmd))
    <3>1. credits /\ q.id = creditId
      BY <2>4 DEF IsCredit, Propagation, NodeCmd
    <3>2. Only(m.cmd_origin, Debtor(theCmd))
      BY <2>2, <2>4, AnswersReach
    <3>3. For("NodeCmdError", creditId, Debtor(theCmd)) \in Business(scenario)
      BY <3>1, TransfersMake
    <3>4. QED
      BY <2>2, <3>1, <3>2, <3>3, GoesTo
  <2>5. QED
    BY <2>1, <2>3, <2>4 DEF OriginsInv
<1>6. ASSUME m.type = "NodeEvent"
      PROVE  Goes(m, NodeEventDst(m.event))
  <2>1. CASE /\ q.type = "NodeQueryResponse" /\ q.response.query.op = "GetChunks"
             /\ m = NodeEvent(DuplicationComplete(q.response.query.address), q.correlation_id)
    <3> DEFINE name == q.response.query.address.name
    <3>1. Key(m) = <<"NodeEvent", q.correlation_id>>
      BY <2>1 DEF NodeEvent, Key
    <3>2. NodeEventDst(m.event) = Address("Section", name)
      BY <2>1 DEF NodeEvent, NodeEventDst, DuplicationComplete
    <3>3. For("NodeEvent", q.correlation_id, Home(name)) \in Business(scenario)
      BY <2>1 DEF Placed
    <3>4. Only(NodeEventDst(m.event), Home(name))
      BY <3>2, SectionReaches DEF Only
    <3>5. QED
      BY <3>1, <3>3, <3>4, GoesTo
  <2>2. ASSUME q.type = "NodeCmd", q.cmd.op = "ValidateSectionPayout", NEW x, NEW y,
               m = NodeEvent(SectionPayoutValidated(TransferValidated(q.cmd.payload, x, y)), q.id)
        PROVE  Goes(m, NodeEventDst(m.event))
    <3>1. q = first
      BY <2>2, CommandsAre
    <3>2. Key(m) = <<"NodeEvent", first.id>>
      BY <2>2, <3>1 DEF NodeEvent, Key
    <3>3. NodeEventDst(m.event) = Address("Section", NameOf(first.cmd.payload.transfer.id.actor))
      BY <2>2, <3>1 DEF NodeEvent, NodeEventDst, SectionPayoutValidated, TransferValidated,
                        ValidatedFrom, SignedFrom, TransferFrom
    <3>4. TransferIn(first.cmd) = first.cmd.payload.transfer
      BY <2>2, <3>1 DEF TransferIn
    <3>5. Only(NodeEventDst(m.event), Debtor(first.cmd))
      BY <3>3, <3>4, SectionReaches DEF Only, Debtor
    <3>6. For("NodeEvent", first.id, Debtor(first.cmd)) \in Business(scenario)
      BY <2>2, <3>1, NodesMake
    <3>7. QED
      BY <3>2, <3>5, <3>6, GoesTo
  <2>3. QED
    BY <1>6, <2>1, <2>2, SaysBecause
<1>7. QED
  BY <1>3, <1>4, <1>5, <1>6, SaysBecause DEF Placed

LEMMA HomesStep ==
    ASSUME Travels, CreditInv, HomesInv, Adds
    PROVE  HomesInv'
<1>1. OriginsInv'
  BY OriginsStep DEF HomesInv
<1>2. \A m : Placed(m)' <=> Placed(m)
  BY DEF Adds, Placed, Goes, Only, first
<1>3. ASSUME NEW m \in said' PROVE Placed(m)
  <2>1. CASE m \in said
    BY <2>1 DEF HomesInv
  <2>2. ASSUME NEW n \in Nodes, NEW e \in net, Says(n, e, m)
        PROVE  Placed(m)
    <3>1. Placed(e.message)
      BY DEF HomesInv, said
    <3>2. QED
      BY <2>2, <3>1, SaysPlaced DEF HomesInv
  <2>3. ASSUME NEW payload, m = Registration(payload)
        PROVE  Placed(m)
    BY <2>3 DEF Registration, Cmd, Placed, Key
  <2>4. QED
    BY <2>1, <2>2, <2>3, SaidStep
<1>4. QED
  BY <1>1, <1>2, <1>3 DEF HomesInv

\* A request is dealt with by the handlers of its scenario.
LEMMA FirstAtHome ==
    ASSUME scenario \in Scenarios, NEW n \in Nodes, n \in Handlers(scenario)
    PROVE  IsFor(Key(first), n)
<1>1. [key |-> Key(first), nodes |-> Handlers(scenario)] \in Business(scenario)
  BY FirstRequest
<1>2. QED
  BY <1>1 DEF IsFor

\* What follows is dealt with by those whose business it is.
LEMMA FollowingAtHome ==
    ASSUME NEW type, NEW id, NEW S, NEW n \in S, For(type, id, S) \in Business(scenario)
    PROVE  IsFor(<<type, id>>, n)
<1>1. For(type, id, S).key = <<type, id>> /\ For(type, id, S).nodes = S
  BY DEF For
<1>2. QED
  BY <1>1 DEF IsFor

\* dst_address of a query and of a data command is where they are at home.
LEMMA NamesOfData ==
    /\ \A q : q.enum \in DOMAIN QueryErrors => QueryDst(q) = QueryName(q)
    /\ \A c : c.enum \in DataWrites => DataCmdDst(c) = DataName(c)
<1>1. ASSUME NEW q, q.enum \in DOMAIN QueryErrors
      PROVE  QueryDst(q) = QueryName(q)
  <2>1. q.enum \in {"BlobRead", "MapRead", "SequenceRead", "AccountRead", "AuthQuery",
                    "TransferQuery"}
    BY <1>1 DEF QueryErrors
  <2>2. QED
    BY <2>1 DEF QueryDst, QueryName
<1>2. ASSUME NEW c, c.enum \in DataWrites
      PROVE  DataCmdDst(c) = DataName(c)
  <2>1. CASE c.enum = "BlobWrite" /\ c.op = "New"
    BY <2>1 DEF DataCmdDst, BlobWriteDst, BlobAddress, DataName
  <2>2. CASE c.enum # "BlobWrite" \/ c.op # "New"
    BY <1>2, <2>2 DEF DataWrites, DataCmdDst, BlobWriteDst, DataName
  <2>3. QED
    BY <2>1, <2>2
<1>3. QED
  BY <1>1, <1>2

\* Who deals with a command of a client: the data, or the wallet, that it is about, or
\* the elders of its client.
LEMMA CmdAtHome ==
    ASSUME PathInv, CreditInv, DeniedInv, HomesInv, NEW n \in Nodes, NEW e \in net, Receives(n, e),
           e.message.type = "Cmd",
           \/ Deny(n, e) \/ ExecuteCmd(n, e) \/ ValidateTransfer(n, e)
           \/ RegisterTransfer(n, e) \/ AnswerQuery(n, e) \/ HandleNodeMessage(n, e)
    PROVE  IsFor(Key(e.message), n)
<1>0. /\ scenario \in Scenarios /\ Reaches(Destination(e), n)
      /\ e.message = first \/ (beginsTransfer /\ IsRegistration(e.message))
  BY DEF PathInv, CreditInv, Receives, said
<1>1. CASE e.message # first
  <2>1. IsTransferCmd(e.message, "RegisterTransfer") /\ beginsTransfer
        /\ e.message.cmd.cmd.payload.signed_transfer = theTransfer
    BY <1>0, <1>1 DEF IsRegistration
  <2>2. Key(e.message) = <<"Cmd", 2>>
    BY <1>1 DEF HomesInv, Placed, said
  <2>3. /\ For("Cmd", 2, Debtor(theCmd)) \in Business(scenario)
        /\ theTransfer.transfer = TransferIn(theCmd)
    BY <2>1, TransfersMake
  <2>4. Destination(e) = Address("Section", TransferCmdDst(e.message.cmd.cmd))
    BY <2>1, Destinations DEF IsCmd, IsTransferCmd
  <2>5. TransferCmdDst(e.message.cmd.cmd) = NameOf(TransferIn(theCmd).id.actor)
    <3>1. e.message.cmd.cmd.op = "RegisterTransfer"
      BY <2>1 DEF IsTransferCmd
    <3>2. TransferIn(e.message.cmd.cmd) = TransferIn(theCmd)
      BY <2>1, <2>3, <3>1 DEF TransferIn
    <3>3. QED
      BY <3>1, <3>2, TransferDst DEF TransferCmdKind
  <2>6. n \in Debtor(theCmd)
    BY <1>0, <2>4, <2>5, SectionReaches DEF Debtor
  <2>7. QED
    BY <2>2, <2>3, <2>6, FollowingAtHome
<1>2. CASE e.message = first
  <2> DEFINE own == Home(NameOf(ClientKey[scenario.by]))
  <2> SUFFICES n \in Handlers(scenario)
    BY <1>0, <1>2, FirstAtHome
  <2>1. /\ first.cmd.class \in {"Auth", "Data", "Transfer"}
        /\ first.cmd.class = "Data" => first.cmd.cmd.enum \in DataWrites
        /\ first.cmd.class = "Transfer" => first.cmd.cmd.op \in DOMAIN TransferCmdKind
        /\ first.type = "Cmd" /\ scenario.by \in Clients
    BY <1>0, <1>2, FirstRequest DEF IsRequest
  <2>2. Handlers(scenario) =
          CASE first.cmd.class = "Data" /\ MayDo(scenario.by, first) ->
                  Home(DataName(first.cmd.cmd))
            [] first.cmd.class = "Transfer" -> Debtor(first.cmd.cmd)
            [] OTHER -> own
    BY <2>1 DEF Handlers, first
  <2>3. first.cmd.class # "Transfer" => SenderId(e.origin) = ClientKey[scenario.by]
    BY <1>2, <2>1 DEF HomesInv, OriginsInv, IsCmd
  <2>4. CASE first.cmd.class = "Transfer"
    <3>1. Destination(e) = Address("Section", TransferCmdDst(first.cmd.cmd))
      BY <1>2, <2>1, <2>4, Destinations DEF IsCmd
    <3>2. n \in Debtor(first.cmd.cmd)
      BY <1>0, <2>1, <2>4, <3>1, TransferDst, SectionReaches DEF Debtor
    <3>3. QED
      BY <2>2, <2>4, <3>2
  <2>5. CASE first.cmd.class = "Auth"
    <3>1. Destination(e) = Address("Section", NameOf(SenderId(e.origin)))
      BY <1>2, <2>1, <2>5, Destinations DEF IsCmd
    <3>2. n \in own
      BY <1>0, <2>3, <2>5, <3>1, SectionReaches
    <3>3. QED
      BY <2>2, <2>5, <3>2
  <2>6. CASE first.cmd.class = "Data" /\ ~MayDo(scenario.by, first)
    <3>1. FromClient(e)
      BY <1>2, <2>1, <2>6 DEF DeniedInv, denied
    <3>2. MostRecentSender(e) = e.origin /\ e.origin.type = "Client"
      BY <3>1 DEF FromClient, MostRecentSender
    <3>3. Destination(e) = SectionOfOrigin(e)
      BY <1>2, <2>1, <2>6, <3>2 DEF Destination, CmdDst
    <3>4. n \in own
      BY <1>0, <3>1, <3>3, SectionReaches DEF SectionOfOrigin, FromClient
    <3>5. QED
      BY <2>2, <2>6, <3>4
  <2>7. CASE first.cmd.class = "Data" /\ MayDo(scenario.by, first)
    <3>1. SenderId(theEnvelope.origin) = ClientKey[scenario.by]
      BY <1>0, <2>1, FirstSender
    <3>2. IsAuthorisedData
      <4>1. CmdKind(first.cmd) = "Write"
        BY <2>7 DEF CmdKind
      <4>2. \/ scenario.by \in Owners
            \/ /\ scenario.by \in DOMAIN AppPermissions
               /\ "data_mutations" \in AppPermissions[scenario.by]
        BY <2>1, <2>7 DEF MayDo
      <4>3. Permits("Write") = {"data_mutations"}
        BY DEF Permits
      <4>4. Authorised(theEnvelope.origin, CmdKind(first.cmd))
        BY <2>1, <3>1, <4>1, <4>2, <4>3 DEF Authorised
      <4>5. theEnvelope.message = first
        BY <1>0, FirstIs
      <4>6. QED
        BY <2>1, <2>7, <4>4, <4>5 DEF IsAuthorisedData, IsData, AuthorisedCmd, theEnvelope
    <3>3. Destination(e) = Address("Section", DataCmdDst(first.cmd.cmd))
      BY <1>2, <3>2, DealingWithData
    <3>4. n \in Home(DataName(first.cmd.cmd))
      BY <1>0, <2>1, <2>7, <3>3, NamesOfData, SectionReaches
    <3>5. QED
      BY <2>2, <2>7, <3>4
  <2>8. QED
    BY <2>1, <2>4, <2>5, <2>6, <2>7
<1>3. QED
  BY <1>1, <1>2

LEMMA QueryAtHome ==
    ASSUME QueriesInv, NEW n \in Nodes, NEW e \in net, Receives(n, e), e.message.type = "Query"
    PROVE  IsFor(Key(e.message), n)
<1>1. scenario \in Scenarios /\ e.message = first /\ Reaches(Destination(e), n)
  BY DEF QueriesInv, said, Receives
<1>2. first.query.enum \in DOMAIN QueryErrors
  BY <1>1, FirstRequest DEF IsRequest
<1>3. Destination(e) = Address("Section", QueryName(first.query))
  BY <1>1, <1>2, Destinations, NamesOfData
<1>4. Handlers(scenario) = Home(QueryName(first.query))
  BY <1>1 DEF Handlers, first
<1>5. QED
  BY <1>1, <1>3, <1>4, FirstAtHome, SectionReaches

LEMMA NodeQueryAtHome ==
    ASSUME CreditInv, HomesInv, NEW n \in Nodes, NEW e \in net, Receives(n, e),
           e.message.type = "NodeQuery"
    PROVE  IsFor(Key(e.message), n)
<1>0. /\ scenario \in Scenarios /\ Reaches(NodeQueryDst(e.message.query), n)
      /\ e.message = first \/ IsFetch(e.message)
  BY Destinations DEF CreditInv, Receives, HomesInv, OriginsInv
<1>1. CASE e.message = first
  <2> DEFINE q == first.query
  <2>1. q.op \in NodeQueries
    BY <1>0, <1>1, FirstRequest DEF IsRequest
  <2>2. Handlers(scenario) =
          CASE q.op = "GetReplicaEvents" -> Home(NameOf(q.section_key))
            [] q.op = "GetAccountId" -> Home(q.old_node_id)
            [] OTHER -> NodesNamed(q.holder)
    BY <1>1 DEF Handlers, first
  <2>3. NodeQueryDst(q) =
          CASE q.op = "GetReplicaEvents" -> Address("Section", NameOf(q.section_key))
            [] q.op = "GetAccountId" -> Address("Section", q.old_node_id)
            [] OTHER -> Address("Node", q.holder)
    BY <2>1 DEF NodeQueryDst, NodeQueries
  <2>4. n \in Handlers(scenario)
    BY <1>0, <1>1, <2>1, <2>2, <2>3, SectionReaches DEF NodesNamed, NodeQueries
  <2>5. QED
    BY <1>0, <1>1, <2>4, FirstAtHome
<1>2. CASE IsFetch(e.message)
  <2>1. PICK h \in first.cmd.fetch_from_holders :
           e.message = NodeQuery(GetChunks("GetChunks", h, first.cmd.address), first.id + 1)
    BY <1>2 DEF IsFetch
  <2>2. Key(e.message) = <<"NodeQuery", first.id + 1>>
    BY <2>1 DEF NodeQuery, Key
  <2>3. NodeQueryDst(e.message.query) = Address("Node", h)
    BY <2>1 DEF NodeQuery, GetChunks, NodeQueryDst
  <2>4. n \in NodesNamed(h)
    BY <1>0, <2>3, SectionReaches DEF NodesNamed
  <2>5. For("NodeQuery", first.id + 1, NodesNamed(h)) \in Business(scenario)
    BY <1>2, NodesMake DEF IsFetch
  <2>6. QED
    BY <2>2, <2>4, <2>5, FollowingAtHome
<1>3. QED
  BY <1>0, <1>1, <1>2

LEMMA NodeCmdAtHome ==
    ASSUME CreditInv, HomesInv, NEW n \in Nodes, NEW e \in net, Receives(n, e),
           e.message.type = "NodeCmd"
    PROVE  IsFor(Key(e.message), n)
<1>0. /\ scenario \in Scenarios /\ Reaches(NodeCmdDst(e.message.cmd), n)
      /\ e.message = first \/ IsCredit(e.message)
  BY Destinations DEF CreditInv, Receives, HomesInv, OriginsInv
<1>1. CASE e.message = first
  <2> DEFINE c == first.cmd
  <2>1. <<c.enum, c.op>> \in NodeCmds
    BY <1>0, <1>1, FirstRequest DEF IsRequest
  <2>2. Handlers(scenario) =
          CASE c.op = "RegisterWallet" -> Home(c.section)
            [] c.op = "DuplicateChunk" -> NodesNamed(c.new_holder)
            [] c.op = "PropagateTransfer" -> Creditor(c)
            [] OTHER -> Debtor(c)
    BY <1>1 DEF Handlers, first
  <2>3. CASE c.enum = "System" /\ c.op = "RegisterWallet"
    BY <1>0, <1>1, <2>2, <2>3, FirstAtHome, SectionReaches DEF NodeCmdDst
  <2>4. CASE c.enum = "Data" /\ c.op = "DuplicateChunk"
    BY <1>0, <1>1, <2>2, <2>4, FirstAtHome, SectionReaches DEF NodeCmdDst, NodesNamed
  <2>5. CASE c.enum = "Transfers" /\ c.op = "PropagateTransfer"
    <3>1. NodeCmdDst(c) = Address("Section", NameOf(TransferIn(c).to))
      BY <2>5, TransferDst DEF NodeCmdDst
    <3>2. QED
      BY <1>0, <1>1, <2>2, <2>5, <3>1, FirstAtHome, SectionReaches DEF Creditor
  <2>6. CASE c.enum = "Transfers" /\ c.op \in {"ValidateSectionPayout", "RegisterSectionPayout"}
    <3>1. NodeCmdDst(c) = Address("Section", NameOf(TransferIn(c).id.actor))
      BY <2>6, TransferDst DEF NodeCmdDst
    <3>2. QED
      BY <1>0, <1>1, <2>2, <2>6, <3>1, FirstAtHome, SectionReaches DEF Debtor
  <2>7. QED
    BY <2>1, <2>3, <2>4, <2>5, <2>6 DEF NodeCmds
<1>2. CASE IsCredit(e.message)
  <2>1. PICK p : e.message = Propagation(p, creditId) /\ p.signed_transfer = theTransfer
    BY <1>2 DEF IsCredit
  <2> DEFINE c == NodeTransfer("PropagateTransfer", p)
  <2>2. Key(e.message) = <<"NodeCmd", creditId>> /\ e.message.cmd = c
    BY <2>1 DEF Propagation, NodeCmd, Key
  <2>3. /\ For("NodeCmd", creditId, Creditor(theCmd)) \in Business(scenario)
        /\ theTransfer.transfer = TransferIn(theCmd)
    BY <1>2, TransfersMake DEF IsCredit
  <2>4. c.enum = "Transfers" /\ c.op = "PropagateTransfer" /\ TransferIn(c) = TransferIn(theCmd)
    BY <2>1, <2>3 DEF NodeTransfer, TransferIn
  <2>5. NodeCmdDst(c) = Address("Section", NameOf(TransferIn(theCmd).to))
    BY <2>4, TransferDst DEF NodeCmdDst
  <2>6. n \in Creditor(theCmd)
    BY <1>0, <2>2, <2>5, SectionReaches DEF Creditor
  <2>7. QED
    BY <2>2, <2>3, <2>6, FollowingAtHome
<1>3. QED
  BY <1>0, <1>1, <1>2

\* Answers, errors and events go where their business is.
LEMMA AnswerAtHome ==
    ASSUME HomesInv, NEW n \in Nodes, NEW e \in net, Receives(n, e),
           e.message.type \in {"NodeQueryResponse", "NodeCmdError", "NodeEvent"}
    PROVE  IsFor(Key(e.message), n)
<1>1. Placed(e.message) /\ Reaches(Destination(e), n)
  BY DEF HomesInv, said, Receives
<1>2. Goes(e.message, Destination(e))
  BY <1>1, Destinations DEF Placed
<1>3. QED
  BY <1>1, <1>2 DEF Goes, Only, IsFor

LEMMA DealingAtHome ==
    ASSUME PathInv, CreditInv, DeniedInv, QueriesInv, HomesInv,
           NEW n \in Nodes, NEW e \in net, Receives(n, e),
           \/ Deny(n, e) \/ ExecuteCmd(n, e) \/ ValidateTransfer(n, e)
           \/ RegisterTransfer(n, e) \/ AnswerQuery(n, e) \/ HandleNodeMessage(n, e)
    PROVE  IsFor(Key(e.message), n)
<1>1. e.message.type \in {"Cmd", "Query"} \cup NodeTypes
  BY DEF Deny, ExecuteCmd, Ready, ValidateTransfer, RegisterTransfer, AnswerQuery,
         HandleNodeMessage, IsCmd, NodeTypes
<1>2. QED
  BY <1>1, CmdAtHome, QueryAtHome, NodeQueryAtHome, NodeCmdAtHome, AnswerAtHome DEF NodeTypes

LEMMA HandledAtHomeStep ==
    ASSUME PathInv, CreditInv, DeniedInv, QueriesInv, HomesInv, Travels, HandledAtHome,
           [Next]_vars
    PROVE  HandledAtHome'
<1>1. scenario' = scenario /\ \A k, n : IsFor(k, n)' <=> IsFor(k, n)
  <2>1. scenario' = scenario
    BY StepAdds DEF Adds
  <2>2. QED
    BY <2>1 DEF IsFor
<1>2. ASSUME NEW n \in Nodes, NEW k \in handled'[n] PROVE IsFor(k, n)
  <2>1. CASE k \in handled[n]
    BY <2>1 DEF HandledAtHome
  <2>2. CASE k \notin handled[n]
    <3>1. PICK m \in Nodes : \E e \in net :
            /\ Receives(m, e) /\ Dedup(m, e.message)
            /\ \/ Deny(m, e) \/ ExecuteCmd(m, e) \/ ValidateTransfer(m, e)
               \/ RegisterTransfer(m, e) \/ AnswerQuery(m, e) \/ HandleNodeMessage(m, e)
      BY <2>2, DealingOrAdding
    <3>2. PICK e \in net :
            /\ Receives(m, e) /\ Dedup(m, e.message)
            /\ \/ Deny(m, e) \/ ExecuteCmd(m, e) \/ ValidateTransfer(m, e)
               \/ RegisterTransfer(m, e) \/ AnswerQuery(m, e) \/ HandleNodeMessage(m, e)
      BY <3>1
    <3>3. m = n /\ k = Key(e.message)
      BY <2>2, <3>2 DEF Dedup, Travels
    <3>4. QED
      BY <3>2, <3>3, DealingAtHome
  <2>3. QED
    BY <2>1, <2>2
<1>3. QED
  BY <1>1, <1>2 DEF HandledAtHome

\* For any sections, elders and keys, whatever way envelopes take and whenever keys change:
\* each request, and each answer, event, credit and copy of a chunk that follows from it, is
\* dealt with by those whose business it is, and by nobody else (the dst_address of every
\* request, messaging/; destination and cmd_dst, messaging/mod.rs:101, 118).
THEOREM HandledAtHomeHolds ==
    ASSUME Holder = "NodeKeypairs"
    PROVE  Spec => []HandledAtHome
<1>1. Init => HandledAtHome
  BY DEF Init, HandledAtHome
<1>2. Travels /\ KeysInv /\ CreditInv /\ [Next]_vars => CreditInv'
  BY StepAdds, CreditStep
<1>3. PathInv /\ Travels /\ KeysInv /\ CreditInv /\ [Next]_vars => PathInv'
  BY StepAdds, PathStep
<1>4. Travels /\ DeniedInv /\ [Next]_vars => DeniedInv'
  BY StepAdds, DeniedStep
<1>5. Travels /\ QueriesInv /\ [Next]_vars => QueriesInv'
  BY StepAdds, QueriesStep
<1>6. Travels /\ CreditInv /\ HomesInv /\ [Next]_vars => HomesInv'
  BY StepAdds, HomesStep
<1>7. PathInv /\ CreditInv /\ DeniedInv /\ QueriesInv /\ HomesInv /\ Travels /\ HandledAtHome
        /\ [Next]_vars => HandledAtHome'
  BY HandledAtHomeStep
<1>8. QED
  BY <1>1, <1>2, <1>3, <1>4, <1>5, <1>6, <1>7, CreditInit, PathInit, DeniedInit, QueriesInit,
     HomesInit, TravelsHolds, KeysHoldInNetwork, PTL DEF Spec

-----------------------------------------------------------------------------
\* Types

\* Inductive: nothing is signed while something else waits to be sent, and elders are not
\* changed more often than the scenario says.
CountsInv ==
    /\ scenario \in Scenarios /\ changes \in 0 .. scenario.changes
    /\ \A n \in Nodes : \E p : pending[n] \subseteq {p}

LEMMA CountsInit == Init => CountsInv
BY ScenariosAssumption DEF Init, CountsInv

LEMMA CountsStep ==
    ASSUME CountsInv, Adds
    PROVE  CountsInv'
<1>1. scenario' = scenario /\ scenario.changes \in Nat
  BY ScenariosAssumption DEF Adds, CountsInv
<1>2. changes' \in 0 .. scenario.changes
  BY <1>1 DEF Adds, CountsInv
<1>3. ASSUME NEW n \in Nodes PROVE \E p : pending'[n] \subseteq {p}
  <2>1. pending'[n] \subseteq pending[n] \/ \E p : pending'[n] = {p}
    BY DEF Adds
  <2>2. PICK p : pending[n] \subseteq {p}
    BY DEF CountsInv
  <2>3. CASE pending'[n] \subseteq pending[n]
    BY <2>2, <2>3
  <2>4. CASE \E q : pending'[n] = {q}
    BY <2>4
  <2>5. QED
    BY <2>1, <2>3, <2>4
<1>4. QED
  BY <1>1, <1>2, <1>3 DEF CountsInv

LEMMA TypesHold == PathInv /\ KeysInv /\ Travels /\ CountsInv => RoutingTypeOK
<1> SUFFICES ASSUME PathInv, KeysInv, Travels, CountsInv PROVE RoutingTypeOK
  OBVIOUS
<1>1. ASSUME NEW e \in net
      PROVE  DOMAIN e = {"message", "origin", "proxies"} /\ Len(e.proxies) <= 2
  <2>1. e = [message |-> e.message, origin |-> e.origin, proxies |-> e.proxies]
    BY DEF Travels, ChainsInv, Sent, IsEnvelope
  <2>2. DOMAIN e = {"message", "origin", "proxies"}
    BY <2>1
  <2>3. CASE Plain(e)
    <3>1. Len(e.proxies) = 0
      BY <2>3 DEF Plain
    <3>2. QED
      BY <2>2, <3>1
  <2>4. CASE OnPath(e)
    <3> DEFINE length == Len(e.proxies)
    <3>1. length = 1 \/ length = 2
      BY <2>4, GatewayIs, PaymentIs, SectionIs DEF OnPath, PathInv
    <3> HIDE DEF length
    <3>2. length <= 2
      BY <3>1
    <3>3. QED
      BY <2>2, <3>2 DEF length
  <2>5. QED
    BY <2>3, <2>4 DEF PathInv
<1>2. ASSUME NEW n \in Nodes
      PROVE  /\ Cardinality(pending[n]) <= 1
             /\ \A p \in pending[n] : p.signature.type \in {"Ed25519", "BlsShare"}
  <2>1. PICK p : pending[n] \in SUBSET {p}
    BY DEF CountsInv
  <2>2. IsFiniteSet({p}) /\ Cardinality({p}) = 1
    BY FS_Singleton
  <2>3. Cardinality(pending[n]) <= 1
    BY <2>1, <2>2, FS_Subset
  <2>4. QED
    BY <2>3 DEF PathInv, SignedBy
<1>3. KeysTypeOK
  BY KeysInvTypes
<1>4. scenario \in Scenarios /\ changes \in 0 .. scenario.changes
  BY DEF CountsInv
<1>5. QED
  BY <1>1, <1>2, <1>3, <1>4 DEF RoutingTypeOK

\* For any requests and any network: an envelope has two proxies at most
\* (MsgEnvelope::proxies, messaging/mod.rs:57), and a node has signed one thing at most
\* that it has not sent yet.
THEOREM RoutingTypeOKHolds ==
    ASSUME Holder = "NodeKeypairs"
    PROVE  Spec => []RoutingTypeOK
<1>1. Travels /\ KeysInv /\ CreditInv /\ [Next]_vars => CreditInv'
  BY StepAdds, CreditStep
<1>2. PathInv /\ Travels /\ KeysInv /\ CreditInv /\ [Next]_vars => PathInv'
  BY StepAdds, PathStep
<1>3. Travels /\ CountsInv /\ [Next]_vars => CountsInv'
  BY StepAdds, CountsStep
<1>4. QED
  BY <1>1, <1>2, <1>3, TypesHold, CreditInit, PathInit, CountsInit, TravelsHolds,
     KeysHoldInNetwork, PTL DEF Spec
=============================================================================
