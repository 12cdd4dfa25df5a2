------------------------------- MODULE Routing ---------------------------------
(***************************************************************************)
(* Messages on their way through the sections of the network, made of the  *)
(* envelopes of Envelope and the changing keys of NodeKeys.  Every         *)
(* envelope ever sent stays in net, so each is handled late, repeatedly,   *)
(* out of order or never.                                                  *)
(*                                                                         *)
(* The elders, adults and clients that handle messages are not part of     *)
(* this repository.  They are modelled as far as its comments tell: they   *)
(* verify an envelope, sign what they send, then add their proof, check    *)
(* the authorisation a request asks for, and answer to the address of its  *)
(* origin.  Everything they call is the code.                              *)
(***************************************************************************)
EXTENDS Envelope, NodeKeys

CONSTANTS
    Clients,        \* owners of accounts, their apps, and strangers
    ClientKey,      \* the public key of each client
    Owners,         \* the clients that own an account
    AppPermissions, \* for each authorised app, the set of its AppPermissions
    Elders,         \* for each section, its elders
    SectionOf(_),   \* the section that is closest to a name
    FirstKeys,      \* the key sets in use at the beginning
    Changing,       \* the nodes that are promoted and demoted
    Scenarios       \* what is sent first: [by, message, changes]

ASSUME NodesAssumption ==
    IsFiniteSet(Nodes) /\ Changing \subseteq Nodes /\ FirstKeys \subseteq KeySets

ASSUME ClientsAssumption ==
    \A c, d \in Clients : ClientKey[c] = ClientKey[d] => c = d

DataWrites == {"BlobWrite", "MapWrite", "SequenceWrite", "AccountWrite"}

NodeQueries == {"GetChunk", "GetChunks", "GetReplicaEvents", "GetAccountId"}

NodeCmds ==
    {<<"System", "RegisterWallet">>, <<"Data", "DuplicateChunk">>}
    \cup {"Transfers"} \X {"ValidateSectionPayout", "RegisterSectionPayout", "PropagateTransfer"}

\* One of the requests there are, as far as its type decides what is done with it.
IsRequest(m) ==
    \/ /\ m.type = "Query" /\ m = Query(m.query, m.id)
       /\ m.query.enum \in DOMAIN QueryErrors
       /\ m.query.op \in DOMAIN QueryErrors[m.query.enum]
       /\ m.query.enum \in {"BlobRead", "MapRead", "SequenceRead"} => "address" \in DOMAIN m.query
    \/ /\ m.type = "Cmd" /\ m = Cmd(m.cmd, m.id)
       /\ m.cmd.class \in {"Auth", "Data", "Transfer"}
       /\ m.cmd.class = "Data" => m.cmd.cmd.enum \in DataWrites
       /\ m.cmd.class = "Transfer" => m.cmd.cmd.op \in DOMAIN TransferCmdKind
    \/ m.type = "NodeQuery" /\ m = NodeQuery(m.query, m.id) /\ m.query.op \in NodeQueries
    \/ m.type = "NodeCmd" /\ m = NodeCmd(m.cmd, m.id) /\ <<m.cmd.enum, m.cmd.op>> \in NodeCmds

ASSUME ScenariosAssumption ==
    \A s \in Scenarios :
        /\ s.changes \in Nat /\ s.message.id \in Nat /\ IsRequest(s.message)
        /\ s.by \in Clients => s.message.type \in {"Cmd", "Query"}
        /\ s.by \notin Clients => s.by \in Nodes /\ s.message.type \in {"NodeCmd", "NodeQuery"}

VARIABLES
    scenario,   \* the one of Scenarios that happens
    net,        \* all envelopes sent
    pending,    \* what each node has signed and not yet sent: nothing, or one thing
    handled,    \* the types and ids of the messages each node has dealt with
    changes     \* bound: how many more promotions and demotions there are

routeVars == <<scenario, net, pending, handled, changes>>
vars == <<routeVars, keyVars>>

-----------------------------------------------------------------------------
\* Sending and receiving

Reaches(address, n) ==
    \/ address.type = "Section" /\ n \in Elders[SectionOf(address.name)]
    \/ address.type = "Node" /\ address.name = NodeName(n)

Receives(n, e) ==
    /\ pending[n] = {}
    /\ Reaches(Destination(e), n)
    /\ VerifyEnvelope(e)

\* The proof that goes with a signature of the node, from the keys it has now.
ProofOf(n, signature) ==
    IF signature.type = "BlsShare"
    THEN BlsProofShare(PublicKeySet(n), signature.index, signature.sig)
    ELSE Ed25519Proof(Ed25519(n), signature.sig)

\* A message of one's own begins an envelope, an envelope gets a proxy.
Extend(data, sender) ==
    IF "proxies" \in DOMAIN data THEN WithProxy(data, sender) ELSE NewEnvelope(data, sender)

\* The envelope that results if the keys stay as they are.
Result(n, duty, data) == Extend(data, NodeSender(duty, ProofOf(n, Sign(n, data))))

\* First, the signature.
StartSend(n, duty, data) ==
    pending' = [pending EXCEPT ![n] =
                  {[duty |-> duty, data |-> data, signature |-> Sign(n, data)]}]

\* Then the proof is added and the envelope sent; a demoted elder cannot do so.
FinishSend(n) ==
    \E p \in pending[n] :
        /\ net' = IF p.signature.type = "BlsShare" /\ PublicKeySet(n) = None THEN net
                  ELSE net \cup {Extend(p.data, NodeSender(p.duty, ProofOf(n, p.signature)))}
        /\ pending' = [pending EXCEPT ![n] = {}]
        /\ UNCHANGED <<scenario, handled, changes, keyVars>>

Key(m) == <<m.type, IF "id" \in DOMAIN m THEN m.id ELSE m.correlation_id>>

\* A message whose id is in the cache is ignored.
Dedup(n, m) ==
    /\ Key(m) \notin handled[n]
    /\ handled' = [handled EXCEPT ![n] = @ \cup {Key(m)}]

-----------------------------------------------------------------------------
\* Authorisation

\* What an authorised app needs; an owner may do everything, anyone read what
\* is public.
Permits(kind) ==
    CASE kind = "Write" -> {"data_mutations"}
      [] kind = "ReadBalance" -> {"read_balance"}
      [] kind = "ReadHistory" -> {"read_transfer_history"}
      [] kind = "WriteAndTransfer" -> {"data_mutations", "transfer_money"}
      [] OTHER -> {}

Authorised(origin, kind) ==
    \E c \in Clients :
        /\ ClientKey[c] = SenderId(origin)
        /\ \/ kind \in {"None", "PublicRead"} \/ c \in Owners
           \/ /\ c \in DOMAIN AppPermissions /\ kind # "ManageAppKeys"
              /\ Permits(kind) \subseteq AppPermissions[c]

AuthorisedCmd(e) == Authorised(e.origin, CmdKind(e.message.cmd))

-----------------------------------------------------------------------------
\* Commands

IsCmd(e, class) == e.message.type = "Cmd" /\ e.message.cmd.class = class

\* The quorum of replicas that agreed to a debit.
AgreementValid(p) ==
    Verify(Bls(p.replica_key), p.debiting_replicas_sig, p.signed_transfer) = "Ok"

\* The answer to a command that failed.
Refuse(n, e) ==
    StartSend(n, "Metadata",
              CmdError(CmdErrorOf(e.message.cmd), e.message.id, SenderAddress(e.origin)))

\* A data command at the Gateway, and then at the Payment section.
Forward(n, e) ==
    LET sender == MostRecentSender(e)
        duty == IF sender.type = "Client" THEN "Gateway" ELSE "Payment"
    IN  /\ IsCmd(e, "Data")
        /\ \/ sender.type = "Client" /\ AuthorisedCmd(e)
           \/ /\ sender.type = "Node" /\ sender.duty = "Gateway"
              /\ AgreementValid(e.message.cmd.payment)
        /\ Result(n, duty, e) \notin net
        /\ StartSend(n, duty, e)
        /\ UNCHANGED <<scenario, net, handled, changes, keyVars>>

\* A request that its client is not authorised to make.
Deny(n, e) ==
    /\ e.message.type = "Cmd" /\ e.origin.type = "Client"
    /\ MostRecentSender(e) = e.origin /\ ~AuthorisedCmd(e)
    /\ Dedup(n, e.message)
    /\ Refuse(n, e)
    /\ UNCHANGED <<scenario, net, changes, keyVars>>

IsVote(e) ==
    LET sender == MostRecentSender(e)
    IN  /\ sender.type = "Node" /\ sender.duty = "Payment"
        /\ sender.proof.type = "BlsShare"

\* The votes of Payment elders that agree with e: same envelope, same key set.
VotesWith(e) ==
    {v \in net : /\ IsVote(v) /\ VerifyEnvelope(v) /\ WithoutLast(v) = WithoutLast(e)
                 /\ MostRecentSender(v).proof.public_key_set
                      = MostRecentSender(e).proof.public_key_set}

ShareOf(v) ==
    LET proof == MostRecentSender(v).proof
    IN  [index |-> proof.index, share |-> proof.signature]

\* At a Metadata elder the shares of Payment elders become a section's proof.
Accumulate(n, e) ==
    LET set == MostRecentSender(e).proof.public_key_set
        shares == {ShareOf(v) : v \in VotesWith(e)}
        proof == BlsProof(Bls(set), Combine(set, shares, WithoutLast(e)))
        accumulated == WithProxy(WithoutLast(e), SectionSender("Payment", proof))
    IN  /\ IsCmd(e, "Data") /\ IsVote(e)
        /\ Cardinality(shares) > Threshold
        /\ accumulated \notin net
        /\ net' = net \cup {accumulated}
        /\ UNCHANGED <<scenario, pending, handled, changes, keyVars>>

\* A data command with the proof of the Payment section, or one that needs none.
Ready(e) ==
    \/ /\ IsCmd(e, "Data") /\ MostRecentSender(e).type = "Section"
       /\ MostRecentSender(e).duty = "Payment"
    \/ IsCmd(e, "Auth") /\ AuthorisedCmd(e)
    \/ IsCmd(e, "Transfer") /\ e.message.cmd.cmd.op = "SimulatePayout"

\* Carried out: nothing is sent unless it failed.
ExecuteCmd(n, e) ==
    /\ Ready(e) /\ Dedup(n, e.message)
    /\ UNCHANGED pending \/ Refuse(n, e)
    /\ UNCHANGED <<scenario, net, changes, keyVars>>

-----------------------------------------------------------------------------
\* Transfers: validated by the replicas of the debited key, agreed by a quorum
\* of them, registered, and propagated to the replicas of the credited key.

ValidateTransfer(n, e) ==
    /\ IsCmd(e, "Transfer") /\ e.message.cmd.cmd.op = "ValidateTransfer"
    /\ AuthorisedCmd(e) /\ Dedup(n, e.message)
    /\ LET signed == e.message.cmd.cmd.payload
           event == TransferValidated(signed, SignUsingBls(n, signed), PublicKeySet(n))
       IN  \/ /\ bls[n] # None
              /\ Verify(SignedFrom(signed), signed.actor_signature, signed.transfer) = "Ok"
              /\ StartSend(n, "Transfer",
                   Event(ClientEvent(NameOf(SenderId(e.origin)), event), e.message.id))
           \/ Refuse(n, e)
    /\ UNCHANGED <<scenario, net, changes, keyVars>>

ClientEnvelope(c, message) ==
    LET s == KeypairSign(ClientKey[c], message)
        proof == IF s.type = "Bls" THEN BlsProof(ClientKey[c], s.sig)
                 ELSE Ed25519Proof(ClientKey[c], s.sig)
    IN  NewEnvelope(message, ClientSender(proof))

\* The validations a client has received.
Validations(c) ==
    {e.message.event.event : e \in {v \in net : /\ v.message.type = "Event" /\ VerifyEnvelope(v)
                                          /\ Destination(v) = Address("Client", NameOf(ClientKey[c]))}}

\* A client accumulates validations of a transfer and has it registered.
Agree(c) ==
    \E first \in Validations(c) :
        LET same == {v \in Validations(c) : /\ v.signed_transfer = first.signed_transfer
                                            /\ v.replicas = first.replicas}
            shares == {[index |-> v.replica_signature.index, share |-> v.replica_signature.sig] :
                         v \in same}
            signature == Signature("Bls", Combine(first.replicas, shares, first.signed_transfer))
            proof == DebitAgreementProof(first.signed_transfer, signature, first.replicas)
            cmd == Cmd(TransferOf(TransferCmd("RegisterTransfer", proof)), 2)
        IN  /\ Cardinality(shares) > Threshold
            /\ ClientEnvelope(c, cmd) \notin net
            /\ net' = net \cup {ClientEnvelope(c, cmd)}
            /\ UNCHANGED <<scenario, pending, handled, changes, keyVars>>

RegisterTransfer(n, e) ==
    /\ IsCmd(e, "Transfer") /\ e.message.cmd.cmd.op = "RegisterTransfer"
    /\ Dedup(n, e.message)
    /\ LET proof == e.message.cmd.cmd.payload
       IN  IF AgreementValid(proof)
           THEN StartSend(n, "Transfer", NodeCmd(NodeTransfer("PropagateTransfer", proof), 3))
           ELSE Refuse(n, e)
    /\ UNCHANGED <<scenario, net, changes, keyVars>>

-----------------------------------------------------------------------------
\* Queries, and the messages among nodes

AnswerQuery(n, e) ==
    LET m == e.message  error == QueryError(m.query, "Error")
    IN  /\ m.type = "Query" /\ Dedup(n, m)
        /\ \E response \in {error} \cup
               IF Authorised(e.origin, QueryKind(m.query))
               THEN {Response(error.variant, "Ok", "Data")} ELSE {} :
              StartSend(n, "Metadata", QueryResponse(response, m.id, SenderAddress(e.origin)))
        /\ UNCHANGED <<scenario, net, changes, keyVars>>

\* What a node may send because of a message from another node.
FollowUps(n, e) ==
    LET m == e.message
    IN  CASE m.type = "NodeQuery" ->
              {NodeQueryResponse(NodeResponse(m.query, r), m.id, SenderAddress(e.origin)) :
                 r \in {"Ok", "Err"}}
          [] m.type = "NodeQueryResponse" /\ m.response.query.op = "GetChunks"
               /\ m.response.result = "Ok" ->
              {NodeEvent(DuplicationComplete(m.response.query.address), m.correlation_id)}
          [] m.type = "NodeCmd" /\ m.cmd.op = "DuplicateChunk" ->
              {NodeQuery(GetChunks("GetChunks", h, m.cmd.address), m.id + 1) :
                 h \in m.cmd.fetch_from_holders}
          [] m.type = "NodeCmd" /\ m.cmd.op = "ValidateSectionPayout" /\ bls[n] # None ->
              {NodeEvent(SectionPayoutValidated(TransferValidated(m.cmd.payload,
                 SignUsingBls(n, m.cmd.payload), PublicKeySet(n))), m.id)}
          [] m.type = "NodeCmd" /\ m.cmd.op = "RegisterSectionPayout"
               /\ AgreementValid(m.cmd.payload) ->
              {NodeCmd(NodeTransfer("PropagateTransfer", m.cmd.payload), m.id + 1)}
          [] OTHER -> {}

\* A chunk that cannot be had, a transfer that cannot be propagated.
Failures(e) ==
    LET m == e.message
    IN  CASE m.type = "NodeCmd" /\ m.cmd.op = "DuplicateChunk" ->
              {NodeCmdError(ChunkDuplication(m.cmd.address), m.id, SenderAddress(e.origin))}
          [] m.type = "NodeCmd" /\ m.cmd.op = "PropagateTransfer" ->
              {NodeCmdError(TransferPropagation, m.id, SenderAddress(e.origin))}
          [] OTHER -> {}

HandleNodeMessage(n, e) ==
    /\ e.message.type \in {"NodeCmd", "NodeCmdError", "NodeEvent", "NodeQuery", "NodeQueryResponse"}
    /\ Dedup(n, e.message)
    /\ \/ FollowUps(n, e) = {} /\ UNCHANGED pending
       \/ \E m \in FollowUps(n, e) \cup Failures(e) : StartSend(n, "Adult", m)
    /\ UNCHANGED <<scenario, net, changes, keyVars>>

-----------------------------------------------------------------------------
\* Elders get and lose their shares at any time.
ChangeKeys(n) ==
    /\ changes > 0
    /\ Promote(n) \/ ClearBlsKeys(n)
    /\ keyVars' # keyVars
    /\ changes' = changes - 1
    /\ UNCHANGED <<scenario, net, pending, handled>>

\* The first message; a node signs it with its Ed25519 key, under which its
\* answer will find it.
FirstEnvelope(s) ==
    IF s.by \in Clients THEN ClientEnvelope(s.by, s.message)
    ELSE NewEnvelope(s.message, NodeSender("Metadata",
           ProofOf(s.by, Signature("Ed25519", Raw(Ed25519(s.by), s.message)))))

FirstShare(n) ==
    LET sets == {s \in FirstKeys : n \in DOMAIN Members[s]}
    IN  IF sets = {} THEN None
        ELSE LET s == CHOOSE x \in sets : TRUE
             IN  BlsKeypairShare(Members[s][n], BlsShare(s, Members[s][n]), s)

Init ==
    /\ bls = [n \in Nodes |-> FirstShare(n)]
    /\ public_bls = [n \in Nodes |-> IF bls[n] = None THEN None ELSE bls[n].public]
    /\ scenario \in Scenarios
    /\ net = {FirstEnvelope(scenario)}
    /\ pending = [n \in Nodes |-> {}]
    /\ handled = [n \in Nodes |-> {}]
    /\ changes = scenario.changes

\* A node deals with a message it receives.
Handle(n) ==
    \E e \in net :
        /\ Receives(n, e)
        /\ \/ Forward(n, e) \/ Deny(n, e) \/ Accumulate(n, e) \/ ExecuteCmd(n, e)
           \/ ValidateTransfer(n, e) \/ RegisterTransfer(n, e)
           \/ AnswerQuery(n, e) \/ HandleNodeMessage(n, e)

Work ==
    \/ \E n \in Nodes : Handle(n) \/ FinishSend(n)
    \/ \E c \in Clients : Agree(c)

Next == Work \/ \E n \in Changing : ChangeKeys(n)

Spec == Init /\ [][Next]_vars

\* The network does not stop while somebody has something to send or to deal with.
FairSpec == Spec /\ WF_vars(Work)
=============================================================================
