-------------------------- MODULE RoutingProperties ----------------------------
(***************************************************************************)
(* What must be true of messages on their way.  The right outcome does not *)
(* come from the tables of the code: Business tells from what a request is *)
(* about which nodes are to deal with it and with each message that may    *)
(* follow from it, MayDo who may make it, and Wanted the type an answer is *)
(* converted to.                                                           *)
(***************************************************************************)
EXTENDS Routing

first == scenario.message

IsData == first.type = "Cmd" /\ first.cmd.class = "Data"

IsAuthorisedData == IsData /\ AuthorisedCmd(FirstEnvelope(scenario))

PaymentElders == Elders[SectionOf(NameOf(first.cmd.payment.signed_transfer.transfer.id.actor))]

Verified == {e \in net : VerifyEnvelope(e)}

\* The keys that a node may ever sign with.
KeysOf(n) == {Ed25519(n)} \cup
             {BlsShare(s, Members[s][n]) : s \in {t \in KeySets : n \in DOMAIN Members[t]}}

-----------------------------------------------------------------------------
\* Types.  An envelope never has more proxies than the two on the path of a
\* data command (MsgEnvelope::proxies, messaging/mod.rs:57).
RoutingTypeOK ==
    /\ KeysTypeOK
    /\ scenario \in Scenarios /\ changes \in 0 .. scenario.changes
    /\ \A e \in net : DOMAIN e = {"message", "origin", "proxies"} /\ Len(e.proxies) <= 2
    /\ \A n \in Nodes : /\ Cardinality(pending[n]) <= 1
                        /\ \A p \in pending[n] : p.signature.type \in {"Ed25519", "BlsShare"}

\* What the envelope was when proxy i added itself.
Before(e, i) == [e EXCEPT !.proxies = SubSeq(@, 1, i - 1)]

\* Everybody has signed what the envelope was when they added themselves.
Chain(e) ==
    /\ RawVerify(SenderId(e.origin), SenderSignature(e.origin).sig, e.message)
    /\ \A i \in DOMAIN e.proxies :
          RawVerify(SenderId(e.proxies[i]), SenderSignature(e.proxies[i]).sig, Before(e, i))

\* verify (messaging/mod.rs:67) checks the most recent signature only, and a node may
\* add itself with a proof that its signature does not fit any more.  Still, all the
\* signatures of an envelope that verifies are true: each was checked on the way.
VerifiedChains == \A e \in Verified : Chain(e)

-----------------------------------------------------------------------------
\* The path of a data command: Client, Gateway, Payment, Metadata.

\* A proxy that an elder of the section added, in the duty it has there.
AddedBy(sender, section, duty) ==
    /\ sender.type = "Node" /\ sender.duty = duty
    /\ \E n \in Elders[section] : SenderId(sender) \in KeysOf(n)

ThroughGateway(e) ==
    e.proxies # <<>> /\ AddedBy(e.proxies[1], SectionOf(NameOf(SenderId(e.origin))), "Gateway")

forwarded == IsData /\ \E e \in Verified : e.message = first /\ ThroughGateway(e)

\* More than Threshold elders of the Payment section have signed, with shares of one
\* key set, the same envelope from the Gateway.
agreed ==
    IsData /\
        LET votes == {v \in net : v.message = first /\ IsVote(v) /\ VerifyEnvelope(v)}
        IN  \E base \in {WithoutLast(v) : v \in votes}, s \in KeySets :
                /\ ThroughGateway(base)
                /\ LET voters == {SenderId(MostRecentSender(v)) :
                                    v \in {w \in votes : WithoutLast(w) = base}}
                   IN  Cardinality({n \in PaymentElders \cap DOMAIN Members[s] :
                                      BlsShare(s, Members[s][n]) \in voters}) > Threshold

DealtWith(n) == Key(first) \in handled[n]

executed ==
    IF IsAuthorisedData THEN {n \in Nodes : DealtWith(n)} ELSE {}

Path == INSTANCE CommandPath WITH Executors <- Nodes

\* Refinement, and what the comments of cmd_dst (messaging/mod.rs:118) say: nobody
\* carries a data command out before it has been through the Gateway and a quorum
\* of the Payment section has signed it, in whatever order envelopes arrive and
\* elders get and lose their shares.
ImplementsCommandPath == Path!Spec

-----------------------------------------------------------------------------
\* Answers

AnswerTypes == {"QueryResponse", "CmdError", "NodeQueryResponse", "NodeCmdError"}

\* Whoever handled a request last, its answer goes to who made it, with the id of
\* that request (query_origin and cmd_origin, MsgSender::address, messaging/mod.rs:191).
\* Not so if that was an elder that had signed with its share: the answer is then
\* addressed to the name of the share, which is not the name of any node.
AnswersReturn ==
    \A e \in net : e.message.type \in AnswerTypes =>
        \E q \in net :
            /\ Key(q.message)[2] = e.message.correlation_id
            /\ q.message.type \in {"Query", "Cmd", "NodeQuery", "NodeCmd"}
            /\ \/ \E c \in Clients : /\ SenderId(q.origin) = ClientKey[c]
                                     /\ Destination(e) = Address("Client", NameOf(ClientKey[c]))
               \/ \E n \in Nodes : /\ SenderId(q.origin) = Ed25519(n)
                                   /\ Reaches(Destination(e), n)
               \/ /\ q.origin.proof.type = "BlsShare"
                  /\ Destination(e) = Address("Node", NameOf(SenderId(q.origin)))

\* The type that a client takes the answer to each query for.
Wanted(query) ==
    LET types ==
        [BlobRead |-> [Get |-> "Blob"],
         MapRead |-> [Get |-> "Map", GetValue |-> "MapValue", GetShell |-> "Map",
                      GetVersion |-> "U64", ListEntries |-> "MapEntries",
                      ListKeys |-> "MapKeys", ListValues |-> "MapValues",
                      ListPermissions |-> "MapPermissions",
                      ListUserPermissions |-> "MapPermissionSet"],
         SequenceRead |-> [Get |-> "Sequence", GetRange |-> "SequenceEntries",
                           GetLastEntry |-> "LastEntry", GetOwner |-> "SequenceOwner",
                           GetPermissions |-> "SequencePermissions",
                           GetUserPermissions |-> "SequenceUserPermissions"],
         AccountRead |-> [Get |-> "AccountData"],
         AuthQuery |-> [ListAuthKeysAndVersion |-> "AuthKeys"],
         TransferQuery |-> [GetBalance |-> "Money", GetHistory |-> "History",
                            GetReplicaKeys |-> "ReplicaKeys"]]
    IN  types[query.enum][query.op]

\* The answer to a query, failed or not, can be taken for what was asked for: the
\* variant built by error() (messaging/query.rs:31) and the one that try_from!
\* (messaging/mod.rs:538) accepts are the same.
AnswersConvert ==
    \A e \in net : e.message.type = "QueryResponse" =>
        TryFrom(Wanted(first.query), e.message.response) # "WrongType"

-----------------------------------------------------------------------------
\* Authorisation and transfers

\* What clients may do, by the documentation of AppPermissions (lib.rs:135).
MayDo(c, m) ==
    \/ c \in Owners
    \/ /\ m.type = "Query" /\ "address" \in DOMAIN m.query /\ m.query.address.access = "Public"
    \/ m.type = "Query" /\ m.query.op = "GetReplicaKeys"
    \/ m.type = "Cmd" /\ m.cmd.class = "Transfer" /\ m.cmd.cmd.op # "ValidateTransfer"
    \/ /\ c \in DOMAIN AppPermissions
       /\ \/ m.type = "Query" /\ m.query.enum \in {"BlobRead", "MapRead", "SequenceRead", "AccountRead"}
          \/ /\ m.type = "Query" /\ m.query.op = "GetBalance"
             /\ "read_balance" \in AppPermissions[c]
          \/ /\ m.type = "Query" /\ m.query.op = "GetHistory"
             /\ "read_transfer_history" \in AppPermissions[c]
          \/ /\ m.type = "Cmd" /\ m.cmd.class = "Data"
             /\ "data_mutations" \in AppPermissions[c]
          \/ /\ m.type = "Cmd" /\ m.cmd.class = "Transfer"
             /\ "transfer_money" \in AppPermissions[c]

\* The node has signed a refusal.
Refusing(n) ==
    \E p \in pending[n] : "type" \in DOMAIN p.data /\ p.data.type = "CmdError"

\* Nobody carries out, validates or answers a request of a client that may not
\* make it: who deals with it refuses it, and nothing else comes of it.  The
\* authorisation each request asks for (authorisation_kind) and the permissions
\* of the client lead to the right decision on every path.
NoUnauthorisedEffect ==
    [][scenario.by \in Clients /\ ~MayDo(scenario.by, first) =>
         /\ \A n \in Nodes :
               first.type = "Cmd" /\ DealtWith(n)' /\ ~DealtWith(n) => Refusing(n)'
         /\ \A e \in net' : /\ e.message = first => e.proxies = <<>>
                            /\ e.message.type # "Event"
                            /\ e.message.type = "QueryResponse" =>
                                  e.message.response.result = "Err"]_vars

\* The transfer is validated here, and was not before.
beginsTransfer ==
    first.type = "Cmd" /\ first.cmd.class = "Transfer" /\ first.cmd.cmd.op = "ValidateTransfer"

\* Money arrives only where the transfer says, and after more than Threshold
\* replicas of the debited key have validated that very transfer
\* (DebitAgreementProof, transfer.rs:57; NodeTransferCmd, messaging/network.rs).
CreditNeedsDebit ==
    \A n \in Nodes : \A e \in net :
        /\ e.message.type = "NodeCmd" /\ e.message.cmd.op = "PropagateTransfer"
        /\ Key(e.message) \in handled[n]
        => LET p == e.message.cmd.payload
               signed == p.signed_transfer
               validators ==
                   {m \in Nodes \cap Elders[SectionOf(NameOf(signed.transfer.id.actor))] :
                      \E v \in net : /\ v.message.type = "Event"
                                     /\ v.message.event.event.signed_transfer = signed
                                     /\ v.message.event.event.replicas = p.replica_key
                                     /\ v.message.event.event.replica_signature.sig.key \in KeysOf(m)}
           IN  /\ n \in Elders[SectionOf(NameOf(signed.transfer.to))]
               /\ beginsTransfer => Cardinality(validators) > Threshold

-----------------------------------------------------------------------------
\* Whose business each message is

Home(name) == Elders[SectionOf(name)]

NodesNamed(name) == {n \in Nodes : NodeName(n) = name}

\* A blob is where its content says, a private one by its owner too.
DataName(write) ==
    CASE write.enum = "AccountWrite" -> write.name
      [] write.enum = "BlobWrite" /\ write.op = "New" ->
            [hash |-> IF write.data.access = "Private"
                      THEN <<write.data.value, write.data.owner>> ELSE <<write.data.value>>]
      [] OTHER -> write.address.name

QueryName(query) ==
    CASE query.enum = "AccountRead" -> query.name
      [] query.enum = "AuthQuery" -> NameOf(query.client)
      [] query.enum = "TransferQuery" -> NameOf(query.at)
      [] OTHER -> query.address.name

\* The transfer that the command c simulates, validates, registers or propagates.
TransferIn(c) ==
    CASE c.op = "SimulatePayout" -> c.payload
      [] c.op \in {"ValidateTransfer", "ValidateSectionPayout"} -> c.payload.transfer
      [] OTHER -> c.payload.signed_transfer.transfer

Debtor(c) == Home(NameOf(TransferIn(c).id.actor))
Creditor(c) == Home(NameOf(TransferIn(c).to))

\* Who deals with the first message of a scenario; a client that may not change the
\* data is refused by its own elders.
Handlers(s) ==
    LET m == s.message  own == Home(NameOf(ClientKey[s.by]))
    IN  CASE m.type = "Query" -> Home(QueryName(m.query))
          [] m.type = "Cmd" ->
                CASE m.cmd.class = "Data" /\ MayDo(s.by, m) -> Home(DataName(m.cmd.cmd))
                  [] m.cmd.class = "Transfer" -> Debtor(m.cmd.cmd)
                  [] OTHER -> own
          [] m.type = "NodeQuery" ->
                CASE m.query.op = "GetReplicaEvents" -> Home(NameOf(m.query.section_key))
                  [] m.query.op = "GetAccountId" -> Home(m.query.old_node_id)
                  [] OTHER -> NodesNamed(m.query.holder)
          [] m.type = "NodeCmd" ->
                CASE m.cmd.op = "RegisterWallet" -> Home(m.cmd.section)
                  [] m.cmd.op = "DuplicateChunk" -> NodesNamed(m.cmd.new_holder)
                  [] m.cmd.op = "PropagateTransfer" -> Creditor(m.cmd)
                  [] OTHER -> Debtor(m.cmd)

For(type, id, nodes) == [key |-> <<type, id>>, nodes |-> nodes]

\* Credited, or else those who had it registered are told.
Crediting(c, id) == {For("NodeCmd", id, Creditor(c)), For("NodeCmdError", id, Debtor(c))}

\* Who deals with what may follow.  Chunks that were asked for go to who asked, and
\* that they are there is told to the section of the chunk.
FollowingBusiness(s) ==
    LET m == s.message
        sender == NodesNamed(NodeName(s.by))
        Done(chunk, id) == For("NodeEvent", id, Home(chunk.name))
    IN  CASE m.type = "Cmd" /\ m.cmd.class = "Transfer" ->
                CASE m.cmd.cmd.op = "ValidateTransfer" ->
                        {For("Cmd", 2, Debtor(m.cmd.cmd))} \cup Crediting(m.cmd.cmd, 3)
                  [] m.cmd.cmd.op = "RegisterTransfer" -> Crediting(m.cmd.cmd, 3)
                  [] OTHER -> {}
          [] m.type = "NodeQuery" ->
                {For("NodeQueryResponse", m.id, sender)} \cup
                IF m.query.op = "GetChunks" THEN {Done(m.query.address, m.id)} ELSE {}
          [] m.type = "NodeCmd" ->
                CASE m.cmd.op = "DuplicateChunk" ->
                        {For("NodeCmdError", m.id, sender),
                         For("NodeQueryResponse", m.id + 1, NodesNamed(m.cmd.new_holder)),
                         Done(m.cmd.address, m.id + 1)} \cup
                        {For("NodeQuery", m.id + 1, NodesNamed(h)) : h \in m.cmd.fetch_from_holders}
                  [] m.cmd.op = "ValidateSectionPayout" -> {For("NodeEvent", m.id, Debtor(m.cmd))}
                  [] m.cmd.op = "RegisterSectionPayout" -> Crediting(m.cmd, m.id + 1)
                  [] m.cmd.op = "PropagateTransfer" -> {For("NodeCmdError", m.id, sender)}
                  [] OTHER -> {}
          [] OTHER -> {}

Business(s) == {[key |-> Key(s.message), nodes |-> Handlers(s)]} \cup FollowingBusiness(s)

IsFor(k, n) == \E b \in Business(scenario) : b.key = k /\ n \in b.nodes

\* Each message is dealt with where it belongs, and by nobody else: the data, the
\* account, the wallet or the node it is about, or who asked (the dst_address of every
\* request, messaging/; cmd_dst and destination, messaging/mod.rs:101, 118).
HandledAtHome == \A n \in Nodes : \A k \in handled[n] : IsFor(k, n)

-----------------------------------------------------------------------------
\* Liveness

\* More than Threshold elders that are to agree to the payment have shares of one key set.
PaymentQuorum ==
    IsAuthorisedData /\ \E s \in KeySets :
        Cardinality({n \in PaymentElders :
                       bls[n] # None /\ bls[n].public_key_set = s}) > Threshold

Finished ==
    \/ \E e \in Verified : e.message.type \in {"QueryResponse", "CmdError"}
    \/ IF beginsTransfer
       THEN \E n \in Nodes : <<"NodeCmd", 3>> \in handled[n]
       ELSE first.type = "Cmd" /\ \E n \in Handlers(scenario) : DealtWith(n)

\* If the network does not stop, and the Payment elders are in the end enough with
\* shares of one key set, every request of a client comes to an end: it is answered,
\* refused or carried out (a transfer: credited), at whatever point of its path the
\* keys changed (cmd_dst, messaging/mod.rs:118; set_bls_keys, node.rs:287).
RequestsComplete ==
    scenario.by \in Clients /\ <>[](IsAuthorisedData => PaymentQuorum) => <>Finished
=============================================================================
