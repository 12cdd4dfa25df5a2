------------------------------ MODULE Envelope --------------------------------
(***************************************************************************)
(* Messages on their way: Message, MsgSender, MsgEnvelope and Address of   *)
(* src/src/messaging/mod.rs.  An envelope has the proof of the client or   *)
(* node that the message comes from, over the message, and the proof of    *)
(* each one that handled it since, over the envelope as it was then.       *)
(***************************************************************************)
EXTENDS Messages

\* Message.  An answer has the id of what it answers and the address that asked.
Cmd(cmd, id) == [type |-> "Cmd", cmd |-> cmd, id |-> id]
Query(query, id) == [type |-> "Query", query |-> query, id |-> id]
NodeCmd(cmd, id) == [type |-> "NodeCmd", cmd |-> cmd, id |-> id]
NodeQuery(query, id) == [type |-> "NodeQuery", query |-> query, id |-> id]

Event(event, id) == [type |-> "Event", event |-> event, correlation_id |-> id]
NodeEvent(event, id) == [type |-> "NodeEvent", event |-> event, correlation_id |-> id]

QueryResponse(response, id, origin) ==
    [type |-> "QueryResponse", response |-> response, correlation_id |-> id, query_origin |-> origin]
CmdError(error, id, origin) ==
    [type |-> "CmdError", error |-> error, correlation_id |-> id, cmd_origin |-> origin]
NodeQueryResponse(response, id, origin) ==
    [type |-> "NodeQueryResponse", response |-> response, correlation_id |-> id,
     query_origin |-> origin]
NodeCmdError(error, id, origin) ==
    [type |-> "NodeCmdError", error |-> error, correlation_id |-> id, cmd_origin |-> origin]

\* MsgSender; duty is that of an elder, or "Adult".
ClientSender(proof) == [type |-> "Client", proof |-> proof]
NodeSender(duty, proof) == [type |-> "Node", duty |-> duty, proof |-> proof]
SectionSender(duty, proof) == [type |-> "Section", duty |-> duty, proof |-> proof]

SenderId(sender) == ProofId(sender.proof)
SenderSignature(sender) == ProofSignature(sender.proof)

\* Faulty: everybody is found as a node.
SenderAsNode(sender) == Address("Node", NameOf(SenderId(sender)))

\* MsgSender::address; the types of senders and addresses have the same names.
SenderAddress(sender) == Address(sender.type, NameOf(SenderId(sender)))

-----------------------------------------------------------------------------
\* MsgEnvelope

NewEnvelope(message, origin) == [message |-> message, origin |-> origin, proxies |-> <<>>]

WithProxy(e, proxy) == [e EXCEPT !.proxies = Append(@, proxy)]

MostRecentSender(e) == IF e.proxies = <<>> THEN e.origin ELSE e.proxies[Len(e.proxies)]

\* proxies.pop()
WithoutLast(e) == [e EXCEPT !.proxies = SubSeq(@, 1, Len(@) - 1)]

\* What the most recent sender has signed.
Signed(e) == IF e.proxies = <<>> THEN e.message ELSE WithoutLast(e)

\* Faulty: looks at the origin, whoever added themselves since.
VerifyOrigin(e) ==
    Verify(SenderId(e.origin), SenderSignature(e.origin), e.message) = "Ok"

\* MsgEnvelope::verify: one signature, the most recent one.
VerifyEnvelope(e) ==
    LET signer == MostRecentSender(e)
    IN  Verify(SenderId(signer), SenderSignature(signer), Signed(e)) = "Ok"

SectionOfOrigin(e) == Address("Section", NameOf(SenderId(e.origin)))

\* Faulty: a data command is paid for before it has been to the Gateway.
CmdDstSkippingGateway(e) ==
    LET c == e.message.cmd
    IN  CASE c.class = "Auth" -> SectionOfOrigin(e)
          [] c.class = "Transfer" -> Address("Section", TransferCmdDst(c.cmd))
          [] c.class = "Data" /\ Len(e.proxies) < 2 ->
                Address("Section", NameOf(AgreementFrom(c.payment)))
          [] OTHER -> Address("Section", DataCmdDst(c.cmd))

\* Faulty: forgets the proof of the whole Payment section.
CmdDstWithoutSection(e) ==
    LET c == e.message.cmd
        sender == MostRecentSender(e)
    IN  CASE c.class = "Auth" -> SectionOfOrigin(e)
          [] c.class = "Transfer" -> Address("Section", TransferCmdDst(c.cmd))
          [] c.class = "Data" /\ sender.type = "Node" ->
                Address("Section", IF sender.duty = "Gateway" THEN NameOf(AgreementFrom(c.payment))
                                   ELSE DataCmdDst(c.cmd))
          [] OTHER -> SectionOfOrigin(e)

\* cmd_dst: a data command goes from its client to the Gateway, from there to
\* where the payment is made, and from there to where the data is.
CmdDst(e) ==
    LET c == e.message.cmd
        sender == MostRecentSender(e)
        from == <<sender.type, IF sender.type = "Client" THEN "None" ELSE sender.duty>>
    IN  CASE c.class = "Auth" -> SectionOfOrigin(e)
          [] c.class = "Transfer" -> Address("Section", TransferCmdDst(c.cmd))
          [] c.class = "Data" /\ from = <<"Node", "Gateway">> ->
                Address("Section", NameOf(AgreementFrom(c.payment)))
          [] c.class = "Data" /\ from \in {<<"Node", "Payment">>, <<"Section", "Payment">>} ->
                Address("Section", DataCmdDst(c.cmd))
          [] OTHER -> SectionOfOrigin(e)

\* MsgEnvelope::destination
Destination(e) ==
    LET m == e.message
    IN  CASE m.type = "Cmd" -> CmdDst(e)
          [] m.type = "Query" -> Address("Section", QueryDst(m.query))
          [] m.type = "Event" -> Address("Client", EventDst(m.event))
          [] m.type \in {"QueryResponse", "NodeQueryResponse"} -> m.query_origin
          [] m.type \in {"CmdError", "NodeCmdError"} -> m.cmd_origin
          [] m.type = "NodeCmd" -> NodeCmdDst(m.cmd)
          [] m.type = "NodeEvent" -> NodeEventDst(m.event)
          [] m.type = "NodeQuery" -> NodeQueryDst(m.query)
=============================================================================
