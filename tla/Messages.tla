------------------------------ MODULE Messages --------------------------------
(***************************************************************************)
(* What clients and nodes say to each other: src/src/messaging/, with the  *)
(* transfers (transfer.rs) and blobs (blob.rs) that messages carry.  A     *)
(* command or query is a record with the enum and the variant it is of and *)
(* what its destination depends on; payloads nothing depends on are left   *)
(* out.  The tables from a variant to an authorisation, an error and a     *)
(* destination are the ones in the code, as functions.                     *)
(***************************************************************************)
EXTENDS Keys, Sequences

-----------------------------------------------------------------------------
\* Transfers (transfer.rs).  A transfer id is a Dot: an actor and a counter.

Transfer(from, counter, to, amount) ==
    [id |-> [actor |-> from, counter |-> counter], to |-> to, amount |-> amount]

SignedTransfer(transfer, signature) ==
    [transfer |-> transfer, actor_signature |-> signature]

DebitAgreementProof(signed, signature, key_set) ==
    [signed_transfer |-> signed, debiting_replicas_sig |-> signature, replica_key |-> key_set]

TransferValidated(signed, share, key_set) ==
    [signed_transfer |-> signed, replica_signature |-> share, replicas |-> key_set]

\* Transfer::from and to; the other types hand down to them.
TransferFrom(t) == t.id.actor
TransferTo(t) == t.to

SignedFrom(s) == TransferFrom(s.transfer)
SignedTo(s) == TransferTo(s.transfer)

AgreementFrom(p) == SignedFrom(p.signed_transfer)
AgreementTo(p) == SignedTo(p.signed_transfer)

ValidatedFrom(e) == SignedFrom(e.signed_transfer)

-----------------------------------------------------------------------------
\* Blobs (blob.rs): the address follows from the content, and for a private
\* blob from its owner too; it is not sent, but computed again by the receiver.

PrivateBlob(value, owner) == [access |-> "Private", value |-> value, owner |-> owner]
PublicBlob(value) == [access |-> "Public", value |-> value]

\* Faulty: the owner of a private blob does not count.
AddressOfContent(blob) == [access |-> blob.access, name |-> [hash |-> <<blob.value>>]]

BlobAddress(blob) ==
    [access |-> blob.access,
     name |-> [hash |-> IF blob.access = "Private" THEN <<blob.value, blob.owner>>
                        ELSE <<blob.value>>]]

-----------------------------------------------------------------------------
\* Reads.  An address is a record [access, name]; the access of a Map is
\* always "Private".

BlobRead(address) == [enum |-> "BlobRead", op |-> "Get", address |-> address]

MapRead(op, address) == [enum |-> "MapRead", op |-> op, address |-> address]

SequenceRead(op, address) == [enum |-> "SequenceRead", op |-> op, address |-> address]

AccountRead(name) == [enum |-> "AccountRead", op |-> "Get", name |-> name]

AuthQuery(client) ==
    [enum |-> "AuthQuery", op |-> "ListAuthKeysAndVersion", client |-> client]

TransferQuery(op, at) == [enum |-> "TransferQuery", op |-> op, at |-> at]

\* Faulty: the values are answered as entries.
MapReadErrorCopied ==
    [Get |-> "GetMap", GetValue |-> "GetMapValue", GetShell |-> "GetMapShell",
     GetVersion |-> "GetMapVersion", ListEntries |-> "ListMapEntries",
     ListKeys |-> "ListMapKeys", ListValues |-> "ListMapEntries",
     ListPermissions |-> "ListMapPermissions",
     ListUserPermissions |-> "ListMapUserPermissions"]

\* The variant of QueryResponse that error() of each query builds.
MapReadError ==
    [Get |-> "GetMap", GetValue |-> "GetMapValue", GetShell |-> "GetMapShell",
     GetVersion |-> "GetMapVersion", ListEntries |-> "ListMapEntries",
     ListKeys |-> "ListMapKeys", ListValues |-> "ListMapValues",
     ListPermissions |-> "ListMapPermissions",
     ListUserPermissions |-> "ListMapUserPermissions"]

SequenceReadError ==
    [Get |-> "GetSequence", GetRange |-> "GetSequenceRange",
     GetLastEntry |-> "GetSequenceLastEntry", GetPermissions |-> "GetSequencePermissions",
     GetUserPermissions |-> "GetSequenceUserPermissions", GetOwner |-> "GetSequenceOwner"]

TransferQueryError ==
    [GetReplicaKeys |-> "GetReplicaKeys", GetBalance |-> "GetBalance",
     GetHistory |-> "GetHistory"]

BlobReadError == [Get |-> "GetBlob"]
AccountReadError == [Get |-> "GetAccount"]
AuthQueryError == [ListAuthKeysAndVersion |-> "ListAuthKeysAndVersion"]

\* QueryResponse: one variant for each query, with a result.
Response(variant, result, value) == [variant |-> variant, result |-> result, value |-> value]

\* Query::error and DataQuery::error hand down to the query.
QueryErrors ==
    [BlobRead |-> BlobReadError, MapRead |-> MapReadError, SequenceRead |-> SequenceReadError,
     AccountRead |-> AccountReadError, AuthQuery |-> AuthQueryError,
     TransferQuery |-> TransferQueryError]

QueryError(q, error) == Response(QueryErrors[q.enum][q.op], "Err", error)

\* The invocations of try_from!: the variants from which each type is taken.
TryFromVariants ==
    [Blob |-> {"GetBlob"}, Map |-> {"GetMap", "GetMapShell"}, U64 |-> {"GetMapVersion"},
     MapEntries |-> {"ListMapEntries"}, MapKeys |-> {"ListMapKeys"},
     MapValues |-> {"ListMapValues"}, MapPermissionSet |-> {"ListMapUserPermissions"},
     MapPermissions |-> {"ListMapPermissions"}, MapValue |-> {"GetMapValue"},
     Sequence |-> {"GetSequence"}, SequenceOwner |-> {"GetSequenceOwner"},
     SequenceEntries |-> {"GetSequenceRange"}, LastEntry |-> {"GetSequenceLastEntry"},
     SequencePermissions |-> {"GetSequencePermissions"},
     SequenceUserPermissions |-> {"GetSequenceUserPermissions"},
     Money |-> {"GetBalance"}, ReplicaKeys |-> {"GetReplicaKeys"}, History |-> {"GetHistory"},
     AuthKeys |-> {"ListAuthKeysAndVersion"}, AccountData |-> {"GetAccount"}]

\* TryFrom<QueryResponse>
TryFrom(type, response) ==
    IF response.variant \notin TryFromVariants[type] THEN "WrongType"
    ELSE IF response.result = "Ok" THEN "Ok" ELSE "Response"

-----------------------------------------------------------------------------
\* Writes.  New carries the data itself.

BlobNew(blob) == [enum |-> "BlobWrite", op |-> "New", data |-> blob]
BlobDeletePrivate(address) == [enum |-> "BlobWrite", op |-> "DeletePrivate", address |-> address]

MapWriteOps == {"New", "Delete", "Edit", "DelUserPermissions", "SetUserPermissions"}
MapWrite(op, address) == [enum |-> "MapWrite", op |-> op, address |-> address]

SequenceWriteOps ==
    {"New", "Edit", "Delete", "SetOwner", "SetPublicPermissions", "SetPrivatePermissions"}
SequenceWrite(op, address) == [enum |-> "SequenceWrite", op |-> op, address |-> address]

AccountWriteOps == {"New", "Update"}
AccountWrite(op, name) == [enum |-> "AccountWrite", op |-> op, name |-> name]

AuthCmd(op, client) == [enum |-> "AuthCmd", op |-> op, client |-> client]

TransferCmd(op, payload) == [enum |-> "TransferCmd", op |-> op, payload |-> payload]

\* Cmd
AuthOf(c) == [class |-> "Auth", cmd |-> c]
DataOf(c, payment) == [class |-> "Data", cmd |-> c, payment |-> payment]
TransferOf(c) == [class |-> "Transfer", cmd |-> c]

TransferErrors ==
    [ValidateTransfer |-> "TransferValidation", RegisterTransfer |-> "TransferRegistration",
     SimulatePayout |-> "TransferRegistration"]

\* error of AuthCmd, DataCmd (and every data write) and TransferCmd.
CmdErrorOf(c) ==
    [class |-> c.class, error |-> IF c.class = "Transfer" THEN TransferErrors[c.cmd.op] ELSE "Error"]

-----------------------------------------------------------------------------
\* authorisation_kind of queries and commands

\* BlobRead and SequenceRead: by the kind of the address.
ReadKind(address) == IF address.access = "Public" THEN "PublicRead" ELSE "PrivateRead"

\* Faulty: the history asks for the permission of the balance.
TransferQueryKindCopied ==
    [GetBalance |-> "ReadBalance", GetReplicaKeys |-> "None", GetHistory |-> "ReadBalance"]

TransferQueryKind ==
    [GetBalance |-> "ReadBalance", GetReplicaKeys |-> "None", GetHistory |-> "ReadHistory"]

QueryKind(q) ==
    CASE q.enum \in {"BlobRead", "SequenceRead"} -> ReadKind(q.address)
      [] q.enum \in {"MapRead", "AccountRead"} -> "PrivateRead"
      [] q.enum = "AuthQuery" -> "ManageAppKeys"
      [] q.enum = "TransferQuery" -> TransferQueryKind[q.op]

TransferCmdKind ==
    [RegisterTransfer |-> "None", ValidateTransfer |-> "WriteAndTransfer",
     SimulatePayout |-> "None"]

\* Cmd::authorisation_kind; every data write is a Write.
CmdKind(c) ==
    CASE c.class = "Data" -> "Write"
      [] c.class = "Auth" -> "ManageAppKeys"
      [] c.class = "Transfer" -> TransferCmdKind[c.cmd.op]

-----------------------------------------------------------------------------
\* dst_address of queries and commands

QueryDst(q) ==
    CASE q.enum \in {"BlobRead", "MapRead", "SequenceRead"} -> q.address.name
      [] q.enum = "AccountRead" -> q.name
      [] q.enum = "AuthQuery" -> NameOf(q.client)
      [] q.enum = "TransferQuery" -> NameOf(q.at)

BlobWriteDst(c) == IF c.op = "New" THEN BlobAddress(c.data).name ELSE c.address.name

\* DataCmd::dst_address
DataCmdDst(c) ==
    CASE c.enum = "BlobWrite" -> BlobWriteDst(c)
      [] c.enum \in {"MapWrite", "SequenceWrite"} -> c.address.name
      [] c.enum = "AccountWrite" -> c.name

\* TransferCmd::dst_address: where the debit is made.
TransferCmdDst(c) ==
    NameOf(CASE c.op = "ValidateTransfer" -> SignedFrom(c.payload)
             [] c.op = "RegisterTransfer" -> AgreementFrom(c.payload)
             [] c.op = "SimulatePayout" -> TransferFrom(c.payload))

\* Events for clients: TransferValidated.
ClientEvent(client, validated) ==
    [op |-> "TransferValidated", client |-> client, event |-> validated]

EventDst(e) == e.client

-----------------------------------------------------------------------------
\* Addresses, and the messages among nodes (network.rs).

Address(type, name) == [type |-> type, name |-> name]

RegisterWallet(section) == [enum |-> "System", op |-> "RegisterWallet", section |-> section]

DuplicateChunk(holder, chunk, from) ==
    [enum |-> "Data", op |-> "DuplicateChunk", new_holder |-> holder, address |-> chunk,
     fetch_from_holders |-> from]

NodeTransfer(op, payload) == [enum |-> "Transfers", op |-> op, payload |-> payload]

\* Faulty: a transfer is propagated to where it came from.
NodeTransferDstOfDebit(c) ==
    NameOf(IF c.op = "ValidateSectionPayout" THEN SignedFrom(c.payload)
           ELSE AgreementFrom(c.payload))

NodeTransferDst(c) ==
    NameOf(CASE c.op = "ValidateSectionPayout" -> SignedFrom(c.payload)
             [] c.op = "RegisterSectionPayout" -> AgreementFrom(c.payload)
             [] c.op = "PropagateTransfer" -> AgreementTo(c.payload))

NodeCmdDst(c) ==
    CASE c.enum = "System" -> Address("Section", c.section)
      [] c.enum = "Data" -> Address("Node", c.new_holder)
      [] c.enum = "Transfers" -> Address("Section", NodeTransferDst(c))

DuplicationComplete(chunk) == [op |-> "DuplicationComplete", chunk |-> chunk]

SectionPayoutValidated(validated) == [op |-> "SectionPayoutValidated", payload |-> validated]

NodeEventDst(e) ==
    Address("Section", IF e.op = "DuplicationComplete" THEN e.chunk.name
                       ELSE NameOf(ValidatedFrom(e.payload)))

GetChunks(op, holder, chunk) == [op |-> op, holder |-> holder, address |-> chunk]

GetReplicaEvents(section_key) == [op |-> "GetReplicaEvents", section_key |-> section_key]

GetAccountId(old_node, new_node) ==
    [op |-> "GetAccountId", old_node_id |-> old_node, new_node_id |-> new_node]

\* The answers: NodeQueryResponse has a variant for each query.
NodeResponse(query, result) == [query |-> query, result |-> result]

ChunkDuplication(chunk) == [op |-> "ChunkDuplication", address |-> chunk]

TransferPropagation == [op |-> "TransferPropagation"]

NodeQueryDst(q) ==
    CASE q.op \in {"GetChunk", "GetChunks"} -> Address("Node", q.holder)
      [] q.op = "GetReplicaEvents" -> Address("Section", NameOf(q.section_key))
      [] q.op = "GetAccountId" -> Address("Section", q.old_node_id)
=============================================================================
