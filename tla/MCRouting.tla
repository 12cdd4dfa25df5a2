------------------------------ MODULE MCRouting --------------------------------
(* Values of the constants of Routing for TLC: the names, clients and sections, and
   every message that the code can send. *)
EXTENDS RoutingProperties, TLC

CONSTANTS
    g, p1, p2, p3, d, q,  \* elders of the Gateway, of Payment, of Metadata, and another
    a1, a2,               \* adults
    s1, s2, sG, sD, sQ    \* key sets

MCNodes == {g, p1, p2, p3, d, q, a1, a2}
Payment == {p1, p2, p3}

\* The second key set of Payment has two of its elders, at other indices.
MCMembers ==
    (s1 :> (p1 :> 0 @@ p2 :> 1 @@ p3 :> 2)) @@ (s2 :> (p2 :> 0 @@ p3 :> 1))
    @@ (sG :> (g :> 0)) @@ (sD :> (d :> 0)) @@ (sQ :> (q :> 0))

MCElders == [Gateway |-> {g}, Payment |-> Payment, Metadata |-> {d}, Other |-> {q}]

MCClientKey == [owner |-> Ed25519("owner"), app |-> Bls("app"), stranger |-> Ed25519("stranger")]
MCAppPermissions == [app |-> {"data_mutations", "read_balance"}]

wallet == Ed25519("wallet")
payee == Ed25519("payee")

\* The names that are close to each section; the public blob is at Other.
DataNames ==
    {[hash |-> <<"v", wallet>>], [data |-> "map"], [data |-> "sequence"], [data |-> "account"]}

MCSectionOf(name) ==
    IF name \in DataNames \cup {NodeName(d)} THEN "Metadata"
    ELSE IF name \in {NameOf(k) : k \in {wallet, Bls(s1)}} THEN "Payment"
    ELSE IF name \in {NameOf(MCClientKey[c]) : c \in DOMAIN MCClientKey} THEN "Gateway"
    ELSE "Other"

-----------------------------------------------------------------------------
\* Requests of clients

Private(name) == [access |-> "Private", name |-> name]
Public(name) == [access |-> "Public", name |-> name]

theMap == Private([data |-> "map"])
Blobs == {PrivateBlob("v", wallet), PublicBlob("v")}
Sequences == {Private([data |-> "sequence"]), Public([data |-> "sequence"])}

First(by, message) == [by |-> by, message |-> message, changes |-> 0]

Queries(by) ==
    {First(by, Query(x, 1)) :
       x \in {BlobRead(Private([hash |-> <<"v", wallet>>])), BlobRead(Public([hash |-> <<"v">>])),
              AccountRead([data |-> "account"]), AuthQuery(MCClientKey.owner)}
             \cup {MapRead(o, theMap) : o \in DOMAIN MapReadError}
             \cup {SequenceRead(o, s) : o \in DOMAIN SequenceReadError, s \in Sequences}
             \cup {TransferQuery(o, wallet) : o \in DOMAIN TransferQueryError}}

pay == Transfer(wallet, 1, payee, 1)
signedPay == SignedTransfer(pay, KeypairSign(wallet, pay))
agreedPay == DebitAgreementProof(signedPay, Signature("Bls", Raw(Bls(s1), signedPay)), s1)

DataCmds ==
    {BlobNew(b) : b \in Blobs} \cup {BlobDeletePrivate(Private([hash |-> <<"v", wallet>>]))}
    \cup {MapWrite(o, theMap) : o \in MapWriteOps}
    \cup {SequenceWrite(o, s) : o \in SequenceWriteOps, s \in Sequences}
    \cup {AccountWrite(o, [data |-> "account"]) : o \in AccountWriteOps}

DataCmd(by, c) == First(by, Cmd(DataOf(c, agreedPay), 1))

Cmds(by) ==
    {DataCmd(by, c) : c \in DataCmds}
    \cup {First(by, Cmd(AuthOf(AuthCmd(o, MCClientKey.owner)), 1)) :
            o \in {"InsAuthKey", "DelAuthKey"}}
    \cup {First(by, Cmd(TransferOf(TransferCmd(c[1], c[2])), 1)) :
            c \in {<<"SimulatePayout", pay>>, <<"ValidateTransfer", signedPay>>,
                   <<"RegisterTransfer", agreedPay>>}}

-----------------------------------------------------------------------------
\* Messages that nodes begin.

chunk == Private([hash |-> <<"v", wallet>>])

NodeMessages ==
    {First(d, NodeCmd(DuplicateChunk(NodeName(a1), chunk, {NodeName(a2)}), 1)),
     First(d, NodeQuery(GetChunks("GetChunk", NodeName(a2), chunk), 1)),
     First(a1, NodeQuery(GetChunks("GetChunks", NodeName(a2), chunk), 1)),
     First(q, NodeQuery(GetReplicaEvents(Bls(s1)), 1)),
     First(q, NodeQuery(GetAccountId(NodeName(d), NodeName(a1)), 1)),
     First(q, NodeCmd(RegisterWallet(NameOf(wallet)), 1)),
     First(d, NodeCmd(NodeTransfer("ValidateSectionPayout", signedPay), 1)),
     First(d, NodeCmd(NodeTransfer("RegisterSectionPayout", agreedPay), 1)),
     First(p1, NodeCmd(NodeTransfer("PropagateTransfer", agreedPay), 1))}

\* Commands during which the Payment elders change their shares.
WithChanges == {[DataCmd("app", MapWrite("Edit", theMap)) EXCEPT !.changes = 2]}

MCScenarios ==
    UNION {Queries(c) \cup Cmds(c) : c \in DOMAIN MCClientKey}
    \cup NodeMessages \cup WithChanges
=============================================================================
