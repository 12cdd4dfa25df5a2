# A TLA+ verification of safe-nd

safe-nd defines the data types of the SAFE Network and the messages clients and
nodes exchange about them. It has no network, no storage and no scheduler of its
own: a data handler or a client (both in other repositories) holds a value, calls
its methods, and moves the messages. What the library has to get right is
therefore what happens to a value when calls and operations from many parties
reach it concurrently, late, repeatedly, out of order or never. That is what the
modules here are about. All source paths are relative to `src/src/` of the
repository.

## 1. Inventory

| Component | State it keeps | Operations | Hard behaviour |
|---|---|---|---|
| Sequence (`sequence/mod.rs`, `seq_crdt.rs`) | three LSEQ lists per copy: entries, permissions history, owners history | `new_pub`, `new_private`; local writes `append`, `set_pub_permissions`, `set_private_permissions`, `set_owner`, each returning an operation to broadcast; `apply_crdt_op`, `apply_crdt_pub_perms_op`, `apply_crdt_private_perms_op`, `apply_crdt_owner_op`; reads `get`, `in_range`, `last_entry`, `check_permission`, ... | concurrent writers, reordered, duplicated and lost operations, copies made late, current permissions and owner decided by the end of a replicated list |
| Sequence metadata (`sequence/metadata.rs`) | none | `is_action_allowed` of public and private permissions, `Index`, `Owner` | explicit denial, explicit `None` and absence are three cases beside `User::Anyone` |
| Map (`map.rs`) | entries (with versions if sequenced), permissions, version, owner | `mutate_entries`, `take_entries`, `set_user_permissions`, `del_user_permissions`, `change_owner`, two calls without validation | requests composed from a stale read, repeated requests, all-or-nothing batches, unchecked `u64` arithmetic |
| Message envelope (`messaging/mod.rs`, `duty.rs`) | message, origin, proxies so far | `with_proxy`, `verify`, `most_recent_sender`, `destination` | the destination of a data command depends on who handled it last; only the last signature is checked; envelopes arrive late, twice, out of order |
| Commands and queries (`messaging/*.rs`) | none | tables from a variant to an error, an authorisation kind, a destination; `TryFrom<QueryResponse>` | tables in different files that must agree with each other |
| Node identities (`identity/node.rs`) | an Ed25519 pair, and a BLS share while elder, kept in two fields | `set_bls_keys`, `clear_bls_keys`, `sign`, `public_key` | promotion and demotion while signatures are in flight, share indices |
| Client and app identities (`identity/client.rs`, `app.rs`, `mod.rs`) | a key pair and the public id derived from it | `sign` | none: immutable |
| Keys and proofs (`keys/`) | none | `verify`, ordering, conversions | none beyond cryptography |
| Money, rewards (`money.rs`, `rewards.rs`) | an amount; a reward and a work counter | `checked_add`, `checked_sub`, parsing; `RewardCounter::add` | width limits, two unchecked additions |
| Transfers (`transfer.rs`) | none | `from`, `to` and the fields of events and proofs | a transfer passes two sections and a client; the replicas are elsewhere |
| Blob (`blob.rs`), account (`messaging/account.rs`) | immutable content | address from content, size check | the address is not sent but computed again by the receiver |
| Errors, utilities (`errors.rs`, `utils.rs`, `lib.rs`), trait drafts (`ops.rs`, not compiled) | none | | |

How they interact: a client makes a copy of a Sequence or reads a Map, changes its
copy or composes a request, and wraps the resulting `SequenceWrite` or `MapWrite`
in a `Cmd::Data`, a `Message` and a `MsgEnvelope`. The envelope passes the
Gateway, Payment and Metadata elders, each adding itself as a proxy, and reaches
the data handler, which checks permissions and calls the methods of the type. The
only shared state is the value at each handler; there are no callbacks and no
threads inside the library. Answers go back to the address of the origin.

What makes each part correct, in the order of importance used for the plan:

1. Sequence: copies that know the same operations are equal; a copy is exactly
   what it has been told; access follows the newest owner and permissions writes
   and nothing else; a public permissions history is never shortened.
2. Map: no accepted write overwrites a value its author has not seen; a batch is
   all or nothing; no change of permissions or owner is lost or counted twice.
3. Envelope: whatever path a message takes, it is dealt with where it belongs, a
   data command after the Gateway and a quorum of the Payment section; every
   signature in an envelope that verifies is true; answers return and convert.
4. Node keys: what a node signs can be verified under the key it shows, and under
   the index it states.
5. Transfers: money arrives only after a quorum of replicas has validated the debit.
6. Money and rewards: no operation wraps around.

## 2. Modules

    LSeq                  the LSEQ list of the crdts crate (external)
    GrowOnlyLog           what a Sequence promises, abstractly
    SequenceCrdt          Sequence and its permissions; EXTENDS LSeq, implements GrowOnlyLog
    MCSequence            its constants for TLC
    SequenceCrdtProofs    types, convergence, histories
    SequenceLogProofs     EXTENDS SequenceCrdtProofs: implements GrowOnlyLog
    SequenceAccessProofs  EXTENDS SequenceLogProofs: access decisions, recorded
                          indices, reads by an index

    MapData               Map and the requests to it
    MCMap                 its constants for TLC
    MapProofs             theorems about MapData

    Keys                  public keys, signatures, proofs
    NodeKeys              the keys of nodes; EXTENDS Keys
    NodeKeysProofs        theorems about NodeKeys
    MCNodeKeys            its constants for TLC
    Messages              commands, queries and their tables; EXTENDS Keys
    Envelope              messages, senders, envelopes; EXTENDS Messages
    CommandPath           what the path of a data command promises, abstractly
    Routing               envelopes and changing keys together; EXTENDS Envelope, NodeKeys
    RoutingProperties     what must hold there; implements CommandPath
    RoutingProofs         keys, chains, answers, authorisation, credit;
                          EXTENDS RoutingProperties, NodeKeysProofs
    RoutingPathProofs     EXTENDS RoutingProofs: implements CommandPath, types,
                          where every message is dealt with
    MCRouting             names, clients, sections and scenarios for TLC

    Money                 amounts, parsing, RewardCounter
    MoneyProofs           theorems about Money
    MCMoney               its constants for TLC

### SequenceCrdt

`seq[r]` is the copy of replica `r`: the fields `data`, `permissions` and `owners`
of `SequenceCrdt`, each an `LSeq`. `live` are the replicas that hold a copy, `ops`
every operation that was ever returned by a local write, and `applied[r]`
(history) those that `r` has applied, itself or when they were delivered.

| Action | Code |
|---|---|
| `Init` | each writer calls `new_pub` or `new_private` with its own key |
| `Copy(r, s)` | `Clone`, or a `SequenceWrite::New` message with the whole Sequence |
| `AppendEntry` | `Data::append` |
| `SetPubPermissions`, `SetPrivatePermissions` | the calls of the same name, with the indices they record (`PermissionsEntry`) |
| `SetOwner` | `Data::set_owner` and `append_owner` (`OwnerEntry`) |
| `SendDelete` | an `Op::Delete` inside a `WriteOp`, which no API here creates but every `apply_crdt_*` call but one accepts |
| `ApplyCrdtOp`, `ApplyCrdtPubPermsOp`, `ApplyCrdtPrivatePermsOp`, `ApplyCrdtOwnerOp` | the calls of the same name, on any issued operation |

Delivery is `Deliver(r, op)` for any issued `op`, so operations arrive in any
order, any number of times, or never. A call on the wrong variant returns
`InvalidOperation` and changes nothing, so it is no step. The reads are operators
on one copy: `Get`, `InRange`, `Owner`, `Permissions`, `ToAbsoluteIndex`,
`CheckIsLastOwner`, `CheckPermission`. An `Option` is a set with at most one
element.

Identifiers are pairs of a position and an actor. The real ones are paths in a
tree, dense and unbounded; the model only uses that they are totally ordered,
that an append allocates one after every identifier its copy holds, and that two
actors never allocate the same one. `Positions` is the finite stand-in. Because
`append` takes the actor from the copy, a copy is written to only by the replica
that constructed it; `Copy` gives a replica that only applies operations. Writing
to a clone breaks `UniqueIds`, and the faulty `SharedActor` shows how.

`GrowOnlyLog` says what this amounts to: one growing log of writes in a fixed
order, in which every write takes a place of its own after everything its author
had seen, and views that only grow. The refinement maps the log to the issued
operations and a view to the entries of a copy.

### MapData

`map` is the Map at its handler: kind, data, permissions, version and owner.
Clients are represented by what they send: a request remembers (history) the Map
its client had read, and carries the versions that follow from it. A request stays
in `requests` for ever, so it is handled late, again, or never. A handler step is
one call of one method: the methods take `&mut self`, so they do not interleave.
`mutate_entries` of both flavours is one action, because the actions of a request
are for different keys and the order of the three loops cannot matter.
Addition on versions is modulo `U64`, the `u64` of an optimised build; a debug build
panics at that point. `accepted`, `life` and `last` are history for the properties.

Constants and histories bound the model, never a guard of the code: `MaxOps`
operations, `MaxRequests` requests, `MaxLives` inserts of a key. `workload`, chosen
at the start, says which Maps are constructed and what clients do with them.

### Keys, Messages, Envelope

These have no variables. `Keys` is ideal cryptography: a signature is a pair of key
and data, and verifies only as itself. `Combine` of a key set gives the signature of
the set from more than `Threshold` shares, each under the index of its member, and
something that verifies nowhere otherwise. A name is made of the key it stands for.

`Messages` has the constructors of every command, query, event and node message,
and the tables `error`, `authorisation_kind`, `dst_address` and `try_from!` as functions.
Payloads that no table looks at are left out. The address of a blob is a function of
its content (and owner), as in `blob.rs`.

`Envelope` is `MsgEnvelope`: `WithProxy`, `MostRecentSender`, `VerifyEnvelope`, `CmdDst`
and `Destination` are the methods of those names.

### NodeKeys

`bls[n]` and `public_bls[n]` are the two fields in which a node keeps its share, with
and without the secret. `Promote` calls `set_bls_keys` with the index of the node in
some key set, also when it has a share of another; `ClearBlsKeys` is the call of that
name. `Holder` chooses between `NodeKeypairs` and `node::FullId`, which differ in the
index that `set_bls_keys` stores. Signatures are made when the keys are read, and
proofs when the keys are read again.

### Routing

| Variable | Meaning |
|---|---|
| `scenario` | what is asked first, and by whom |
| `net` | every envelope ever sent; none is removed, so each is handled late, again, in any order, or never |
| `pending[n]` | what node `n` has signed and not yet put into an envelope: a set of nothing or one thing |
| `handled[n]` | types and ids of the messages `n` has dealt with |
| `changes` | bound: how many more promotions and demotions there are |
| `bls`, `public_bls` | from `NodeKeys` |

Elders, adults and clients are in other repositories. They are modelled as far as
the comments of this one tell, and marked external: they verify an envelope that is
addressed to them, sign what they send, add the proof, ask `authorisation_kind`
and the permissions of the client, ignore what they have dealt with, and answer
to `SenderAddress` of the origin. Everything they call is the code.

| Action | What happens |
|---|---|
| `Forward` | a Gateway elder, and then each Payment elder, signs a data command (`with_proxy`) |
| `Deny` | the first elder refuses what the client may not do |
| `Accumulate` | a Metadata elder combines the votes of Payment elders, of one key set over the same envelope, into the proof of the section |
| `ExecuteCmd` | the command is carried out, or fails and is answered |
| `ValidateTransfer`, `Agree`, `RegisterTransfer` | replicas validate a transfer, the client combines a quorum of their shares, and a replica propagates it to the payee's section |
| `AnswerQuery`, `HandleNodeMessage` | answers, follow-ups and errors of every other message |
| `FinishSend` | the proof is added from the keys as they are now, and the envelope is sent |
| `ChangeKeys` | `set_bls_keys` or `clear_bls_keys` at any time, also between the two steps of a send |

A handler is two steps, `StartSend` with the signature and `FinishSend` with the proof,
because a sender calls `sign` and then reads `public_key_set` and builds a
`BlsProofShare`; the keys may have changed meanwhile. A share with a key set that
does not fit gives an envelope that does not verify, and is lost.

The right outcomes are not computed with the tables of the code, so a wrong table
contradicts them. `Business` of `RoutingProperties` tells from what a request is about
(data, an account, a wallet, a chunk, who made it) which nodes are to deal with it and with
each message that may follow from it, `MayDo` who may make it, and `Wanted` the type its
answer is wanted for.

`CommandPath` is the abstract promise: forwarded, then agreed, then executed, each
executor once. The refinement mapping computes the three from `net` and `handled`.

### Money

`FromStr` is the parser after it has split the text: units, and a remainder with its
length; `CheckedAdd`, `CheckedSub`, `Add` of `RewardCounter` with its unchecked count.
`MaxU64` and `Power` are constants: any width, any number of decimals.

In all modules the definitions marked "Faulty" are variants of the definition after
them with a plausible mistake. They are not part of `Next`; each property is known to
fail when one of them takes the place of the original.

## 3. Runs

| Run | Question and bounds |
|---|---|
| `seq_convergence` | Two writers and a third replica that may copy either at any time, one public permissions map, two owner keys, one entry, three operations in three positions. Types; `UniqueIds`; `OwnWritesAreApplied`; `StateIsAppliedOps`; `Convergence`; `RecordedIndicesResolve`; `ImplementsLog`. Three operations are enough for two concurrent writes and one that saw only one of them; the third replica is enough for a copy between two deliveries. |
| `seq_access_public` | Two writers, three operations out of owners and three permissions maps that cover the explicit denial, the explicit `None`, `Anyone` and an absent user. `AccessIsDecidedByNewestWrites`, `StaleOpsNeverChangeAccess`. |
| `seq_private` | The same for a private Sequence, one permissions map in which two users may do different things, and three replicas; and `EventuallyEqual` under fairness. |
| `seq_removals` | `Op::Delete` for every list that has entries, four operations. `ReadsFollowTheOrder`: `get`, `last_entry` and `in_range` against the entries numbered in the order of their identifiers, for all pairs of indices up to one past the end. `EntriesOnlyLeaveByDelete`: with repeated and late deletes and inserts copies may differ, but an entry is missing only where a delete of it arrived. `PublicPermissionsOnlyGrow`. |
| `map` | Three workloads. One sequenced key, with a version that is about to wrap around, three requests out of insert, update and delete, and `take_entries`: `NoLostUpdate`. Two keys, both flavours, an owner and a user with one or two of the three permissions, which change meanwhile: `MutationIsAllOrNothing`. All five changes of permissions and owner, three requests, forced versions with gaps: `VersionsIdentifyShellChanges`, `ShellChangeSawCurrent`, `NewestOwnerWins`. `U64 = 8`: the entry versions reach the wrap-around, the shell versions do not (`map_wrap` is about that). Three requests are two that race and one that moves the version under them. |
| `routing` | Every query and command by an owner, an app with two permissions and a stranger, the transfer from validation to credit, and every message of nodes: 175 scenarios. One elder each for the Gateway, Metadata and another section, three for Payment with `Threshold = 1`: the least with two different quorums. One data command is sent while the Payment elders go through two promotions or demotions between two key sets in which they have different indices. Types and keys, `VerifiedChains`, `HandledAtHome`, `AnswersReturn`, `AnswersConvert`, `NoUnauthorisedEffect`, `CreditNeedsDebit`, the refinement `ImplementsCommandPath`, and `RequestsComplete` under fairness. |
| `seq_no_owner`, `map_successor`, `map_wrap`, `map_reinsert`, `node_index`, `money_parse` | Statements of the documentation that the code does not keep, see below. `money_parse` has two decimals and a greatest amount of 10.23, within a unit like that of the code. |

The elder sections other than Payment have one elder: a second would repeat what
the first does, since nothing there is combined. Only one request is made in a
behaviour, because ids keep requests apart: what could mix are the answers,
votes and follow-ups of that request, in all orders.

Deadlock is not checked: all parties may stop writing, and the bounds stop them.
`node_index` has no bound and no deadlock.

Six statements in the documentation of the code are refuted by a run:

- `check_permission` promises `InvalidOwners` "if the last owner is invalid"
  (`sequence/mod.rs:115`), but `or_else(|_| ...)` discards that error: without an
  owner the answer is `AccessDenied`, or what the permissions say.
- The calls without validation promise an error "if it does not match the current
  version + 1" (`map.rs:322`, `356`), but accept any greater version.
- "Version should be increased for any changes to Map fields except for data"
  (`map.rs:51`), but after such a call with the greatest `u64` the unchecked
  `self.version + 1` is 0 in an optimised build and the next change lowers it.
- `ins` promises to require the current version plus one (`map.rs:993`), but
  inserting an absent key compares nothing, so an entry that comes back may repeat
  a version it had; an update composed before the delete is then accepted.
- A `SignatureShare` is documented "with its index in the combined collection"
  (`keys/mod.rs:187`), but `node::FullId::set_bls_keys` stores index 0 for every share
  (`identity/node.rs:102`). `NodeKeypairs::set_bls_keys` is told the index, and for it
  the same property is proved.
- `ExcessiveValue` is documented for amounts above the greatest one
  (`errors.rs:80`), but `from_str` adds the remainder unchecked (`money.rs:87`), so
  such an amount, if its units alone fit, is accepted as less than one unit.

One more observation, an exception in `AnswersReturn`: an answer is addressed to the
name of the key in the origin's proof (`messaging/mod.rs:193`). For an elder that signed
with its share this is the name of the share, while nodes are found under the name
of their Ed25519 key (`node.rs:127`), so nobody receives that answer. No text in the
repository says which it should be.

### Fairness

`EventuallyEqual` is checked under `FairSpec`, weak fairness of delivery: as long as
some replica lacks an issued operation, some operation is eventually applied
that changes it. This is an assumption about the transport, which is not part of
the repository; the code supplies the other half, that every operation can be
applied in every state and once is enough. Writers are never required to write,
and a replica is never required to make a copy.

`RequestsComplete` is checked under `WF_vars(Work)`: the network does not stop while some
node or client has something to do. It is the weakest assumption on schedulers that
are not in the repository, with no fairness for any single node or message.
Changes of keys are never required. The property has a premise, that from some time
on the Payment elders include a quorum with shares of one key set: without it no
section's signature can be made, whatever the code does. Elders may go through any
changes before, with the command at any point of its path.

## 4. Proofs

All theorems hold for any values of the constants that satisfy the named assumptions
of the modules, hence for any number of replicas, operations, clients, keys,
requests, nodes and messages.

| Theorem | Statement |
|---|---|
| `TypeCorrect` | `Spec => []TypeOK` (Sequence) |
| `UniqueIdsHolds`, `OwnWritesAreAppliedHolds`, `StateIsAppliedOpsHolds`, `ConvergenceHolds`, `RecordedIndicesResolveHolds` | the invariants of those names, if `Deletes = FALSE` |
| `ImplementsLogHolds` | `Spec => ImplementsLog`, if `Deletes = FALSE` |
| `AccessIsDecidedByNewestWritesHolds`, `StaleOpsNeverChangeAccessHolds` | the properties of those names, if `Deletes = FALSE` |
| `PublicPermissionsOnlyGrowHolds`, `EntriesOnlyLeaveByDeleteHolds`, `ReadsFollowTheOrderHolds` | the properties of those names, deletes included |
| `MapTypeOKHolds` | `Spec => []MapTypeOK`, wrap-around and calls without validation included |
| `MutationIsAllOrNothingHolds` | `Spec => MutationIsAllOrNothing` |
| `VersionsIdentifyShellChangesHolds`, `NewestOwnerWinsHolds`, `ShellChangeSawCurrentHolds` | the properties of those names, from `Spec /\ []NoWrap` |
| `NoLostUpdateHolds` | `Spec /\ []EntriesNoWrap => NoLostUpdate`; the version of the Map may wrap around |
| `SignMatchesPublicKeyHolds`, `IndexLocatesShareHolds` | `KeysSpec => [] ...`, if `Holder = "NodeKeypairs"` |
| `KeysOfNetworkHold` | both of these in `Spec` of `Routing`, if `Holder = "NodeKeypairs"` |
| `VerifiedChainsHolds`, `AnswersReturnHolds`, `AnswersConvertHolds`, `NoUnauthorisedEffectHolds` | the properties of those names, for either holder of keys |
| `CreditNeedsDebitHolds`, `HandledAtHomeHolds`, `ImplementsCommandPathHolds`, `RoutingTypeOKHolds` | the properties of those names, if `Holder = "NodeKeypairs"` |
| `DataAtHomeHolds` | `Spec => []DataAtHome`, if `Holder = "NodeKeypairs"`: an authorised data command is dealt with only by elders of the section of its data |
| `ParseIsExact`, `ParseWraps` | what `from_str` accepts that fits is exact; what it accepts that does not fit comes out as less than one unit |
| `AddIsAllOrNothing` | `RewardCounter::add` changes both counters exactly (the count of work modulo its width), or nothing |

`Deletes = FALSE` says that no `Op::Delete` is on the wire; no API of the library makes
one. `NoWrap` and `EntriesNoWrap` say that a version (of the Map, of an entry) is not the
greatest `u64`; `map_wrap` is what happens without the first, and the wrap-around is in
the checked instance of `NoLostUpdate`. `Holder = "NodeKeypairs"` chooses the type that is
told its index; with `node::FullId` shares have the wrong index, as `node_index` shows.

The other hypotheses are the named assumptions, which TLC evaluates for each instance:

- `ReplicasAssumption`, `PositionsAssumption`, `KindAssumption`: replicas and positions are
  numbers, which gives the identifiers of LSEQ their total order.
- `U64Assumption`, `RequestsAssumption`, `MapsAssumption`: versions are below the width, and
  a Map is constructed with fields of their types and version 0, as `new` does.
- `ThresholdAssumption`, `MembersAssumption`, `NoneAssumption`: a threshold is a number, the
  members of a key set are nodes with an index each, and `None` is not a key.
- `NodesAssumption`: there are finitely many nodes. Quorums are counted.
- `ClientsAssumption`: clients with different names have different keys. A client is
  nothing but the holder of its key pair.
- `ScenariosAssumption`: what is asked first is one of the requests that the enums of
  `messaging/` can express, from a client a command or a query.

*Sequence, types.* `TypeOK` is not inductive: the recorded indices are lengths, and the
length of a list is a number only if the list is finite. `TypeInv` adds finiteness.
There is a lemma for each way a list changes (insert, delete, append, apply, copy).

*Convergence.* It does not follow from itself: an insert of an identifier that is
present is ignored, so equal sets of applied operations give equal lists only if no
two writes share an identifier; that holds because a writer's own copy knows every
identifier under its key (`OwnWritesAreApplied`), so that `append`, which looks at
nothing but this copy, allocates one that is new everywhere (`FreshIsUnused`).
`ConvergenceInv` is the conjunction: `TypeInv`, writers are live, all operations are
inserts, `OwnWritesAreApplied`, `UniqueIds`, `StateIsAppliedOps`. `Convergence` is then
a consequence: a copy is a function of what it has applied. With deletes the
property is false, because LSEQ keeps no record of what was deleted and an insert
that is delivered again brings the entry back; what remains true is
`EntriesOnlyLeaveByDelete`, which is inductive with `TypeInv`.

*Public histories.* The invariant `HistoryInv` adds that a replica without a copy has
empty lists, so that receiving a whole copy removes nothing; an `ApplyTo` on a
permissions list is an insert because of the pattern in `apply_crdt_pub_perms_op`.

*Refinement.* `RefinementInv` is `ConvergenceInv` with empty lists before the copy. Each
action is a `Publish` (append to the data, whose identifier is new and after all
its author knows), a `Learn` (delivery), a `CatchUp` (copy) or a stutter.

*Access.* `LastIsFromEnd`: in a finite list with unique identifiers the entry that
`get(Index::FromEnd(1))` finds is the greatest one. With `StateIsAppliedOps` it is the
newest write applied, which gives the first property. For the second, a list that
gains an entry either ends in that entry or ends as it did.

*Recorded indices.* A recorded index is the length of another list when it was recorded.
While nothing is deleted a list is as long as there are writes of it that its holder has
applied (`StateIsAppliedOps`). `IndexInv` says of all issued operations that their indices are
at most the number of all writes, which only grows; a replica that has them all has
lists of that length.

*Reads.* `ReadsFollowTheOrder` compares reads with `InOrder`, the entries of a list numbered in
the order of their identifiers. That there is such a numbering needs a proof: the rank of an
entry, the number of entries before it, is below the length, and greater for a greater
identifier, so ranks are a one-to-one map onto the numbers below the length, by counting
(`RanksAreIndices`, `OrderedExists`). In any such numbering an entry has the place its rank
gives it (`RankIsNumber`), and `get(Index::FromStart(i))` finds the entry of rank `i`. All this
asks is that no identifier occurs twice in one list (`IdsOccurOnce`), which is inductive even
with deletes, because an insert of an identifier that is present is ignored.

*Map.* `MapInv` (the shape of a Map) is enough for `MutationIsAllOrNothing`. Types need
those of the requests too, which carry versions and values to the handler (`TypesInv`);
wrapping around keeps a version in its width. `ShellInv` is
`MapInv`, `RequestsInv` (ids are unique, nothing is accepted that was not sent),
`VersionsInv`, `ReadInv` (what the client of a validated request had read is still
there, or the version has moved on) and the two invariants. `SeqInv` says the
same of one entry of a sequenced Map, for every request and key (`Foresees`): the
entry is the one its client had read, or a later version of it, or gone, or it was
inserted since.
Every step is one of three (it sends, changes the shell, or leaves both alone), so
each part is shown for three cases and not for ten actions.

*Node keys.* `KeysInv`: both fields are from one and the same share, or empty.
`KeysOfNetworkHold` carries this to `Routing`, where a step leaves the keys alone or is one
of `NodeKeys`.

*Chains.* `ChainsInv`: an envelope that verifies has a true chain, and what a node has
signed but not sent was verified. `VerifyEnvelope` gives the last link, the
invariant the ones before; sending with a proof that does not fit gives an
envelope that does not verify, of which nothing is claimed.

*What a step adds.* The other proofs about `Routing` do not go through its actions again.
`StepAdds` does so once: `Adds` lists what a step can put into the network, what a node
can begin to send and because of which envelope, and what can become handled. It needs
`Travels`: what a node is about to send on is in the network and verifies. `said` is every
message that is in an envelope or waits to be in one.

*Answers.* `AnswersInv`: an answer that is said, sent or not, has the id of a request in the
network and the address of the origin of that. The two steps of a send are why it speaks of
what is said and not of `net`. `QueriesInv`: there is one query at most, and an answer to it
has the variant that belongs to it, by the tables `error` and `try_from!` row by row.

*Authorisation.* `DeniedInv`: while the request is one its client may not make, the network
has it only as the client sent it, no node has signed it as a proxy, and all else that is
said is a refusal or an error.

*Credit.* `CreditInv`: a validation is signed by a replica of the debited key, the only
commands are the one of the scenario and the registration of agreed transfers, and nothing
but a valid agreement is propagated. That more than `Threshold` shares stand for as many
replicas is `QuorumOfShares`: the indices of the shares are the image of the replicas that made
them, and here the index in a share has to be the one of its key.

*Path.* `PathInv` says of each envelope of the data command which of the four on the
path it is: as sent, with a Gateway elder added, with a Payment elder added to such a one,
or with the signature of the Payment section. Of the last it says that if it verifies,
`agreed` is true. That is `QuorumOfVotes`, like `QuorumOfShares` for the votes that
`Accumulate` combines. It says that what waits in `pending` is signed with a key of that
node, for otherwise a vote would not tell who made it. `forwarded` and `agreed` stay true
because `net` only grows; `agreed` is only reached from an envelope that came through the
Gateway; and who deals with an authorised data command has received the fourth, which
`cmd_dst` addresses to the section of the data. The same invariant gives `DataAtHome`, and with
`CountsInv` the types: no envelope on its path has more than two proxies.

*Homes.* `HandledAtHome` is shown for each type of message. A query is the first message,
and `QueryDst` agrees with `QueryName` row by row. A command of a client is the first, or the
registration of a transfer, which names the same debited key. Where a data command goes depends
on its path: `DealingWithData` has it at the section of the data if its client may change the
data, and by `DeniedInv` it is still as its client sent it, and goes to the client's own
section, if not. What nodes say needs an invariant. `OriginsInv` tells who made each request:
the sender of the scenario, or a node whose business it was to ask for chunks or to have a
transfer credited. It speaks of what waits in `pending` too, and of an elder that signed with
its share it claims nothing, because no node has the name of a share (`NamesTell`). `Placed`
then says that the address of each answer, error and event is that of its business, whoever
said it and however late.

Only model-checked is liveness under fairness, `EventuallyEqual` and `RequestsComplete`, which
is out of the prover's reach. Every invariant and every action property of a passing run, and
both refinements, are stated by a theorem.

## 5. Plan

Done: Sequence, Map, node keys, envelopes and messages along their paths, money; the
two refinements; the theorems above, which state every safety property of the passing runs.
What could follow, in this order:

1. The premise of `RequestsComplete` reduced to safety: in a state where no node or client
   has anything left to do and the Payment elders are a quorum, the request is finished. Such a
   theorem needs no fairness, but speaks of `ENABLED Work`.
2. The count of work of `RewardCounter` at its greatest value, and the `u8` version in
   `EntryError`, once the documentation says what they should do.

## 6. Not modelled

- Cryptography, hashing, serialisation, z-base-32, key generation (also the search
  for a name within a range): pure functions of libraries. A key is an element of
  a set, a name is the key it stands for.
- `Display`, `Debug`, ordering and hashing of every type; size limits of blobs and
  accounts: one comparison each, on immutable values.
- The getters of Map and Sequence that return a field, and the error values; among
  them `EntryError`, which carries a `u64` version truncated to `u8`
  (`map.rs:609`, `627`, `646`).
- Who may call what on a value: Map and Sequence offer `check_permission(s)`, and the
  data handler, in another repository, calls it before a write. `mutate_entries` is
  the one operation that checks by itself, and is modelled with its check.
- `SequenceWrite::Delete`, `MapWrite::New` and `MapWrite::Delete` as changes of a value: they
  create or remove it at its handler, and no code here carries them out. Their
  way there is part of `Routing`.
- The claims of rewards among node messages, and the `KnownGroupAdded` event: no
  table of the code depends on them in a way that other messages do not show.
- `TransferRegistered`, `TransferPropagated`: stored by replicas in another repository.
- The count of work in `RewardCounter` wraps unchecked at the greatest `u64`
  (`rewards.rs:38`); `AddIsAllOrNothing` states the sum, no run counts that far.
- `ops.rs`: not compiled.
