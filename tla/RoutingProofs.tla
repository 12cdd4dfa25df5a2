----------------------------- MODULE RoutingProofs -----------------------------
(***************************************************************************)
(* Proofs about messages on their way, for any nodes, clients, sections    *)
(* and messages, while elders come and go.  An envelope that verifies has  *)
(* true signatures only, and the keys of nodes stay consistent.  From what *)
(* a step can add to the network (Adds) it follows that answers return to  *)
(* who asked and can be converted, that nothing comes of a request its     *)
(* client may not make, and that money is credited only after it was       *)
(* debited.                                                                *)
(***************************************************************************)
EXTENDS RoutingProperties, NodeKeysProofs, SequenceTheorems, FiniteSetTheorems

-----------------------------------------------------------------------------
\* Envelopes and their chains of signatures

IsEnvelope(e) ==
    /\ e = [message |-> e.message, origin |-> e.origin, proxies |-> e.proxies]
    /\ \E S : e.proxies \in Seq(S)

\* Three fields make an envelope.
LEMMA FieldsMakeEnvelope ==
    ASSUME NEW m, NEW o, NEW p, NEW S, p \in Seq(S)
    PROVE  IsEnvelope([message |-> m, origin |-> o, proxies |-> p])
BY DEF IsEnvelope

\* What the two ways to look back at an envelope return.
LEMMA BeforeIs ==
    ASSUME NEW e, IsEnvelope(e), NEW i
    PROVE  Before(e, i) = [message |-> e.message, origin |-> e.origin,
                           proxies |-> SubSeq(e.proxies, 1, i - 1)]
<1>1. ASSUME NEW m, NEW o, NEW p
      PROVE  Before([message |-> m, origin |-> o, proxies |-> p], i)
               = [message |-> m, origin |-> o, proxies |-> SubSeq(p, 1, i - 1)]
  <2> DEFINE r == [message |-> m, origin |-> o, proxies |-> p]
             q(x) == SubSeq(x, 1, i - 1)
  <2>1. Before(r, i) = [r EXCEPT !.proxies = q(@)]
    BY DEF Before
  <2>2. r.proxies = p
    OBVIOUS
  <2> HIDE DEF q
  <2>3. [r EXCEPT !.proxies = q(@)] = [message |-> m, origin |-> o, proxies |-> q(p)]
    OBVIOUS
  <2>4. QED
    BY <2>1, <2>3 DEF q
<1>2. e = [message |-> e.message, origin |-> e.origin, proxies |-> e.proxies]
  BY DEF IsEnvelope
<1>3. Before([message |-> e.message, origin |-> e.origin, proxies |-> e.proxies], i)
        = [message |-> e.message, origin |-> e.origin, proxies |-> SubSeq(e.proxies, 1, i - 1)]
  BY <1>1
<1>4. QED
  BY <1>2, <1>3, Zenon

LEMMA WithoutLastIs ==
    ASSUME NEW e, IsEnvelope(e)
    PROVE  WithoutLast(e) = [message |-> e.message, origin |-> e.origin,
                             proxies |-> SubSeq(e.proxies, 1, Len(e.proxies) - 1)]
<1> DEFINE m == e.message  o == e.origin  p == e.proxies
<1>1. e = [message |-> m, origin |-> o, proxies |-> p]
  BY DEF IsEnvelope
<1>2. [[message |-> m, origin |-> o, proxies |-> p]
         EXCEPT !.proxies = SubSeq(@, 1, Len(@) - 1)]
        = [message |-> m, origin |-> o, proxies |-> SubSeq(p, 1, Len(p) - 1)]
  OBVIOUS
<1>3. QED
  BY <1>1, <1>2 DEF WithoutLast

\* What an envelope is after a proxy has added itself.
LEMMA ProxyAdded ==
    ASSUME NEW e, IsEnvelope(e), NEW s, NEW f, f = WithProxy(e, s)
    PROVE  /\ IsEnvelope(f) /\ f.message = e.message /\ f.origin = e.origin
           /\ f.proxies = Append(e.proxies, s) /\ f.proxies # <<>>
           /\ Len(e.proxies) \in Nat /\ Len(f.proxies) = Len(e.proxies) + 1
           /\ f.proxies[1] = IF e.proxies = <<>> THEN s ELSE e.proxies[1]
           /\ MostRecentSender(f) = s /\ WithoutLast(f) = e /\ Signed(f) = e
<1> DEFINE ps == e.proxies
           qs == Append(ps, s)
<1>1. PICK S : ps \in Seq(S)
  BY DEF IsEnvelope
<1> DEFINE T == S \cup {s}
<1>2. ps \in Seq(T) /\ s \in T
  BY <1>1, SeqMonotonic
<1>3. /\ qs \in Seq(T) /\ Len(qs) = Len(ps) + 1 /\ Len(ps) \in Nat
      /\ \A i \in 1 .. Len(ps) : qs[i] = ps[i]
      /\ qs[Len(ps) + 1] = s
  BY <1>2, AppendProperties, LenProperties
<1>4. f = [message |-> e.message, origin |-> e.origin, proxies |-> qs]
  BY DEF IsEnvelope, WithProxy
<1>5. IsEnvelope(f) /\ f.message = e.message /\ f.origin = e.origin /\ f.proxies = qs
  BY <1>3, <1>4 DEF IsEnvelope
<1>6. qs # <<>> /\ (ps = <<>> <=> Len(ps) = 0)
  BY <1>2, <1>3, EmptySeq
<1>7. qs[1] = IF ps = <<>> THEN s ELSE ps[1]
  BY <1>3, <1>6
<1>8. MostRecentSender(f) = s
  BY <1>3, <1>5, <1>6 DEF MostRecentSender
<1>9. SubSeq(qs, 1, Len(ps)) = ps
  <2>1. \A i \in 1 .. Len(ps) : qs[i] \in T /\ qs[i] = ps[i]
    BY <1>2, <1>3, ElementOfSeq
  <2>2. Len(ps) \in Int /\ 1 \in Int
    BY <1>3
  <2> HIDE DEF qs, ps, T
  <2>3. /\ SubSeq(qs, 1, Len(ps)) \in Seq(T)
        /\ Len(SubSeq(qs, 1, Len(ps))) = IF 1 <= Len(ps) THEN Len(ps) - 1 + 1 ELSE 0
        /\ \A i \in 1 .. Len(ps) - 1 + 1 : SubSeq(qs, 1, Len(ps))[i] = qs[1 + i - 1]
    BY <2>1, <2>2, SubSeqProperties
  <2>4. /\ Len(SubSeq(qs, 1, Len(ps))) = Len(ps)
        /\ \A i \in 1 .. Len(SubSeq(qs, 1, Len(ps))) : SubSeq(qs, 1, Len(ps))[i] = ps[i]
    BY <1>3, <2>1, <2>3
  <2>5. QED
    BY <1>2, <2>3, <2>4, SeqEqual
<1>10. WithoutLast(f) = e
  <2>1. Len(f.proxies) - 1 = Len(ps)
    BY <1>3, <1>5
  <2>2. e = [message |-> e.message, origin |-> e.origin, proxies |-> ps]
    BY DEF IsEnvelope
  <2> HIDE DEF qs, ps
  <2>3. WithoutLast(f) = [message |-> f.message, origin |-> f.origin,
                          proxies |-> SubSeq(f.proxies, 1, Len(f.proxies) - 1)]
    BY <1>5, WithoutLastIs
  <2>4. QED
    BY <1>5, <1>9, <2>1, <2>2, <2>3, Zenon
<1>11. Signed(f) = e
  BY <1>5, <1>6, <1>10 DEF Signed
<1>12. QED
  BY <1>3, <1>5, <1>6, <1>7, <1>8, <1>10, <1>11

\* A sender that adds itself to a true chain makes one that is true if it verifies.
LEMMA AddToChain ==
    ASSUME NEW e, IsEnvelope(e), Chain(e), NEW s
    PROVE  /\ IsEnvelope(WithProxy(e, s))
           /\ VerifyEnvelope(WithProxy(e, s)) => Chain(WithProxy(e, s))
<1> DEFINE ps == e.proxies
           f == WithProxy(e, s)
           qs == Append(ps, s)
<1>1. PICK S : ps \in Seq(S)
  BY DEF IsEnvelope
<1> DEFINE T == S \cup {s}
<1>2. ps \in Seq(T) /\ s \in T
  BY <1>1, SeqMonotonic
<1>3. /\ qs \in Seq(T) /\ Len(qs) = Len(ps) + 1 /\ Len(ps) \in Nat
      /\ \A i \in 1 .. Len(ps) : qs[i] = ps[i]
      /\ qs[Len(ps) + 1] = s
  BY <1>2, AppendProperties, LenProperties
<1>4. f = [message |-> e.message, origin |-> e.origin, proxies |-> qs]
  BY DEF IsEnvelope, WithProxy
<1>5. IsEnvelope(f)
  BY <1>3, <1>4 DEF IsEnvelope
<1>6. \A i \in 1 .. Len(ps) + 1 : SubSeq(qs, 1, i - 1) = SubSeq(ps, 1, i - 1)
  <2> SUFFICES ASSUME NEW i \in 1 .. Len(ps) + 1
               PROVE  SubSeq(qs, 1, i - 1) = SubSeq(ps, 1, i - 1)
    OBVIOUS
  <2>1. \A j \in 1 .. i - 1 : qs[j] = ps[j] /\ ps[j] \in T
    BY <1>2, <1>3, ElementOfSeq
  <2>2. /\ SubSeq(qs, 1, i - 1) \in Seq(T) /\ SubSeq(ps, 1, i - 1) \in Seq(T)
        /\ Len(SubSeq(qs, 1, i - 1)) = i - 1 /\ Len(SubSeq(ps, 1, i - 1)) = i - 1
        /\ \A j \in 1 .. i - 1 : /\ SubSeq(qs, 1, i - 1)[j] = qs[j]
                                 /\ SubSeq(ps, 1, i - 1)[j] = ps[j]
    <3>1. i - 1 \in Int /\ 1 \in Int /\ i - 1 >= 0
      BY <1>3
    <3>2. \A j \in 1 .. i - 1 : qs[j] \in T /\ ps[j] \in T
      BY <2>1
    <3> HIDE DEF qs, ps, T
    <3>3. /\ SubSeq(qs, 1, i - 1) \in Seq(T)
          /\ Len(SubSeq(qs, 1, i - 1)) = IF 1 <= i - 1 THEN (i - 1) - 1 + 1 ELSE 0
          /\ \A j \in 1 .. (i - 1) - 1 + 1 : SubSeq(qs, 1, i - 1)[j] = qs[1 + j - 1]
      BY <3>1, <3>2, SubSeqProperties
    <3>4. /\ SubSeq(ps, 1, i - 1) \in Seq(T)
          /\ Len(SubSeq(ps, 1, i - 1)) = IF 1 <= i - 1 THEN (i - 1) - 1 + 1 ELSE 0
          /\ \A j \in 1 .. (i - 1) - 1 + 1 : SubSeq(ps, 1, i - 1)[j] = ps[1 + j - 1]
      BY <3>1, <3>2, SubSeqProperties
    <3>5. QED
      BY <3>1, <3>3, <3>4
  <2>3. QED
    BY <2>1, <2>2, SeqEqual
<1>7. SubSeq(ps, 1, Len(ps)) = ps
  BY <1>2, SubSeqFull
<1>8. \A i \in 1 .. Len(ps) + 1 :
        Before(f, i) = Before(e, i)
  BY <1>4, <1>5, <1>6, BeforeIs
<1>9. Before(f, Len(ps) + 1) = e
  <2>1. (Len(ps) + 1) - 1 = Len(ps) /\ Len(ps) + 1 \in 1 .. Len(ps) + 1
    BY <1>3
  <2>2. SubSeq(qs, 1, Len(ps)) = ps
    BY <1>6, <1>7, <2>1
  <2>3. f.message = e.message /\ f.origin = e.origin /\ f.proxies = qs
    BY <1>4
  <2>4. e = [message |-> e.message, origin |-> e.origin, proxies |-> ps]
    BY DEF IsEnvelope
  <2> HIDE DEF f, qs, ps
  <2>5. Before(f, Len(ps) + 1)
          = [message |-> f.message, origin |-> f.origin,
             proxies |-> SubSeq(f.proxies, 1, (Len(ps) + 1) - 1)]
    BY <1>5, BeforeIs
  <2>6. QED
    BY <2>1, <2>2, <2>3, <2>4, <2>5, Zenon
<1>10. ASSUME VerifyEnvelope(f)
       PROVE  RawVerify(SenderId(s), SenderSignature(s).sig, e)
  BY <1>10, ProxyAdded DEF VerifyEnvelope, Verify
<1>11. ASSUME VerifyEnvelope(f), NEW i \in DOMAIN f.proxies
       PROVE  RawVerify(SenderId(f.proxies[i]), SenderSignature(f.proxies[i]).sig, Before(f, i))
  <2>1. i \in 1 .. Len(ps) + 1 /\ f.proxies = qs
    BY <1>3, <1>4, <1>11, LenProperties
  <2>2. CASE i = Len(ps) + 1
    BY <1>3, <1>9, <1>10, <1>11, <2>1, <2>2
  <2>3. CASE i # Len(ps) + 1
    <3>1. i \in 1 .. Len(ps) /\ i \in DOMAIN ps
      BY <1>2, <1>3, <2>1, <2>3, LenProperties
    <3>2. qs[i] = ps[i]
      BY <1>3, <3>1
    <3>3. QED
      BY <1>8, <2>1, <3>1, <3>2 DEF Chain
  <2>4. QED
    BY <2>2, <2>3
<1>12. RawVerify(SenderId(f.origin), SenderSignature(f.origin).sig, f.message)
  BY <1>4 DEF Chain
<1>13. QED
  BY <1>5, <1>11, <1>12 DEF Chain

\* An envelope without proxies.
LEMMA NewChain ==
    ASSUME NEW m, NEW s
    PROVE  /\ IsEnvelope(NewEnvelope(m, s))
           /\ VerifyEnvelope(NewEnvelope(m, s)) => Chain(NewEnvelope(m, s))
<1>1. NewEnvelope(m, s) = [message |-> m, origin |-> s, proxies |-> <<>>]
  BY DEF NewEnvelope
<1>2. IsEnvelope(NewEnvelope(m, s))
  <2>1. <<>> \in Seq({})
    BY EmptySeq
  <2>2. QED
    BY <1>1, <2>1 DEF IsEnvelope
<1>3. QED
  BY <1>1, <1>2 DEF VerifyEnvelope, Verify, Chain, MostRecentSender, Signed

\* Taking the last sender away keeps the rest.
LEMMA ChainWithoutLast ==
    ASSUME NEW e, IsEnvelope(e), Chain(e)
    PROVE  IsEnvelope(WithoutLast(e)) /\ Chain(WithoutLast(e))
<1> DEFINE ps == e.proxies
           n == Len(ps) - 1
           rs == SubSeq(ps, 1, n)
<1>1. PICK S : ps \in Seq(S)
  BY DEF IsEnvelope
<1>2. Len(ps) \in Nat /\ DOMAIN ps = 1 .. Len(ps) /\ \A i \in 1 .. n : ps[i] \in S
  BY <1>1, LenProperties, ElementOfSeq
<1>3. /\ rs \in Seq(S)
      /\ Len(rs) = IF 1 <= n THEN n ELSE 0
      /\ \A i \in 1 .. n : rs[i] = ps[i]
  <2>1. n \in Int /\ 1 \in Int
    BY <1>2
  <2>2. \A i \in 1 .. n : ps[i] \in S
    BY <1>2
  <2> HIDE DEF n, ps
  <2>3. /\ SubSeq(ps, 1, n) \in Seq(S)
        /\ Len(SubSeq(ps, 1, n)) = IF 1 <= n THEN n - 1 + 1 ELSE 0
        /\ \A i \in 1 .. n - 1 + 1 : SubSeq(ps, 1, n)[i] = ps[1 + i - 1]
    BY <2>1, <2>2, SubSeqProperties
  <2>4. QED
    BY <2>1, <2>3
<1>4. /\ WithoutLast(e) = [message |-> e.message, origin |-> e.origin, proxies |-> rs]
      /\ IsEnvelope(WithoutLast(e))
  <2>1. WithoutLast(e) = [message |-> e.message, origin |-> e.origin, proxies |-> rs]
    BY WithoutLastIs
  <2>2. IsEnvelope([message |-> e.message, origin |-> e.origin, proxies |-> rs])
    BY <1>3, FieldsMakeEnvelope
  <2>3. QED
    BY <2>1, <2>2, Zenon
<1>5. DOMAIN rs = 1 .. Len(rs) /\ \A i \in DOMAIN rs : i \in 1 .. n /\ i \in DOMAIN ps
  BY <1>2, <1>3, LenProperties
<1>6. \A i \in DOMAIN rs : SubSeq(rs, 1, i - 1) = SubSeq(ps, 1, i - 1)
  <2> SUFFICES ASSUME NEW i \in DOMAIN rs
               PROVE  SubSeq(rs, 1, i - 1) = SubSeq(ps, 1, i - 1)
    OBVIOUS
  <2>1. i - 1 \in Int /\ i - 1 >= 0 /\ 1 \in Int /\ \A j \in 1 .. i - 1 : j \in 1 .. n
    BY <1>2, <1>5
  <2>2. \A j \in 1 .. i - 1 : rs[j] = ps[j] /\ rs[j] \in S /\ ps[j] \in S
    BY <1>2, <1>3, <2>1
  <2> HIDE DEF rs, ps, n
  <2>3. /\ SubSeq(rs, 1, i - 1) \in Seq(S)
        /\ Len(SubSeq(rs, 1, i - 1)) = IF 1 <= i - 1 THEN (i - 1) - 1 + 1 ELSE 0
        /\ \A j \in 1 .. (i - 1) - 1 + 1 : SubSeq(rs, 1, i - 1)[j] = rs[1 + j - 1]
    BY <2>1, <2>2, SubSeqProperties
  <2>4. /\ SubSeq(ps, 1, i - 1) \in Seq(S)
        /\ Len(SubSeq(ps, 1, i - 1)) = IF 1 <= i - 1 THEN (i - 1) - 1 + 1 ELSE 0
        /\ \A j \in 1 .. (i - 1) - 1 + 1 : SubSeq(ps, 1, i - 1)[j] = ps[1 + j - 1]
    BY <2>1, <2>2, SubSeqProperties
  <2>5. \A j \in 1 .. Len(SubSeq(rs, 1, i - 1)) :
          SubSeq(rs, 1, i - 1)[j] = SubSeq(ps, 1, i - 1)[j]
    BY <2>1, <2>2, <2>3, <2>4
  <2>6. Len(SubSeq(rs, 1, i - 1)) = Len(SubSeq(ps, 1, i - 1))
    BY <2>3, <2>4
  <2>7. QED
    BY <2>3, <2>4, <2>5, <2>6, SeqEqual
<1>7. \A i \in DOMAIN rs :
        Before(WithoutLast(e), i) = Before(e, i)
  BY <1>4, <1>6, BeforeIs
<1>8. \A i \in DOMAIN rs : rs[i] = ps[i] /\ i \in DOMAIN ps
  BY <1>3, <1>5
<1>9. Chain(WithoutLast(e))
  <2> DEFINE r == WithoutLast(e)
  <2>1. r.message = e.message /\ r.origin = e.origin /\ r.proxies = rs
    BY <1>4
  <2>2. \A i \in DOMAIN rs :
          RawVerify(SenderId(rs[i]), SenderSignature(rs[i]).sig, Before(r, i))
    BY <1>7, <1>8 DEF Chain
  <2>3. RawVerify(SenderId(r.origin), SenderSignature(r.origin).sig, r.message)
    BY <2>1 DEF Chain
  <2>4. Chain(r)
    <3> HIDE DEF r, rs
    <3>1. QED
      BY <2>1, <2>2, <2>3 DEF Chain
  <2>5. QED
    BY <2>4
<1>10. QED
  BY <1>4, <1>9

-----------------------------------------------------------------------------
\* Every envelope that verifies has a true chain, and so has what a node is about to
\* send on: nobody takes an envelope in hand that does not verify.
Sent(e) == IsEnvelope(e) /\ (VerifyEnvelope(e) => Chain(e))

Held(data) == "proxies" \in DOMAIN data => IsEnvelope(data) /\ Chain(data)

HeldBy(n) == \A p \in pending[n] : Held(p.data)

ChainsInv ==
    /\ \A e \in net : Sent(e)
    /\ pending = [n \in Nodes |-> pending[n]]
    /\ \A n \in Nodes : HeldBy(n)

\* Messages that are not yet in an envelope.
LEMMA MessagesAreHeld ==
    ASSUME NEW a, NEW b, NEW c
    PROVE  /\ Held(CmdError(a, b, c)) /\ Held(QueryResponse(a, b, c))
           /\ Held(NodeQueryResponse(a, b, c)) /\ Held(NodeCmdError(a, b, c))
           /\ Held(Event(a, b)) /\ Held(NodeEvent(a, b))
           /\ Held(NodeCmd(a, b)) /\ Held(NodeQuery(a, b))
BY DEF Held, CmdError, QueryResponse, NodeQueryResponse, NodeCmdError, Event, NodeEvent,
       NodeCmd, NodeQuery

LEMMA FollowUpsAreHeld ==
    ASSUME NEW n, NEW e, NEW m \in FollowUps(n, e) \cup Failures(e)
    PROVE  Held(m)
<1>1. \/ \E a, b, c : m = NodeQueryResponse(a, b, c) \/ m = NodeCmdError(a, b, c)
      \/ \E a, b : m = NodeEvent(a, b) \/ m = NodeQuery(a, b) \/ m = NodeCmd(a, b)
  BY DEF FollowUps, Failures
<1>2. QED
  BY <1>1, MessagesAreHeld

LEMMA StartKeeps ==
    ASSUME ChainsInv, NEW n \in Nodes, NEW duty, NEW data, Held(data),
           StartSend(n, duty, data), net' = net
    PROVE  ChainsInv'
<1>1. /\ pending' = [pending EXCEPT ![n] =
                       {[duty |-> duty, data |-> data, signature |-> Sign(n, data)]}]
      /\ pending = [m \in Nodes |-> pending[m]]
  BY DEF StartSend, ChainsInv
<1>2. /\ pending' = [m \in Nodes |-> pending'[m]]
      /\ \A p \in pending'[n] : p.data = data
      /\ \A m \in Nodes : m # n => pending'[m] = pending[m]
  BY <1>1
<1>3. \A m \in Nodes : HeldBy(m)'
  BY <1>2 DEF ChainsInv, HeldBy, Held
<1>4. \A e \in net' : Sent(e)
  BY DEF ChainsInv
<1>5. QED
  BY <1>2, <1>3, <1>4 DEF ChainsInv, Sent, IsEnvelope, Chain

\* What is sent to the network.
LEMMA SendKeeps ==
    ASSUME ChainsInv, NEW e, Sent(e), net' \subseteq net \cup {e}, UNCHANGED pending
    PROVE  ChainsInv'
<1>1. \A d \in net' : Sent(d)
  BY DEF ChainsInv
<1>2. \A n \in Nodes : HeldBy(n)'
  BY DEF ChainsInv, HeldBy
<1>3. QED
  BY <1>1, <1>2 DEF ChainsInv

LEMMA ExtendIsSent ==
    ASSUME NEW data, Held(data), NEW s
    PROVE  Sent(Extend(data, s))
<1>1. CASE "proxies" \in DOMAIN data
  <2>1. Extend(data, s) = WithProxy(data, s) /\ IsEnvelope(data) /\ Chain(data)
    BY <1>1 DEF Extend, Held
  <2>2. QED
    BY <2>1, AddToChain DEF Sent
<1>2. CASE "proxies" \notin DOMAIN data
  <2>1. Extend(data, s) = NewEnvelope(data, s)
    BY <1>2 DEF Extend
  <2>2. QED
    BY <2>1, NewChain DEF Sent
<1>3. QED
  BY <1>1, <1>2

\* A node finishes what it has begun: the chain grows, or breaks and does not verify.
LEMMA FinishSendKeeps ==
    ASSUME ChainsInv, NEW n \in Nodes, FinishSend(n)
    PROVE  ChainsInv'
<1>0. PICK p \in pending[n] :
        /\ net' = IF p.signature.type = "BlsShare" /\ PublicKeySet(n) = None THEN net
                  ELSE net \cup {Extend(p.data, NodeSender(p.duty, ProofOf(n, p.signature)))}
        /\ pending' = [pending EXCEPT ![n] = {}]
  BY DEF FinishSend
<1> DEFINE e == Extend(p.data, NodeSender(p.duty, ProofOf(n, p.signature)))
<1>1. net' \subseteq net \cup {e}
  BY <1>0
<1>2. Sent(e)
  BY <1>1, ExtendIsSent DEF ChainsInv, HeldBy
<1> HIDE DEF e
<1>3. \A d \in net' : Sent(d)
  BY <1>1, <1>2 DEF ChainsInv
<1>4. \A m \in Nodes : HeldBy(m)'
  BY <1>0 DEF ChainsInv, HeldBy
<1>5. QED
  BY <1>0, <1>3, <1>4 DEF ChainsInv

\* The other steps of a node begin with an envelope that verifies.
LEMMA HandleKeeps ==
    ASSUME ChainsInv, NEW n \in Nodes, Handle(n)
    PROVE  ChainsInv'
<1>1. PICK e \in net :
        /\ Receives(n, e)
        /\ \/ Forward(n, e) \/ Deny(n, e) \/ Accumulate(n, e) \/ ExecuteCmd(n, e)
           \/ ValidateTransfer(n, e) \/ RegisterTransfer(n, e)
           \/ AnswerQuery(n, e) \/ HandleNodeMessage(n, e)
  BY DEF Handle
<1>2. IsEnvelope(e) /\ Chain(e)
  BY <1>1 DEF ChainsInv, Sent, Receives
<1>3. ASSUME Refuse(n, e), net' = net
      PROVE  ChainsInv'
  BY <1>3, StartKeeps, MessagesAreHeld DEF Refuse
<1>4. CASE Forward(n, e)
  <2>1. PICK duty : StartSend(n, duty, e) /\ net' = net
    BY <1>4 DEF Forward
  <2>2. Held(e)
    BY <1>2 DEF Held
  <2>3. QED
    BY <2>1, <2>2, StartKeeps
<1>5. CASE Deny(n, e)
  BY <1>3, <1>5 DEF Deny
<1>6. CASE Accumulate(n, e)
  <2>1. PICK s : net' = net \cup {WithProxy(WithoutLast(e), s)} /\ pending' = pending
    BY <1>6 DEF Accumulate
  <2>2. Sent(WithProxy(WithoutLast(e), s))
    BY <1>2, ChainWithoutLast, AddToChain DEF Sent
  <2>3. QED
    BY <2>1, <2>2, SendKeeps
<1>7. CASE ExecuteCmd(n, e)
  <2>1. net' = net /\ (pending' = pending \/ Refuse(n, e))
    BY <1>7 DEF ExecuteCmd
  <2>2. CASE pending' = pending
    BY <2>1, <2>2 DEF ChainsInv, HeldBy
  <2>3. QED
    BY <1>3, <2>1, <2>2
<1>8. CASE ValidateTransfer(n, e)
  <2>1. /\ net' = net
        /\ \/ Refuse(n, e)
           \/ \E a, b : StartSend(n, "Transfer", Event(a, b))
    BY <1>8 DEF ValidateTransfer
  <2>2. QED
    BY <1>3, <2>1, StartKeeps, MessagesAreHeld
<1>9. CASE RegisterTransfer(n, e)
  <2>1. /\ net' = net
        /\ \/ Refuse(n, e)
           \/ \E a, b : StartSend(n, "Transfer", NodeCmd(a, b))
    BY <1>9 DEF RegisterTransfer
  <2>2. QED
    BY <1>3, <2>1, StartKeeps, MessagesAreHeld
<1>10. CASE AnswerQuery(n, e)
  <2>1. net' = net /\ \E a, b, c : StartSend(n, "Metadata", QueryResponse(a, b, c))
    BY <1>10 DEF AnswerQuery
  <2>2. QED
    BY <2>1, StartKeeps, MessagesAreHeld
<1>11. CASE HandleNodeMessage(n, e)
  <2>1. /\ net' = net
        /\ \/ pending' = pending
           \/ \E m \in FollowUps(n, e) \cup Failures(e) : StartSend(n, "Adult", m)
    BY <1>11 DEF HandleNodeMessage
  <2>2. CASE pending' = pending
    BY <2>1, <2>2 DEF ChainsInv, HeldBy
  <2>3. QED
    BY <2>1, <2>2, StartKeeps, FollowUpsAreHeld
<1>12. QED
  BY <1>1, <1>4, <1>5, <1>6, <1>7, <1>8, <1>9, <1>10, <1>11

LEMMA AgreeKeeps ==
    ASSUME ChainsInv, NEW c, Agree(c)
    PROVE  ChainsInv'
<1>1. PICK m : net' = net \cup {ClientEnvelope(c, m)} /\ pending' = pending
  BY DEF Agree
<1>2. PICK s : ClientEnvelope(c, m) = NewEnvelope(m, s)
  BY DEF ClientEnvelope
<1>3. Sent(ClientEnvelope(c, m))
  BY <1>2, NewChain DEF Sent
<1>4. QED
  BY <1>1, <1>3, SendKeeps

LEMMA ChainsInit == Init => ChainsInv
<1> SUFFICES ASSUME Init PROVE ChainsInv
  OBVIOUS
<1>1. \E m, s : FirstEnvelope(scenario) = NewEnvelope(m, s)
  BY DEF FirstEnvelope, ClientEnvelope
<1>2. Sent(FirstEnvelope(scenario))
  BY <1>1, NewChain DEF Sent
<1>3. QED
  BY <1>2 DEF Init, ChainsInv, HeldBy

LEMMA ChainsStep == ChainsInv /\ [Next]_vars => ChainsInv'
<1> SUFFICES ASSUME ChainsInv, [Next]_vars PROVE ChainsInv'
  OBVIOUS
<1>1. CASE UNCHANGED vars
  BY <1>1 DEF vars, routeVars, ChainsInv, HeldBy
<1>2. CASE Work
  BY <1>2, HandleKeeps, FinishSendKeeps, AgreeKeeps DEF Work
<1>3. ASSUME NEW n \in Changing, ChangeKeys(n)
      PROVE  ChainsInv'
  BY <1>3 DEF ChangeKeys, ChainsInv, HeldBy
<1>4. QED
  BY <1>1, <1>2, <1>3 DEF Next

\* verify (messaging/mod.rs:67) looks at one signature, yet in an envelope that
\* verifies everybody has signed what they say they have, for any sections, messages
\* and changes of keys.
THEOREM VerifiedChainsHolds == Spec => []VerifiedChains
<1>1. ChainsInv => VerifiedChains
  BY DEF ChainsInv, Sent, VerifiedChains, Verified
<1>2. QED
  BY <1>1, ChainsInit, ChainsStep, PTL DEF Spec

-----------------------------------------------------------------------------
\* The keys of nodes, as part of the network.

LEMMA KeysHoldInNetwork ==
    ASSUME Holder = "NodeKeypairs"
    PROVE  Spec => []KeysInv
<1>1. ASSUME Init PROVE KeysInv
  <2>1. /\ bls = [n \in Nodes |-> FirstShare(n)]
        /\ public_bls = [n \in Nodes |-> IF bls[n] = None THEN None ELSE bls[n].public]
    BY <1>1 DEF Init
  <2>2. ASSUME NEW n \in Nodes
        PROVE  NoShare(n) \/ \E s \in KeySets : OwnShare(n, s)
    <3> DEFINE sets == {s \in FirstKeys : n \in DOMAIN Members[s]}
               s == CHOOSE x \in sets : TRUE
    <3>1. CASE sets = {}
      BY <2>1, <3>1 DEF FirstShare, NoShare
    <3>2. CASE sets # {}
      <4>1. s \in KeySets /\ n \in DOMAIN Members[s]
        BY <3>2, NodesAssumption
      <4>2. Members[s][n] \in Indices
        BY <4>1, MembersAssumption
      <4>3. bls[n] = BlsKeypairShare(Members[s][n], BlsShare(s, Members[s][n]), s)
        BY <2>1, <3>2 DEF FirstShare
      <4>4. bls[n] # None
        BY <4>1, <4>2, <4>3, NoneAssumption
      <4>5. public_bls[n] = BlsShare(s, Members[s][n])
        BY <2>1, <4>3, <4>4 DEF BlsKeypairShare
      <4>6. OwnShare(n, s)
        BY <4>1, <4>3, <4>5 DEF Share, OwnShare
      <4>7. QED
        BY <4>1, <4>6
    <3>3. QED
      BY <3>1, <3>2
  <2>3. QED
    BY <2>1, <2>2 DEF KeysInv
<1>2. ASSUME [Next]_vars PROVE [KeysNext]_keyVars
  <2>1. CASE UNCHANGED vars
    BY <2>1 DEF vars
  <2>2. CASE Work
    BY <2>2 DEF Work, Handle, Forward, Deny, Accumulate, ExecuteCmd, ValidateTransfer,
                RegisterTransfer, AnswerQuery, HandleNodeMessage, FinishSend, Agree
  <2>3. ASSUME NEW n \in Changing, ChangeKeys(n)
        PROVE  KeysNext
    BY <2>3, NodesAssumption DEF ChangeKeys, KeysNext
  <2>4. QED
    BY <1>2, <2>1, <2>2, <2>3 DEF Next
<1>3. QED
  BY <1>1, <1>2, KeysStep, PTL DEF Spec

\* In the network too, and whenever elders are promoted and demoted while they sign:
\* a node's signature verifies under the key it shows, and the index it puts in a share
\* is the one the key set knows it by (node.rs:251, 270, 294).
THEOREM KeysOfNetworkHold ==
    ASSUME Holder = "NodeKeypairs"
    PROVE  Spec => [](SignMatchesPublicKey /\ IndexLocatesShare)
BY KeysHoldInNetwork, KeysInvSigns, KeysInvLocates, PTL

-----------------------------------------------------------------------------
\* What a step adds: to the network, and to what nodes are about to send.

\* What a node says because of an envelope that it has received.
Refusal(e) == CmdError(CmdErrorOf(e.message.cmd), e.message.id, SenderAddress(e.origin))

Validation(n, e) ==
    LET signed == e.message.cmd.cmd.payload
    IN  Event(ClientEvent(NameOf(SenderId(e.origin)),
                TransferValidated(signed, SignUsingBls(n, signed), PublicKeySet(n))), e.message.id)

Propagation(payload, id) == NodeCmd(NodeTransfer("PropagateTransfer", payload), id)

Answer(e, result, value) ==
    LET q == e.message.query
    IN  QueryResponse(Response(QueryErrors[q.enum][q.op], result, value), e.message.id,
                      SenderAddress(e.origin))

IsTransferCmd(m, op) == m.type = "Cmd" /\ m.cmd.class = "Transfer" /\ m.cmd.cmd.op = op

NodeTypes == {"NodeCmd", "NodeCmdError", "NodeEvent", "NodeQuery", "NodeQueryResponse"}

Says(n, e, m) ==
    \/ e.message.type = "Cmd" /\ m = Refusal(e)
    \/ /\ IsTransferCmd(e.message, "ValidateTransfer") /\ AuthorisedCmd(e) /\ bls[n] # None
       /\ m = Validation(n, e)
    \/ /\ IsTransferCmd(e.message, "RegisterTransfer") /\ AgreementValid(e.message.cmd.cmd.payload)
       /\ m = Propagation(e.message.cmd.cmd.payload, 3)
    \/ /\ e.message.type = "Query"
       /\ \E result \in {"Ok", "Err"} : \E value :
             /\ m = Answer(e, result, value)
             /\ result = "Ok" => Authorised(e.origin, QueryKind(e.message.query))
    \/ e.message.type \in NodeTypes /\ m \in FollowUps(n, e) \cup Failures(e)

\* The ways to pass a data command on.
Passes(e, duty) ==
    /\ IsCmd(e, "Data")
    /\ \/ MostRecentSender(e).type = "Client" /\ AuthorisedCmd(e) /\ duty = "Gateway"
       \/ /\ MostRecentSender(e).type = "Node" /\ MostRecentSender(e).duty = "Gateway"
          /\ duty = "Payment"

Begins(n, e, p) ==
    /\ p.signature = Sign(n, p.data)
    /\ \/ p.duty \in {"Metadata", "Transfer", "Adult"} /\ Says(n, e, p.data)
       \/ p.data = e /\ Passes(e, p.duty)

\* What a client makes of the validations it has.
SharesLike(c, v) ==
    {[index |-> w.replica_signature.index, share |-> w.replica_signature.sig] :
       w \in {x \in Validations(c) : /\ x.signed_transfer = v.signed_transfer
                                     /\ x.replicas = v.replicas}}

AgreementOf(c, v) ==
    DebitAgreementProof(v.signed_transfer,
      Signature("Bls", Combine(v.replicas, SharesLike(c, v), v.signed_transfer)), v.replicas)

Registration(payload) == Cmd(TransferOf(TransferCmd("RegisterTransfer", payload)), 2)

\* An envelope that was not yet in the network: a node sends what it has signed, the
\* votes of elders are put together, or a client has a transfer registered.
Sends(n, p, e) ==
    /\ ~(p.signature.type = "BlsShare" /\ PublicKeySet(n) = None)
    /\ e = Extend(p.data, NodeSender(p.duty, ProofOf(n, p.signature)))

VotesOf(e) == {ShareOf(v) : v \in VotesWith(e)}

Accumulated(e) ==
    LET set == MostRecentSender(e).proof.public_key_set
    IN  WithProxy(WithoutLast(e), SectionSender("Payment",
          BlsProof(Bls(set), Combine(set, VotesOf(e), WithoutLast(e)))))

Appears(e) ==
    \/ \E n \in Nodes : \E p \in pending[n] : Sends(n, p, e)
    \/ \E b \in net : /\ VerifyEnvelope(b) /\ IsCmd(b, "Data") /\ IsVote(b)
                      /\ Cardinality(VotesOf(b)) > Threshold /\ e = Accumulated(b)
    \/ \E c \in Clients : \E v \in Validations(c) :
          e = ClientEnvelope(c, Registration(AgreementOf(c, v)))

\* Inductive: what nodes are about to send on is in the network and verifies.
Travels ==
    /\ ChainsInv
    /\ handled = [n \in Nodes |-> handled[n]]
    /\ \A n \in Nodes : \A p \in pending[n] :
          "proxies" \in DOMAIN p.data => p.data \in net /\ VerifyEnvelope(p.data)

Adds ==
    /\ scenario' = scenario /\ net \subseteq net'
    /\ handled' = [n \in Nodes |-> handled'[n]]
    /\ \A e \in net' : e \in net \/ Appears(e)
    /\ changes' = changes \/ (changes > 0 /\ changes' = changes - 1)
    /\ \A n \in Nodes :
          \/ pending'[n] \subseteq pending[n]
          \/ /\ net' = net
             /\ \E e \in net : Receives(n, e) /\ \E p : pending'[n] = {p} /\ Begins(n, e, p)
    /\ \A n \in Nodes : \A k \in handled'[n] :
          \/ k \in handled[n]
          \/ \E e \in net : Receives(n, e) /\ k = Key(e.message)

\* Dealing with an envelope: nothing, or one message, is said because of it.
DealsWith(n, e) ==
    /\ UNCHANGED <<scenario, net, changes>> /\ Dedup(n, e.message)
    /\ \/ UNCHANGED pending
       \/ \E m, duty : /\ duty \in {"Metadata", "Transfer", "Adult"}
                       /\ Says(n, e, m) /\ StartSend(n, duty, m)

LEMMA DealingAdds ==
    ASSUME Travels, NEW n \in Nodes, NEW e \in net, Receives(n, e), DealsWith(n, e)
    PROVE  Adds
<1>1. \A m \in Nodes : \A k \in handled'[m] : k \in handled[m] \/ (m = n /\ k = Key(e.message))
  BY DEF DealsWith, Dedup, Travels
<1>2. \A m \in Nodes :
        \/ pending'[m] \subseteq pending[m]
        \/ m = n /\ \E p : pending'[m] = {p} /\ Begins(n, e, p)
  <2>1. CASE UNCHANGED pending
    BY <2>1
  <2>2. ASSUME NEW m, NEW duty \in {"Metadata", "Transfer", "Adult"}, Says(n, e, m),
               StartSend(n, duty, m)
        PROVE  \A x \in Nodes :
                 \/ pending'[x] \subseteq pending[x]
                 \/ x = n /\ \E p : pending'[x] = {p} /\ Begins(n, e, p)
    <3> DEFINE job == [duty |-> duty, data |-> m, signature |-> Sign(n, m)]
    <3>1. \A x \in Nodes : pending'[x] = IF x = n THEN {job} ELSE pending[x]
      BY <2>2 DEF StartSend, Travels, ChainsInv
    <3>2. Begins(n, e, job)
      BY <2>2 DEF Begins
    <3>3. QED
      BY <3>1, <3>2
  <2>3. QED
    BY <2>1, <2>2 DEF DealsWith
<1>3. /\ scenario' = scenario /\ net' = net /\ changes' = changes
      /\ handled' = [m \in Nodes |-> handled'[m]]
  BY DEF DealsWith, Dedup, Travels
<1>4. QED
  BY <1>1, <1>2, <1>3 DEF Adds

LEMMA HandlingIs ==
    ASSUME NEW n \in Nodes, NEW e, 
           \/ Deny(n, e) \/ ExecuteCmd(n, e) \/ ValidateTransfer(n, e) \/ RegisterTransfer(n, e)
           \/ AnswerQuery(n, e) \/ HandleNodeMessage(n, e)
    PROVE  DealsWith(n, e)
<1>1. ASSUME e.message.type = "Cmd", Refuse(n, e)
      PROVE  Says(n, e, Refusal(e)) /\ StartSend(n, "Metadata", Refusal(e))
  BY <1>1 DEF Refuse, Refusal, Says
<1>2. CASE Deny(n, e)
  BY <1>1, <1>2 DEF Deny, DealsWith
<1>3. CASE ExecuteCmd(n, e)
  <2>1. e.message.type = "Cmd"
    BY <1>3 DEF ExecuteCmd, Ready, IsCmd
  <2>2. QED
    BY <1>1, <1>3, <2>1 DEF ExecuteCmd, DealsWith
<1>4. CASE ValidateTransfer(n, e)
  <2>1. e.message.type = "Cmd" /\ UNCHANGED <<scenario, net, changes>> /\ Dedup(n, e.message)
    BY <1>4 DEF ValidateTransfer, IsCmd
  <2>2. CASE Refuse(n, e)
    BY <1>1, <2>1, <2>2 DEF DealsWith
  <2>3. CASE ~Refuse(n, e)
    <3>1. /\ IsTransferCmd(e.message, "ValidateTransfer") /\ AuthorisedCmd(e) /\ bls[n] # None
          /\ StartSend(n, "Transfer", Validation(n, e))
      BY <1>4, <2>3 DEF ValidateTransfer, IsCmd, IsTransferCmd, Validation
    <3>2. Says(n, e, Validation(n, e))
      BY <3>1 DEF Says
    <3>3. QED
      BY <2>1, <3>1, <3>2 DEF DealsWith
  <2>4. QED
    BY <2>2, <2>3
<1>5. CASE RegisterTransfer(n, e)
  <2>1. /\ e.message.type = "Cmd" /\ UNCHANGED <<scenario, net, changes>> /\ Dedup(n, e.message)
        /\ IsTransferCmd(e.message, "RegisterTransfer")
    BY <1>5 DEF RegisterTransfer, IsCmd, IsTransferCmd
  <2>2. CASE AgreementValid(e.message.cmd.cmd.payload)
    <3> DEFINE m == Propagation(e.message.cmd.cmd.payload, 3)
    <3>1. StartSend(n, "Transfer", m)
      BY <1>5, <2>2 DEF RegisterTransfer, Propagation
    <3>2. Says(n, e, m)
      BY <2>1, <2>2 DEF Says
    <3>3. QED
      BY <2>1, <3>1, <3>2 DEF DealsWith
  <2>3. CASE ~AgreementValid(e.message.cmd.cmd.payload)
    <3>1. Refuse(n, e)
      BY <1>5, <2>3 DEF RegisterTransfer
    <3>2. QED
      BY <1>1, <2>1, <3>1 DEF DealsWith
  <2>4. QED
    BY <2>2, <2>3
<1>6. CASE AnswerQuery(n, e)
  <2>1. /\ e.message.type = "Query" /\ UNCHANGED <<scenario, net, changes>>
        /\ Dedup(n, e.message)
    BY <1>6 DEF AnswerQuery
  <2>2. PICK response \in {QueryError(e.message.query, "Error")} \cup
               IF Authorised(e.origin, QueryKind(e.message.query))
               THEN {Response(QueryError(e.message.query, "Error").variant, "Ok", "Data")} ELSE {} :
            StartSend(n, "Metadata",
              QueryResponse(response, e.message.id, SenderAddress(e.origin)))
    BY <1>6 DEF AnswerQuery
  <2>3. \E result \in {"Ok", "Err"} : \E value :
          /\ QueryResponse(response, e.message.id, SenderAddress(e.origin))
               = Answer(e, result, value)
          /\ result = "Ok" => Authorised(e.origin, QueryKind(e.message.query))
    <3> DEFINE variant == QueryErrors[e.message.query.enum][e.message.query.op]
    <3>1. \/ response = Response(variant, "Err", "Error")
          \/ /\ response = Response(variant, "Ok", "Data")
             /\ Authorised(e.origin, QueryKind(e.message.query))
      BY <2>2 DEF QueryError, Response
    <3>2. QED
      BY <3>1 DEF Answer
  <2>4. Says(n, e, QueryResponse(response, e.message.id, SenderAddress(e.origin)))
    BY <2>1, <2>3 DEF Says
  <2>5. QED
    BY <2>1, <2>2, <2>4 DEF DealsWith
<1>7. CASE HandleNodeMessage(n, e)
  <2>1. /\ e.message.type \in NodeTypes /\ UNCHANGED <<scenario, net, changes>>
        /\ Dedup(n, e.message)
        /\ \/ UNCHANGED pending
           \/ \E m \in FollowUps(n, e) \cup Failures(e) : StartSend(n, "Adult", m)
    BY <1>7 DEF HandleNodeMessage, NodeTypes
  <2>2. \A m \in FollowUps(n, e) \cup Failures(e) : Says(n, e, m)
    BY <2>1 DEF Says
  <2>3. QED
    BY <2>1, <2>2 DEF DealsWith
<1>8. QED
  BY <1>2, <1>3, <1>4, <1>5, <1>6, <1>7

LEMMA ForwardAdds ==
    ASSUME Travels, NEW n \in Nodes, NEW e \in net, Receives(n, e), Forward(n, e)
    PROVE  Adds
<1>1. PICK duty : /\ Passes(e, duty) /\ StartSend(n, duty, e)
                  /\ UNCHANGED <<scenario, net, handled, changes>>
  BY DEF Forward, Passes
<1> DEFINE job == [duty |-> duty, data |-> e, signature |-> Sign(n, e)]
<1>2. \A m \in Nodes : pending'[m] = IF m = n THEN {job} ELSE pending[m]
  BY <1>1 DEF StartSend, Travels, ChainsInv
<1>3. Begins(n, e, job)
  BY <1>1 DEF Begins
<1>4. QED
  BY <1>1, <1>2, <1>3 DEF Adds, Travels

LEMMA AccumulateAdds ==
    ASSUME Travels, NEW n \in Nodes, NEW e \in net, Receives(n, e), Accumulate(n, e)
    PROVE  Adds
<1>1. /\ IsCmd(e, "Data") /\ IsVote(e) /\ Cardinality(VotesOf(e)) > Threshold
      /\ net' = net \cup {Accumulated(e)}
      /\ UNCHANGED <<scenario, pending, handled, changes>>
  BY DEF Accumulate, VotesOf, Accumulated
<1>2. VerifyEnvelope(e)
  BY DEF Receives
<1>3. QED
  BY <1>1, <1>2 DEF Adds, Appears, Travels

LEMMA AgreeAdds ==
    ASSUME Travels, NEW c \in Clients, Agree(c)
    PROVE  Adds
<1>1. PICK v \in Validations(c) :
        /\ net' = net \cup {ClientEnvelope(c, Registration(AgreementOf(c, v)))}
        /\ UNCHANGED <<scenario, pending, handled, changes>>
  BY DEF Agree, AgreementOf, SharesLike, Registration
<1>2. Appears(ClientEnvelope(c, Registration(AgreementOf(c, v))))
  BY DEF Appears
<1>3. QED
  BY <1>1, <1>2 DEF Adds, Travels

LEMMA FinishSendAdds ==
    ASSUME Travels, NEW n \in Nodes, FinishSend(n)
    PROVE  Adds
<1>1. PICK p \in pending[n] :
        /\ net' = IF p.signature.type = "BlsShare" /\ PublicKeySet(n) = None THEN net
                  ELSE net \cup {Extend(p.data, NodeSender(p.duty, ProofOf(n, p.signature)))}
        /\ pending' = [pending EXCEPT ![n] = {}]
        /\ UNCHANGED <<scenario, handled, changes>>
  BY DEF FinishSend
<1>2. \A e \in net' : e \in net \/ Sends(n, p, e)
  BY <1>1 DEF Sends
<1>3. \A m \in Nodes : pending'[m] \subseteq pending[m]
  BY <1>1 DEF Travels, ChainsInv
<1>4. net \subseteq net'
  BY <1>1
<1>5. QED
  BY <1>1, <1>2, <1>3, <1>4 DEF Adds, Appears, Travels

\* Every step of the network is one of these.
LEMMA StepAdds == Travels /\ [Next]_vars => Adds
<1> SUFFICES ASSUME Travels, [Next]_vars PROVE Adds
  OBVIOUS
<1>1. CASE UNCHANGED vars
  BY <1>1 DEF vars, routeVars, Adds, Travels
<1>2. ASSUME NEW n \in Nodes, Handle(n)
      PROVE  Adds
  <2>1. PICK e \in net :
          /\ Receives(n, e)
          /\ \/ Forward(n, e) \/ Deny(n, e) \/ Accumulate(n, e) \/ ExecuteCmd(n, e)
             \/ ValidateTransfer(n, e) \/ RegisterTransfer(n, e)
             \/ AnswerQuery(n, e) \/ HandleNodeMessage(n, e)
    BY <1>2 DEF Handle
  <2>2. CASE DealsWith(n, e)
    BY <2>1, <2>2, DealingAdds
  <2>3. QED
    BY <2>1, <2>2, HandlingIs, ForwardAdds, AccumulateAdds
<1>3. CASE Work
  BY <1>2, <1>3, FinishSendAdds, AgreeAdds DEF Work
<1>4. ASSUME NEW n \in Changing, ChangeKeys(n)
      PROVE  Adds
  BY <1>4 DEF ChangeKeys, Adds, Travels
<1>5. QED
  BY <1>1, <1>3, <1>4 DEF Next

\* A message that is said has no proxies.
LEMMA SaidIsMessage ==
    ASSUME NEW n, NEW e, NEW m, Says(n, e, m)
    PROVE  "proxies" \notin DOMAIN m
<1>1. CASE e.message.type \in NodeTypes /\ m \in FollowUps(n, e) \cup Failures(e)
  <2>1. \/ \E a, b, c : m = NodeQueryResponse(a, b, c) \/ m = NodeCmdError(a, b, c)
        \/ \E a, b : m = NodeEvent(a, b) \/ m = NodeQuery(a, b) \/ m = NodeCmd(a, b)
    BY <1>1 DEF FollowUps, Failures
  <2>2. QED
    BY <2>1 DEF NodeQueryResponse, NodeCmdError, NodeEvent, NodeQuery, NodeCmd
<1>2. CASE ~(e.message.type \in NodeTypes /\ m \in FollowUps(n, e) \cup Failures(e))
  BY <1>2 DEF Says, Refusal, Validation, Propagation, Answer, CmdError, Event, NodeCmd,
              QueryResponse
<1>3. QED
  BY <1>1, <1>2

\* Adding and taking away proxies leaves message and origin alone.
LEMMA ProxiesOnly ==
    ASSUME NEW e, IsEnvelope(e), NEW s
    PROVE  /\ WithProxy(e, s).message = e.message /\ WithProxy(e, s).origin = e.origin
           /\ WithoutLast(e).message = e.message /\ WithoutLast(e).origin = e.origin
           /\ IsEnvelope(WithoutLast(e))
BY WithoutLastIs DEF WithProxy, IsEnvelope

LEMMA TravelsInit == Init => Travels
BY ChainsInit DEF Init, Travels

LEMMA TravelsStep == Travels /\ [Next]_vars => Travels'
<1> SUFFICES ASSUME Travels, [Next]_vars PROVE Travels'
  OBVIOUS
<1>1. Adds /\ ChainsInv'
  BY StepAdds, ChainsStep DEF Travels
<1>2. ASSUME NEW n \in Nodes, NEW p \in pending'[n], "proxies" \in DOMAIN p.data
      PROVE  p.data \in net' /\ VerifyEnvelope(p.data)
  <2>1. CASE p \in pending[n]
    BY <1>1, <1>2, <2>1 DEF Adds, Travels
  <2>2. ASSUME NEW e \in net, Receives(n, e), Begins(n, e, p)
        PROVE  p.data \in net' /\ VerifyEnvelope(p.data)
    <3>1. p.data = e
      BY <1>2, <2>2, SaidIsMessage DEF Begins
    <3>2. QED
      BY <1>1, <2>2, <3>1 DEF Adds, Receives
  <2>3. QED
    BY <1>1, <2>1, <2>2 DEF Adds
<1>3. QED
  BY <1>1, <1>2 DEF Adds, Travels

LEMMA TravelsHolds == Spec => []Travels
BY TravelsInit, TravelsStep, PTL DEF Spec

\* All that is said, in envelopes or not yet.
MessageOf(data) == IF "proxies" \in DOMAIN data THEN data.message ELSE data

said == {e.message : e \in net} \cup
        UNION {{MessageOf(p.data) : p \in pending[n]} : n \in Nodes}

\* A message of a step is an old one, an answer to an old one, or a client's registration.
LEMMA SaidStep ==
    ASSUME Travels, Adds, NEW m \in said'
    PROVE  \/ m \in said
           \/ \E n \in Nodes, e \in net : Receives(n, e) /\ Says(n, e, m)
           \/ \E c \in Clients : \E v \in Validations(c) : m = Registration(AgreementOf(c, v))
<1>0. \A e \in net : e.message \in said /\ IsEnvelope(e)
  BY DEF said, Travels, ChainsInv, Sent
<1>1. ASSUME NEW e \in net', m = e.message
      PROVE  \/ m \in said
             \/ \E c \in Clients : \E v \in Validations(c) : m = Registration(AgreementOf(c, v))
  <2>1. CASE e \in net
    BY <1>0, <1>1, <2>1
  <2>2. ASSUME NEW n \in Nodes, NEW p \in pending[n], Sends(n, p, e)
        PROVE  m \in said
    <3>1. MessageOf(p.data) \in said
      BY DEF said
    <3>2. PICK s : e = Extend(p.data, s)
      BY <2>2 DEF Sends
    <3>3. e.message = MessageOf(p.data)
      <4>1. CASE "proxies" \in DOMAIN p.data
        <5>1. IsEnvelope(p.data) /\ e = WithProxy(p.data, s) /\ MessageOf(p.data) = p.data.message
          BY <1>0, <3>2, <4>1 DEF Travels, Extend, MessageOf
        <5>2. QED
          BY <5>1, ProxiesOnly
      <4>2. CASE "proxies" \notin DOMAIN p.data
        BY <3>2, <4>2 DEF Extend, MessageOf, NewEnvelope
      <4>3. QED
        BY <4>1, <4>2
    <3>4. QED
      BY <1>1, <3>1, <3>3
  <2>3. ASSUME NEW b \in net, e = Accumulated(b)
        PROVE  m \in said
    <3>1. PICK s : e = WithProxy(WithoutLast(b), s)
      BY <2>3 DEF Accumulated
    <3>2. IsEnvelope(WithoutLast(b)) /\ WithoutLast(b).message = b.message
      BY <1>0, ProxiesOnly
    <3>3. e.message = b.message
      BY <3>1, <3>2, ProxiesOnly
    <3>4. QED
      BY <1>0, <1>1, <3>3
  <2>4. ASSUME NEW c \in Clients, NEW v \in Validations(c),
               e = ClientEnvelope(c, Registration(AgreementOf(c, v)))
        PROVE  m = Registration(AgreementOf(c, v))
    BY <1>1, <2>4 DEF ClientEnvelope, NewEnvelope
  <2>5. QED
    BY <2>1, <2>2, <2>3, <2>4 DEF Adds, Appears
<1>2. ASSUME NEW n \in Nodes, NEW p \in pending'[n], m = MessageOf(p.data)
      PROVE  \/ m \in said
             \/ \E x \in Nodes, e \in net : Receives(x, e) /\ Says(x, e, m)
  <2>1. CASE p \in pending[n]
    BY <1>2, <2>1 DEF said
  <2>2. ASSUME NEW e \in net, Receives(n, e), Begins(n, e, p)
        PROVE  m \in said \/ Says(n, e, m)
    <3>1. CASE Says(n, e, p.data)
      BY <1>2, <3>1, SaidIsMessage DEF MessageOf
    <3>2. CASE p.data = e
      <4>1. "proxies" \in DOMAIN e
        BY <1>0 DEF IsEnvelope
      <4>2. QED
        BY <1>0, <1>2, <3>2, <4>1 DEF MessageOf
    <3>3. QED
      BY <2>2, <3>1, <3>2 DEF Begins
  <2>3. QED
    BY <2>1, <2>2 DEF Adds
<1>3. QED
  BY <1>1, <1>2 DEF said

\* What may be said, by its type.
LEMMA SaysIs ==
    ASSUME NEW n, NEW e, NEW m, Says(n, e, m)
    PROVE  LET q == e.message
           IN  \/ q.type = "Cmd" /\ m = Refusal(e)
               \/ /\ IsTransferCmd(q, "ValidateTransfer") /\ AuthorisedCmd(e) /\ bls[n] # None
                  /\ m = Validation(n, e)
               \/ /\ IsTransferCmd(q, "RegisterTransfer") /\ AgreementValid(q.cmd.cmd.payload)
                  /\ m = Propagation(q.cmd.cmd.payload, 3)
               \/ /\ q.type = "Query"
                  /\ \E result \in {"Ok", "Err"} : \E value :
                        /\ m = Answer(e, result, value)
                        /\ result = "Ok" => Authorised(e.origin, QueryKind(q.query))
               \/ /\ q.type = "NodeQuery"
                  /\ \E x : m = NodeQueryResponse(x, q.id, SenderAddress(e.origin))
               \/ q.type = "NodeCmd" /\ \E x : m = NodeCmdError(x, q.id, SenderAddress(e.origin))
               \/ q.type \in NodeTypes /\ \E x, y : m = NodeEvent(x, y) \/ m = NodeQuery(x, y)
               \/ /\ q.type = "NodeCmd" /\ q.cmd.op = "RegisterSectionPayout"
                  /\ m = Propagation(q.cmd.payload, q.id + 1)
<1>1. CASE e.message.type \in NodeTypes /\ m \in FollowUps(n, e) \cup Failures(e)
  BY <1>1 DEF FollowUps, Failures, NodeTypes, Propagation
<1>2. CASE ~(e.message.type \in NodeTypes /\ m \in FollowUps(n, e) \cup Failures(e))
  BY <1>2 DEF Says
<1>3. QED
  BY <1>1, <1>2

-----------------------------------------------------------------------------
\* Answers return to who asked.

RequestTypes == {"Query", "Cmd", "NodeQuery", "NodeCmd"}

OriginOK(origin) ==
    \/ origin.type = "Client" /\ \E c \in Clients : SenderId(origin) = ClientKey[c]
    \/ /\ origin.type = "Node"
       /\ (\E n \in Nodes : SenderId(origin) = Ed25519(n)) \/ origin.proof.type = "BlsShare"

AnswerAddress(m) ==
    IF m.type \in {"QueryResponse", "NodeQueryResponse"} THEN m.query_origin ELSE m.cmd_origin

Asked(m, e) ==
    /\ e.message.type \in RequestTypes /\ "id" \in DOMAIN e.message
    /\ e.message.id = m.correlation_id /\ AnswerAddress(m) = SenderAddress(e.origin)

\* Inductive: origins are clients or nodes, and an answer that is said, sent or not,
\* has the id of a request in the network and the address of its origin.
AnswersInv ==
    /\ \A e \in net : OriginOK(e.origin)
    /\ \A m \in said : /\ m.type \in RequestTypes => "id" \in DOMAIN m
                       /\ m.type \in AnswerTypes => \E e \in net : Asked(m, e)

LEMMA OriginsKept ==
    ASSUME Travels, Adds, AnswersInv, NEW e \in net'
    PROVE  OriginOK(e.origin)
<1>0. \A d \in net : OriginOK(d.origin) /\ IsEnvelope(d)
  BY DEF AnswersInv, Travels, ChainsInv, Sent
<1>1. ASSUME NEW n \in Nodes, NEW p \in pending[n], Sends(n, p, e)
      PROVE  OriginOK(e.origin)
  <2> DEFINE s == NodeSender(p.duty, ProofOf(n, p.signature))
  <2>1. CASE "proxies" \in DOMAIN p.data
    <3>1. p.data \in net /\ e = WithProxy(p.data, s)
      BY <1>1, <2>1 DEF Travels, Sends, Extend
    <3>2. QED
      BY <1>0, <3>1, ProxiesOnly
  <2>2. CASE "proxies" \notin DOMAIN p.data
    <3>1. e.origin = s
      BY <1>1, <2>2 DEF Sends, Extend, NewEnvelope
    <3>2. s.type = "Node" /\ s.proof = ProofOf(n, p.signature)
      BY DEF NodeSender
    <3>3. SenderId(s) = Ed25519(n) \/ s.proof.type = "BlsShare"
      BY <3>2 DEF SenderId, ProofId, ProofOf, BlsProofShare, Ed25519Proof
    <3>4. QED
      BY <3>1, <3>2, <3>3 DEF OriginOK
  <2>3. QED
    BY <2>1, <2>2
<1>2. ASSUME NEW b \in net, e = Accumulated(b)
      PROVE  OriginOK(e.origin)
  <2>1. PICK s : e = WithProxy(WithoutLast(b), s)
    BY <1>2 DEF Accumulated
  <2>2. IsEnvelope(WithoutLast(b)) /\ WithoutLast(b).origin = b.origin
    BY <1>0, ProxiesOnly
  <2>3. e.origin = b.origin
    BY <2>1, <2>2, ProxiesOnly
  <2>4. QED
    BY <1>0, <2>3
<1>3. ASSUME NEW c \in Clients, NEW m, e = ClientEnvelope(c, m)
      PROVE  OriginOK(e.origin)
  BY <1>3 DEF OriginOK, ClientEnvelope, NewEnvelope, ClientSender, SenderId, ProofId,
              BlsProof, Ed25519Proof
<1>4. QED
  BY <1>0, <1>1, <1>2, <1>3 DEF Adds, Appears

LEMMA RequestIs ==
    ASSUME NEW m, IsRequest(m)
    PROVE  m.type \in RequestTypes /\ "id" \in DOMAIN m
<1>1. CASE m.type = "Query" /\ m = Query(m.query, m.id)
  BY <1>1 DEF RequestTypes, Query
<1>2. CASE m.type = "Cmd" /\ m = Cmd(m.cmd, m.id)
  BY <1>2 DEF RequestTypes, Cmd
<1>3. CASE m.type = "NodeQuery" /\ m = NodeQuery(m.query, m.id)
  BY <1>3 DEF RequestTypes, NodeQuery
<1>4. CASE m.type = "NodeCmd" /\ m = NodeCmd(m.cmd, m.id)
  BY <1>4 DEF RequestTypes, NodeCmd
<1>5. QED
  BY <1>1, <1>2, <1>3, <1>4 DEF IsRequest

LEMMA AnswersInit == Init => AnswersInv
<1> SUFFICES ASSUME Init PROVE AnswersInv
  OBVIOUS
<1>1. /\ net = {FirstEnvelope(scenario)} /\ said = {FirstEnvelope(scenario).message}
      /\ scenario \in Scenarios
  BY DEF Init, said
<1>2. FirstEnvelope(scenario).message = scenario.message
  BY DEF FirstEnvelope, ClientEnvelope, NewEnvelope
<1>3. OriginOK(FirstEnvelope(scenario).origin)
  <2>1. CASE scenario.by \in Clients
    BY <2>1 DEF FirstEnvelope, OriginOK, ClientEnvelope, NewEnvelope, ClientSender, SenderId,
                ProofId, BlsProof, Ed25519Proof
  <2>2. CASE scenario.by \notin Clients
    <3>1. scenario.by \in Nodes
      BY <1>1, <2>2, ScenariosAssumption
    <3>2. QED
      BY <2>2, <3>1 DEF FirstEnvelope, OriginOK, NewEnvelope, NodeSender, ProofOf, Signature,
                        SenderId, ProofId, Ed25519Proof
  <2>3. QED
    BY <2>1, <2>2
<1>4. /\ scenario.message.type \in RequestTypes /\ "id" \in DOMAIN scenario.message
      /\ scenario.message.type \notin AnswerTypes
  BY <1>1, ScenariosAssumption, RequestIs DEF RequestTypes, AnswerTypes
<1>5. QED
  BY <1>1, <1>2, <1>3, <1>4 DEF AnswersInv

LEMMA AnswersStep ==
    ASSUME Travels, Adds, AnswersInv
    PROVE  AnswersInv'
<1>1. \A e \in net' : OriginOK(e.origin)
  BY OriginsKept
<1>2. ASSUME NEW m \in said'
      PROVE  /\ m.type \in RequestTypes => "id" \in DOMAIN m
             /\ m.type \in AnswerTypes => \E e \in net : Asked(m, e)
  <2>1. CASE m \in said
    BY <2>1 DEF AnswersInv
  <2>2. ASSUME NEW n \in Nodes, NEW e \in net, Says(n, e, m)
        PROVE  /\ m.type \in RequestTypes => "id" \in DOMAIN m
               /\ m.type \in AnswerTypes => Asked(m, e)
    <3>1. e.message.type \in RequestTypes => "id" \in DOMAIN e.message
      BY DEF AnswersInv, said
    <3>2. m.type \in RequestTypes => "id" \in DOMAIN m
      BY <2>2, SaysIs DEF RequestTypes, Refusal, CmdError, Validation, Event, Propagation, NodeCmd,
         Answer, QueryResponse, NodeQueryResponse, NodeCmdError, NodeEvent, NodeQuery
    <3>3. m.type \in AnswerTypes =>
            /\ e.message.type \in RequestTypes
            /\ m.correlation_id = e.message.id /\ AnswerAddress(m) = SenderAddress(e.origin)
      BY <2>2, SaysIs DEF RequestTypes, AnswerTypes, AnswerAddress, Refusal, CmdError, Validation,
         Event, Propagation, NodeCmd, Answer, QueryResponse, NodeQueryResponse, NodeCmdError,
         NodeEvent, NodeQuery, IsTransferCmd
    <3>4. QED
      BY <3>1, <3>2, <3>3 DEF Asked
  <2>3. ASSUME NEW payload, m = Registration(payload)
        PROVE  "id" \in DOMAIN m /\ m.type \notin AnswerTypes
    BY <2>3 DEF Registration, Cmd, AnswerTypes
  <2>4. QED
    BY <2>1, <2>2, <2>3, SaidStep
<1>3. QED
  BY <1>1, <1>2 DEF AnswersInv, Adds, Asked

LEMMA AnswersInvReturns == AnswersInv => AnswersReturn
<1> SUFFICES ASSUME AnswersInv, NEW e \in net, e.message.type \in AnswerTypes
             PROVE  \E q \in net :
                      /\ Key(q.message)[2] = e.message.correlation_id
                      /\ q.message.type \in {"Query", "Cmd", "NodeQuery", "NodeCmd"}
                      /\ \/ \E c \in Clients :
                               /\ SenderId(q.origin) = ClientKey[c]
                               /\ Destination(e) = Address("Client", NameOf(ClientKey[c]))
                         \/ \E n \in Nodes : /\ SenderId(q.origin) = Ed25519(n)
                                             /\ Reaches(Destination(e), n)
                         \/ /\ q.origin.proof.type = "BlsShare"
                            /\ Destination(e) = Address("Node", NameOf(SenderId(q.origin)))
  BY DEF AnswersReturn
<1>1. PICK q \in net : Asked(e.message, q)
  BY DEF AnswersInv, said
<1>2. Key(q.message)[2] = e.message.correlation_id /\ q.message.type \in RequestTypes
  BY <1>1 DEF Asked, Key
<1>3. Destination(e) = SenderAddress(q.origin)
  <2>1. e.message.type \in {"QueryResponse", "NodeQueryResponse"} =>
          Destination(e) = e.message.query_origin
    BY DEF Destination
  <2>2. e.message.type \in {"CmdError", "NodeCmdError"} => Destination(e) = e.message.cmd_origin
    BY DEF Destination
  <2>3. QED
    BY <1>1, <2>1, <2>2 DEF Asked, AnswerAddress, AnswerTypes
<1>4. Destination(e) = Address(q.origin.type, NameOf(SenderId(q.origin)))
  BY <1>3 DEF SenderAddress
<1>5. \A n : Reaches(Address("Node", NameOf(Ed25519(n))), n)
  BY DEF Reaches, Address, NodeName
<1>6. OriginOK(q.origin)
  BY DEF AnswersInv
<1>7. QED
  BY <1>2, <1>4, <1>5, <1>6 DEF OriginOK, RequestTypes

\* Any answer in the network goes to who made a request with its id, for any requests,
\* clients and nodes (query_origin and cmd_origin, MsgSender::address).
THEOREM AnswersReturnHolds == Spec => []AnswersReturn
<1>1. Travels /\ AnswersInv /\ [Next]_vars => AnswersInv'
  BY StepAdds, AnswersStep
<1>2. QED
  BY <1>1, AnswersInit, AnswersInvReturns, TravelsHolds, PTL DEF Spec

-----------------------------------------------------------------------------
\* Answers can be taken for what was asked for.

VariantOf(q) == QueryErrors[q.enum][q.op]

\* The two tables agree: error() and try_from!, for every query there is.
LEMMA VariantsConvert ==
    ASSUME NEW q, q.enum \in DOMAIN QueryErrors, q.op \in DOMAIN QueryErrors[q.enum]
    PROVE  VariantOf(q) \in TryFromVariants[Wanted(q)]
<1>1. q.enum \in {"BlobRead", "MapRead", "SequenceRead", "AccountRead", "AuthQuery",
                  "TransferQuery"}
  BY DEF QueryErrors
<1>2. CASE q.enum = "BlobRead"
  BY <1>2 DEF VariantOf, QueryErrors, BlobReadError, Wanted, TryFromVariants
<1>3. CASE q.enum = "MapRead"
  BY <1>3 DEF VariantOf, QueryErrors, MapReadError, Wanted, TryFromVariants
<1>4. CASE q.enum = "SequenceRead"
  BY <1>4 DEF VariantOf, QueryErrors, SequenceReadError, Wanted, TryFromVariants
<1>5. CASE q.enum = "AccountRead"
  BY <1>5 DEF VariantOf, QueryErrors, AccountReadError, Wanted, TryFromVariants
<1>6. CASE q.enum = "AuthQuery"
  BY <1>6 DEF VariantOf, QueryErrors, AuthQueryError, Wanted, TryFromVariants
<1>7. CASE q.enum = "TransferQuery"
  BY <1>7 DEF VariantOf, QueryErrors, TransferQueryError, Wanted, TryFromVariants
<1>8. QED
  BY <1>1, <1>2, <1>3, <1>4, <1>5, <1>6, <1>7

\* Inductive: there is one query at most, and its answers have its variant.
QueriesInv ==
    /\ scenario \in Scenarios
    /\ \A m \in said : /\ m.type = "Query" => m = first
                       /\ m.type = "QueryResponse" => /\ first.type = "Query"
                                                      /\ m.response.variant = VariantOf(first.query)

LEMMA FirstIsSaid ==
    ASSUME Init
    PROVE  /\ scenario \in Scenarios /\ said = {first}
           /\ net = {FirstEnvelope(scenario)} /\ FirstEnvelope(scenario).message = first
           /\ FirstEnvelope(scenario).proxies = <<>>
<1>1. /\ scenario \in Scenarios /\ net = {FirstEnvelope(scenario)}
      /\ said = {FirstEnvelope(scenario).message}
  BY DEF Init, said
<1>2. FirstEnvelope(scenario).message = first /\ FirstEnvelope(scenario).proxies = <<>>
  BY DEF FirstEnvelope, ClientEnvelope, NewEnvelope, first
<1>3. QED
  BY <1>1, <1>2

LEMMA QueriesInit == Init => QueriesInv
<1> SUFFICES ASSUME Init PROVE QueriesInv
  OBVIOUS
<1>1. first.type \in RequestTypes
  BY FirstIsSaid, ScenariosAssumption, RequestIs DEF first
<1>2. QED
  BY <1>1, FirstIsSaid DEF QueriesInv, RequestTypes

LEMMA QueriesStep ==
    ASSUME Travels, Adds, QueriesInv
    PROVE  QueriesInv'
<1>1. first' = first
  BY DEF Adds, first
<1>2. ASSUME NEW m \in said'
      PROVE  /\ m.type = "Query" => m = first
             /\ m.type = "QueryResponse" => /\ first.type = "Query"
                                            /\ m.response.variant = VariantOf(first.query)
  <2>1. CASE m \in said
    BY <2>1 DEF QueriesInv
  <2>2. ASSUME NEW n \in Nodes, NEW e \in net, Says(n, e, m)
        PROVE  /\ m.type # "Query"
               /\ m.type = "QueryResponse" => /\ first.type = "Query"
                                              /\ m.response.variant = VariantOf(first.query)
    <3>1. e.message.type = "Query" => e.message = first
      BY DEF QueriesInv, said
    <3>2. /\ m.type # "Query"
          /\ m.type = "QueryResponse" => /\ e.message.type = "Query"
                                         /\ m.response.variant = VariantOf(e.message.query)
      BY <2>2, SaysIs DEF Refusal, CmdError, Validation, Event, Propagation, NodeCmd, Answer,
         QueryResponse, Response, VariantOf, NodeQueryResponse, NodeCmdError, NodeEvent, NodeQuery
    <3>3. QED
      BY <3>1, <3>2
  <2>3. ASSUME NEW payload, m = Registration(payload)
        PROVE  m.type \notin {"Query", "QueryResponse"}
    BY <2>3 DEF Registration, Cmd
  <2>4. QED
    BY <2>1, <2>2, <2>3, SaidStep
<1>3. QED
  BY <1>1, <1>2 DEF QueriesInv, Adds

LEMMA QueriesInvConverts == QueriesInv => AnswersConvert
<1> SUFFICES ASSUME QueriesInv, NEW e \in net, e.message.type = "QueryResponse"
             PROVE  TryFrom(Wanted(first.query), e.message.response) # "WrongType"
  BY DEF AnswersConvert
<1>1. first.type = "Query" /\ e.message.response.variant = VariantOf(first.query)
  BY DEF QueriesInv, said
<1>2. first.query.enum \in DOMAIN QueryErrors
      /\ first.query.op \in DOMAIN QueryErrors[first.query.enum]
  BY <1>1, ScenariosAssumption DEF QueriesInv, first, IsRequest
<1>3. e.message.response.variant \in TryFromVariants[Wanted(first.query)]
  BY <1>1, <1>2, VariantsConvert
<1>4. QED
  BY <1>3 DEF TryFrom

\* Every answer to a query, whatever the query and however it ends, can be converted to
\* the type it is wanted for (error(), query.rs:39; try_from!, messaging/mod.rs:538).
THEOREM AnswersConvertHolds == Spec => []AnswersConvert
<1>1. Travels /\ QueriesInv /\ [Next]_vars => QueriesInv'
  BY StepAdds, QueriesStep
<1>2. QED
  BY <1>1, QueriesInit, QueriesInvConverts, TravelsHolds, PTL DEF Spec

-----------------------------------------------------------------------------
\* Nothing comes of a request that its client may not make.

\* The authorisation that the code asks for is enough for what clients may do.
LEMMA AuthorisedMayDo ==
    ASSUME NEW c \in Clients, NEW m, IsRequest(m), NEW origin, SenderId(origin) = ClientKey[c],
           \/ m.type = "Cmd" /\ Authorised(origin, CmdKind(m.cmd))
           \/ m.type = "Query" /\ Authorised(origin, QueryKind(m.query))
    PROVE  MayDo(c, m)
<1> DEFINE May(kind) == \/ kind \in {"None", "PublicRead"} \/ c \in Owners
                        \/ /\ c \in DOMAIN AppPermissions /\ kind # "ManageAppKeys"
                           /\ Permits(kind) \subseteq AppPermissions[c]
<1>1. \A kind : Authorised(origin, kind) => May(kind)
  BY ClientsAssumption DEF Authorised
<1>2. CASE m.type = "Cmd"
  <2>1. May(CmdKind(m.cmd))
    BY <1>1, <1>2
  <2>2. /\ m.cmd.class \in {"Auth", "Data", "Transfer"}
        /\ m.cmd.class = "Transfer" => m.cmd.cmd.op \in DOMAIN TransferCmdKind
    BY <1>2 DEF IsRequest
  <2>3. CASE m.cmd.class = "Data"
    <3>1. CmdKind(m.cmd) = "Write"
      BY <2>3 DEF CmdKind
    <3>2. QED
      BY <1>2, <2>1, <2>3, <3>1 DEF MayDo, Permits
  <2>4. CASE m.cmd.class = "Auth"
    <3>1. CmdKind(m.cmd) = "ManageAppKeys"
      BY <2>4 DEF CmdKind
    <3>2. QED
      BY <2>1, <3>1 DEF MayDo
  <2>5. CASE m.cmd.class = "Transfer" /\ m.cmd.cmd.op = "ValidateTransfer"
    <3>1. CmdKind(m.cmd) = "WriteAndTransfer"
      BY <2>5 DEF CmdKind, TransferCmdKind
    <3>2. QED
      BY <1>2, <2>1, <2>5, <3>1 DEF MayDo, Permits
  <2>6. CASE m.cmd.class = "Transfer" /\ m.cmd.cmd.op # "ValidateTransfer"
    BY <1>2, <2>6 DEF MayDo
  <2>7. QED
    BY <2>2, <2>3, <2>4, <2>5, <2>6
<1>3. CASE m.type = "Query"
  <2> DEFINE q == m.query
  <2>1. May(QueryKind(q))
    BY <1>1, <1>3
  <2>2. /\ q.enum \in DOMAIN QueryErrors /\ q.op \in DOMAIN QueryErrors[q.enum]
        /\ q.enum \in {"BlobRead", "MapRead", "SequenceRead"} => "address" \in DOMAIN q
    BY <1>3 DEF IsRequest
  <2>3. q.enum \in {"BlobRead", "MapRead", "SequenceRead", "AccountRead", "AuthQuery",
                    "TransferQuery"}
    BY <2>2 DEF QueryErrors
  <2>4. CASE q.enum \in {"BlobRead", "SequenceRead"}
    <3>1. QueryKind(q) = IF q.address.access = "Public" THEN "PublicRead" ELSE "PrivateRead"
      BY <2>4 DEF QueryKind, ReadKind
    <3>2. QED
      BY <1>3, <2>1, <2>2, <2>4, <3>1 DEF MayDo
  <2>5. CASE q.enum \in {"MapRead", "AccountRead"}
    <3>1. QueryKind(q) = "PrivateRead"
      BY <2>5 DEF QueryKind
    <3>2. QED
      BY <1>3, <2>1, <2>5, <3>1 DEF MayDo
  <2>6. CASE q.enum = "AuthQuery"
    <3>1. QueryKind(q) = "ManageAppKeys"
      BY <2>6 DEF QueryKind
    <3>2. QED
      BY <2>1, <3>1 DEF MayDo
  <2>7. CASE q.enum = "TransferQuery"
    <3>1. q.op \in {"GetReplicaKeys", "GetBalance", "GetHistory"}
      BY <2>2, <2>7 DEF QueryErrors, TransferQueryError
    <3>2. QueryKind(q) = TransferQueryKind[q.op]
      BY <2>7 DEF QueryKind
    <3>3. CASE q.op = "GetReplicaKeys"
      BY <1>3, <3>3 DEF MayDo
    <3>4. CASE q.op = "GetBalance"
      BY <1>3, <2>1, <3>2, <3>4 DEF MayDo, Permits, TransferQueryKind
    <3>5. CASE q.op = "GetHistory"
      BY <1>3, <2>1, <3>2, <3>5 DEF MayDo, Permits, TransferQueryKind
    <3>6. QED
      BY <3>1, <3>3, <3>4, <3>5
  <2>8. QED
    BY <2>3, <2>4, <2>5, <2>6, <2>7
<1>4. QED
  BY <1>2, <1>3

denied == scenario.by \in Clients /\ ~MayDo(scenario.by, first)

Harmless(m) == \/ m.type = "CmdError"
               \/ m.type = "QueryResponse" /\ m.response.result = "Err"

FromClient(e) ==
    e.proxies = <<>> /\ e.origin.type = "Client" /\ SenderId(e.origin) = ClientKey[scenario.by]

\* Inductive: the request stays as its client sent it, and nothing but refusals and
\* errors are said because of it.
DeniedInv ==
    /\ scenario \in Scenarios
    /\ denied =>
         /\ \A e \in net : IF e.message = first THEN FromClient(e) ELSE Harmless(e.message)
         /\ \A n \in Nodes : \A p \in pending[n] :
               "proxies" \notin DOMAIN p.data /\ Harmless(p.data)

LEMMA DeniedFirst ==
    ASSUME DeniedInv, denied
    PROVE  /\ IsRequest(first) /\ first.type \in {"Cmd", "Query"} /\ ~Harmless(first)
           /\ \A e \in net : FromClient(e) =>
                /\ first.type = "Cmd" => ~Authorised(e.origin, CmdKind(first.cmd))
                /\ first.type = "Query" => ~Authorised(e.origin, QueryKind(first.query))
<1>1. IsRequest(first) /\ first.type \in {"Cmd", "Query"} /\ scenario.by \in Clients
  BY ScenariosAssumption DEF DeniedInv, denied, first
<1>2. QED
  BY <1>1, AuthorisedMayDo DEF denied, FromClient, Harmless

\* Because of it only refusals are said, and nothing is passed on.
LEMMA DeniedSays ==
    ASSUME DeniedInv, denied, NEW n, NEW e \in net, NEW m, Says(n, e, m)
    PROVE  Harmless(m)
<1>1. IF e.message = first THEN FromClient(e) ELSE Harmless(e.message)
  BY DEF DeniedInv
<1>2. CASE e.message # first
  <2>1. e.message.type \in {"CmdError", "QueryResponse"}
    BY <1>1, <1>2 DEF Harmless
  <2>2. FALSE
    BY <2>1 DEF Says, NodeTypes, IsTransferCmd, FollowUps, Failures
  <2>3. QED
    BY <2>2
<1>3. CASE e.message = first
  <2>1. first.type \in {"Cmd", "Query"} /\ FromClient(e)
    BY <1>1, <1>3, DeniedFirst
  <2>2. first.type = "Cmd" => ~AuthorisedCmd(e)
    BY <1>3, <2>1, DeniedFirst DEF AuthorisedCmd
  <2>3. first.type = "Query" => ~Authorised(e.origin, QueryKind(first.query))
    BY <2>1, DeniedFirst
  <2>4. ~IsTransferCmd(first, "RegisterTransfer")
    BY DEF IsTransferCmd, denied, MayDo
  <2>5. m = Refusal(e) \/ \E value : m = Answer(e, "Err", value)
    BY <1>3, <2>1, <2>2, <2>3, <2>4, SaysIs DEF IsTransferCmd, NodeTypes
  <2>6. QED
    BY <2>5 DEF Harmless, Refusal, CmdError, Answer, QueryResponse, Response
<1>4. QED
  BY <1>2, <1>3

LEMMA DeniedStays ==
    ASSUME DeniedInv, denied, NEW e \in net
    PROVE  ~(IsCmd(e, "Data") /\ IsVote(e)) /\ \A duty : ~Passes(e, duty)
<1>1. CASE e.message # first
  BY <1>1 DEF DeniedInv, Harmless, Passes, IsCmd
<1>2. CASE e.message = first
  <2>1. FromClient(e) /\ MostRecentSender(e) = e.origin
    BY <1>2 DEF DeniedInv, FromClient, MostRecentSender
  <2>2. first.type = "Cmd" => ~AuthorisedCmd(e)
    BY <1>2, <2>1, DeniedFirst DEF AuthorisedCmd
  <2>3. QED
    BY <1>2, <2>1, <2>2 DEF FromClient, IsVote, Passes, IsCmd
<1>3. QED
  BY <1>1, <1>2

LEMMA DeniedInit == Init => DeniedInv
<1> SUFFICES ASSUME Init, denied PROVE DeniedInv
  BY FirstIsSaid DEF DeniedInv
<1>1. FromClient(FirstEnvelope(scenario))
  BY FirstIsSaid DEF denied, FromClient, FirstEnvelope, ClientEnvelope, NewEnvelope, ClientSender,
                     SenderId, ProofId, BlsProof, Ed25519Proof
<1>2. QED
  BY <1>1, FirstIsSaid DEF DeniedInv, Init

LEMMA DeniedStep ==
    ASSUME Travels, Adds, DeniedInv
    PROVE  DeniedInv'
<1>0. first' = first /\ scenario' = scenario /\ (denied' <=> denied)
  BY DEF Adds, first, denied, MayDo
<1> SUFFICES ASSUME denied PROVE DeniedInv'
  BY <1>0 DEF DeniedInv
<1>1. ASSUME NEW e \in net'
      PROVE  IF e.message = first THEN FromClient(e) ELSE Harmless(e.message)
  <2>1. CASE e \in net
    BY <2>1 DEF DeniedInv
  <2>2. ASSUME NEW n \in Nodes, NEW p \in pending[n], Sends(n, p, e)
        PROVE  e.message # first /\ Harmless(e.message)
    <3>1. "proxies" \notin DOMAIN p.data /\ Harmless(p.data)
      BY DEF DeniedInv
    <3>2. e.message = p.data
      BY <2>2, <3>1 DEF Sends, Extend, NewEnvelope
    <3>3. QED
      BY <3>1, <3>2, DeniedFirst
  <2>3. ~\E b \in net : IsCmd(b, "Data") /\ IsVote(b)
    BY DeniedStays
  <2>4. ASSUME NEW c, NEW v \in Validations(c)
        PROVE  FALSE
    <3>1. PICK x \in net : x.message.type = "Event"
      BY <2>4 DEF Validations
    <3>2. x.message = first \/ Harmless(x.message)
      BY DEF DeniedInv
    <3>3. QED
      BY <3>1, <3>2, DeniedFirst DEF Harmless
  <2>5. QED
    BY <2>1, <2>2, <2>3, <2>4 DEF Adds, Appears
<1>2. ASSUME NEW n \in Nodes, NEW p \in pending'[n]
      PROVE  "proxies" \notin DOMAIN p.data /\ Harmless(p.data)
  <2>1. CASE p \in pending[n]
    BY <2>1 DEF DeniedInv
  <2>2. ASSUME NEW e \in net, Begins(n, e, p)
        PROVE  "proxies" \notin DOMAIN p.data /\ Harmless(p.data)
    BY <2>2, DeniedSays, DeniedStays, SaidIsMessage DEF Begins
  <2>3. QED
    BY <2>1, <2>2 DEF Adds
<1>3. \A e \in net' : IF e.message = first' THEN FromClient(e)' ELSE Harmless(e.message)
  BY <1>0, <1>1 DEF FromClient
<1>4. QED
  BY <1>0, <1>2, <1>3 DEF DeniedInv

\* A node that begins to have dealt with the request refuses it.
LEMMA DealingRefuses ==
    ASSUME Travels, DeniedInv, denied, first.type = "Cmd", [Next]_vars,
           NEW n \in Nodes, DealtWith(n)', ~DealtWith(n)
    PROVE  Refusing(n)'
<1>0. first' = first
  <2>1. Adds
    BY StepAdds
  <2>2. QED
    BY <2>1 DEF Adds, first
<1>1. ASSUME NEW x \in Nodes, Handle(x)
      PROVE  Refusing(n)'
  <2>1. PICK e \in net :
          /\ Receives(x, e)
          /\ \/ Forward(x, e) \/ Deny(x, e) \/ Accumulate(x, e) \/ ExecuteCmd(x, e)
             \/ ValidateTransfer(x, e) \/ RegisterTransfer(x, e)
             \/ AnswerQuery(x, e) \/ HandleNodeMessage(x, e)
    BY <1>1 DEF Handle
  <2>2. Dedup(x, e.message)
    BY <1>0, <2>1 DEF DealtWith, Forward, Deny, Accumulate, ExecuteCmd, ValidateTransfer,
                      RegisterTransfer, AnswerQuery, HandleNodeMessage
  <2>3. x = n /\ Key(e.message) = Key(first)
    BY <1>0, <2>2 DEF Dedup, DealtWith, Travels
  <2>4. e.message.type = "Cmd"
    BY <2>3 DEF Key
  <2>5. e.message = first /\ FromClient(e)
    BY <2>4 DEF DeniedInv, Harmless
  <2>6. ~AuthorisedCmd(e) /\ MostRecentSender(e) = e.origin
    BY <2>4, <2>5, DeniedFirst DEF AuthorisedCmd, FromClient, MostRecentSender
  <2>7. Deny(x, e)
    <3>1. ~Forward(x, e)
      BY <2>5, <2>6 DEF Forward, FromClient
    <3>2. ~Accumulate(x, e)
      BY DeniedStays DEF Accumulate
    <3>3. ~ExecuteCmd(x, e)
      BY <2>5, <2>6 DEF ExecuteCmd, Ready, FromClient, IsCmd, denied, MayDo
    <3>4. ~ValidateTransfer(x, e) /\ ~RegisterTransfer(x, e)
      BY <2>5, <2>6 DEF ValidateTransfer, RegisterTransfer, IsCmd, denied, MayDo
    <3>5. ~AnswerQuery(x, e) /\ ~HandleNodeMessage(x, e)
      BY <2>4 DEF AnswerQuery, HandleNodeMessage
    <3>6. QED
      BY <2>1, <3>1, <3>2, <3>3, <3>4, <3>5
  <2>8. StartSend(n, "Metadata", Refusal(e))
    BY <2>3, <2>7 DEF Deny, Refuse, Refusal
  <2>9. pending'[n] = {[duty |-> "Metadata", data |-> Refusal(e), signature |-> Sign(n, Refusal(e))]}
    BY <2>8 DEF StartSend, Travels, ChainsInv
  <2>10. "type" \in DOMAIN Refusal(e) /\ Refusal(e).type = "CmdError"
    BY DEF Refusal, CmdError
  <2>11. QED
    BY <2>9, <2>10 DEF Refusing
<1>2. CASE UNCHANGED handled
  BY <1>0, <1>2 DEF DealtWith
<1>3. CASE Work
  <2>1. (\E x \in Nodes : Handle(x)) \/ UNCHANGED handled
    BY <1>3 DEF Work, FinishSend, Agree
  <2>2. QED
    BY <1>1, <1>2, <2>1
<1>4. ASSUME NEW x \in Changing, ChangeKeys(x)
      PROVE  UNCHANGED handled
  BY <1>4 DEF ChangeKeys
<1>5. QED
  BY <1>2, <1>3, <1>4 DEF Next, vars, routeVars

\* The authorisation that each request asks for (authorisation_kind), the permissions of
\* apps and the answers together: for any request, client, owners and permissions, nobody
\* carries out, validates or answers a request its client may not make.
THEOREM NoUnauthorisedEffectHolds == Spec => NoUnauthorisedEffect
<1>1. Travels /\ DeniedInv /\ [Next]_vars => DeniedInv'
  BY StepAdds, DeniedStep
<1>2. ASSUME Travels, DeniedInv, [Next]_vars, denied
      PROVE  /\ \A n \in Nodes :
                   first.type = "Cmd" /\ DealtWith(n)' /\ ~DealtWith(n) => Refusing(n)'
             /\ \A e \in net' : /\ e.message = first => e.proxies = <<>>
                                /\ e.message.type # "Event"
                                /\ e.message.type = "QueryResponse" =>
                                      e.message.response.result = "Err"
  <2>1. DeniedInv' /\ first' = first /\ denied'
    <3>1. Adds
      BY <1>2, StepAdds
    <3>2. QED
      BY <1>1, <1>2, <3>1 DEF Adds, first, denied, MayDo
  <2>2. first.type \in {"Cmd", "Query"}
    BY <1>2, DeniedFirst
  <2>3. \A e \in net' : IF e.message = first THEN FromClient(e)' ELSE Harmless(e.message)
    BY <2>1 DEF DeniedInv
  <2>4. QED
    BY <1>2, <2>2, <2>3, DealingRefuses DEF FromClient, Harmless
<1>3. Travels /\ DeniedInv /\ [Next]_vars =>
        [denied => /\ \A n \in Nodes :
                         first.type = "Cmd" /\ DealtWith(n)' /\ ~DealtWith(n) => Refusing(n)'
                   /\ \A e \in net' : /\ e.message = first => e.proxies = <<>>
                                      /\ e.message.type # "Event"
                                      /\ e.message.type = "QueryResponse" =>
                                            e.message.response.result = "Err"]_vars
  BY <1>2
<1>4. QED
  BY <1>1, <1>3, DeniedInit, TravelsHolds, PTL DEF Spec, NoUnauthorisedEffect, denied

-----------------------------------------------------------------------------
\* Money arrives where the transfer says, after it was debited.

\* The transfer that is credited, and the id of the command that does so.
theTransfer ==
    IF beginsTransfer THEN first.cmd.cmd.payload
    ELSE IF first.type = "Cmd" THEN first.cmd.cmd.payload.signed_transfer
    ELSE first.cmd.payload.signed_transfer

creditId == IF first.type = "NodeCmd" THEN first.id + 1 ELSE 3

Replicas(signed) == Nodes \cap Elders[SectionOf(NameOf(signed.transfer.id.actor))]

Validators(p) ==
    {m \in Replicas(p.signed_transfer) :
       \E v \in net : /\ v.message.type = "Event"
                      /\ v.message.event.event.signed_transfer = p.signed_transfer
                      /\ v.message.event.event.replicas = p.replica_key
                      /\ v.message.event.event.replica_signature.sig.key \in KeysOf(m)}

Debited(p) == Cardinality(Validators(p)) > Threshold

ValidatedBy(n, s) ==
    TransferValidated(theTransfer,
      SignatureShare(Members[s][n], Raw(BlsShare(s, Members[s][n]), theTransfer)), s)

IsValidation(m) ==
    \E n \in Replicas(theTransfer), s \in KeySets :
        n \in DOMAIN Members[s] /\ m.event.event = ValidatedBy(n, s)

IsRegistration(m) ==
    /\ IsTransferCmd(m, "RegisterTransfer") /\ m.cmd.cmd.payload.signed_transfer = theTransfer
    /\ AgreementValid(m.cmd.cmd.payload) => Debited(m.cmd.cmd.payload)

IsPropagation(m) ==
    /\ m = Propagation(m.cmd.payload, creditId) /\ m.cmd.payload.signed_transfer = theTransfer
    /\ beginsTransfer => Debited(m.cmd.payload)

\* Inductive: a validation is that of a replica of the debited key, an agreement that
\* is valid stands for a quorum of them, and only such an agreement is propagated.
CreditInv ==
    /\ scenario \in Scenarios
    /\ \A m \in said :
          /\ m.type = "Cmd" => m = first \/ (beginsTransfer /\ IsRegistration(m))
          /\ m.type = "Event" => beginsTransfer /\ IsValidation(m)
          /\ m.type = "NodeCmd" => m = first \/ IsPropagation(m)
    /\ \A n \in Nodes : \A k \in handled[n] :
          \E e \in net : Key(e.message) = k /\ Reaches(Destination(e), n)

LEMMA ValidatorsAreFinite ==
    ASSUME NEW p
    PROVE  IsFiniteSet(Validators(p)) /\ Cardinality(Validators(p)) \in Nat
<1>1. Validators(p) \in SUBSET Nodes
  BY DEF Validators, Replicas
<1>2. QED
  BY <1>1, NodesAssumption, FS_Subset, FS_CardinalityType

\* A debit stays.
LEMMA DebitedStays ==
    ASSUME net \subseteq net', NEW p, Debited(p)
    PROVE  Debited(p)'
<1>1. Validators(p) \in SUBSET Validators(p)'
  BY DEF Validators, Replicas, KeysOf
<1>2. Validators(p)' \in SUBSET Nodes
  BY DEF Validators, Replicas
<1>3. IsFiniteSet(Validators(p)') /\ Cardinality(Validators(p)') \in Nat
  BY <1>2, NodesAssumption, FS_Subset, FS_CardinalityType
<1>4. Cardinality(Validators(p)) <= Cardinality(Validators(p)')
  BY <1>1, <1>3, FS_Subset
<1>5. QED
  BY <1>3, <1>4, ValidatorsAreFinite, ThresholdAssumption DEF Debited

\* Enough shares come from enough replicas: the index of a share tells whose it is.
LEMMA QuorumOfShares ==
    ASSUME CreditInv, NEW c, NEW v \in Validations(c),
           Cardinality({x.index : x \in SharesLike(c, v)}) > Threshold
    PROVE  Debited(AgreementOf(c, v))
<1> DEFINE p == AgreementOf(c, v)
           I == {x.index : x \in SharesLike(c, v)}
           W == {m \in Validators(p) : /\ m \in DOMAIN Members[v.replicas]
                                       /\ Members[v.replicas][m] \in I}
           f == [m \in W |-> Members[v.replicas][m]]
<1>0. p.signed_transfer = v.signed_transfer /\ p.replica_key = v.replicas
  BY DEF AgreementOf, DebitAgreementProof
<1>1. ASSUME NEW w \in Validations(c)
      PROVE  \E e \in net, n \in Replicas(theTransfer), s \in KeySets :
               /\ e.message.type = "Event" /\ e.message.event.event = w
               /\ n \in DOMAIN Members[s] /\ w = ValidatedBy(n, s)
  <2>1. PICK e \in net : e.message.type = "Event" /\ e.message.event.event = w
    BY <1>1 DEF Validations
  <2>2. IsValidation(e.message)
    BY <2>1 DEF CreditInv, said
  <2>3. QED
    BY <2>1, <2>2 DEF IsValidation
<1>2. v.signed_transfer = theTransfer
  BY <1>1 DEF ValidatedBy, TransferValidated
<1>3. ASSUME NEW i \in I
      PROVE  \E m \in W : Members[v.replicas][m] = i
  <2>1. PICK w \in Validations(c) :
          /\ w.replicas = v.replicas /\ i = w.replica_signature.index
    BY DEF SharesLike
  <2>2. PICK e \in net, n \in Replicas(theTransfer), s \in KeySets :
          /\ e.message.type = "Event" /\ e.message.event.event = w
          /\ n \in DOMAIN Members[s] /\ w = ValidatedBy(n, s)
    BY <1>1
  <2>3. /\ w.signed_transfer = theTransfer /\ w.replicas = s
        /\ w.replica_signature.index = Members[s][n]
        /\ w.replica_signature.sig.key = BlsShare(s, Members[s][n])
    BY <2>2 DEF ValidatedBy, TransferValidated, SignatureShare, Raw
  <2>4. BlsShare(s, Members[s][n]) \in KeysOf(n)
    BY <2>2 DEF KeysOf
  <2>5. n \in Validators(p)
    BY <1>0, <1>2, <2>1, <2>2, <2>3, <2>4 DEF Validators
  <2>6. QED
    BY <2>1, <2>2, <2>3, <2>5
<1>4. W \in SUBSET Validators(p)
  OBVIOUS
<1>5. f \in Surjection(W, I)
  BY <1>3 DEF Surjection
<1>6. IsFiniteSet(W) /\ Cardinality(W) <= Cardinality(Validators(p))
  BY <1>4, ValidatorsAreFinite, FS_Subset
<1>7. Cardinality(W) \in Nat /\ IsFiniteSet(I) /\ Cardinality(I) <= Cardinality(W)
  BY <1>5, <1>6, FS_Surjection, FS_CardinalityType
<1>8. Cardinality(I) \in Nat
  BY <1>7, FS_CardinalityType
<1>9. Cardinality(I) > Threshold
  OBVIOUS
<1> HIDE DEF I, W, p
<1>10. Cardinality(Validators(p)) > Threshold
  BY <1>6, <1>7, <1>8, <1>9, ValidatorsAreFinite, ThresholdAssumption
<1>11. QED
  BY <1>10 DEF Debited, p

LEMMA AgreementIsDebited ==
    ASSUME CreditInv, NEW c, NEW v \in Validations(c)
    PROVE  beginsTransfer /\ IsRegistration(Registration(AgreementOf(c, v)))
<1> DEFINE p == AgreementOf(c, v)
           shares == SharesLike(c, v)
           raw == Combine(v.replicas, shares, v.signed_transfer)
<1>1. PICK e \in net : e.message.type = "Event" /\ e.message.event.event = v
  BY DEF Validations
<1>2. beginsTransfer /\ IsValidation(e.message)
  BY <1>1 DEF CreditInv, said
<1>3. v.signed_transfer = theTransfer
  BY <1>1, <1>2 DEF IsValidation, ValidatedBy, TransferValidated
<1>4. /\ p.signed_transfer = v.signed_transfer /\ p.replica_key = v.replicas
      /\ p.debiting_replicas_sig = Signature("Bls", raw)
  BY DEF AgreementOf, DebitAgreementProof
<1>5. ASSUME AgreementValid(p) PROVE Debited(p)
  <2>1. raw = Raw(Bls(v.replicas), v.signed_transfer)
    BY <1>4, <1>5 DEF AgreementValid, Verify, RawVerify, Signature, Bls
  <2>2. Cardinality({s.index : s \in shares}) > Threshold
    <3>1. [invalid |-> shares] # Raw(Bls(v.replicas), v.signed_transfer)
      BY DEF Raw
    <3>2. QED
      BY <2>1, <3>1 DEF Combine
  <2>3. QED
    BY <2>2, QuorumOfShares
<1>6. IsTransferCmd(Registration(p), "RegisterTransfer") /\ Registration(p).cmd.cmd.payload = p
  BY DEF IsTransferCmd, Registration, Cmd, TransferOf, TransferCmd
<1> HIDE DEF p
<1>7. IsRegistration(Registration(p))
  BY <1>3, <1>4, <1>5, <1>6 DEF IsRegistration
<1>8. QED
  BY <1>2, <1>7 DEF p

LEMMA CreditInit == Init => CreditInv
<1> SUFFICES ASSUME Init PROVE CreditInv
  OBVIOUS
<1>1. first.type \in RequestTypes
  BY FirstIsSaid, ScenariosAssumption, RequestIs DEF first
<1>2. QED
  BY <1>1, FirstIsSaid DEF CreditInv, RequestTypes, Init

\* What is said because of a transfer.
LEMMA CreditSays ==
    ASSUME Travels, KeysInv, CreditInv, NEW n \in Nodes, NEW e \in net, Receives(n, e),
           NEW m, Says(n, e, m)
    PROVE  /\ m.type # "Cmd"
           /\ m.type = "Event" => beginsTransfer /\ IsValidation(m)
           /\ m.type = "NodeCmd" => IsPropagation(m)
<1>0. /\ e.message.type = "Cmd" =>
           e.message = first \/ (beginsTransfer /\ IsRegistration(e.message))
      /\ e.message.type = "NodeCmd" => e.message = first \/ IsPropagation(e.message)
  BY DEF CreditInv, said
<1>1. m.type # "Cmd"
  BY SaysIs DEF Refusal, CmdError, Validation, Event, Propagation, NodeCmd, Answer,
     QueryResponse, NodeQueryResponse, NodeCmdError, NodeEvent, NodeQuery
<1>2. ASSUME m.type = "Event" PROVE beginsTransfer /\ IsValidation(m)
  <2> DEFINE signed == e.message.cmd.cmd.payload
  <2>1. IsTransferCmd(e.message, "ValidateTransfer") /\ bls[n] # None /\ m = Validation(n, e)
    BY <1>2, SaysIs DEF Refusal, CmdError, Validation, Event, Propagation, NodeCmd, Answer,
       QueryResponse, NodeQueryResponse, NodeCmdError, NodeEvent, NodeQuery
  <2>2. e.message = first
    BY <1>0, <2>1 DEF IsTransferCmd, IsRegistration
  <2>3. beginsTransfer /\ signed = theTransfer
    BY <2>1, <2>2 DEF IsTransferCmd, beginsTransfer, theTransfer
  <2>4. Destination(e) = Address("Section", NameOf(signed.transfer.id.actor))
    <3>1. Destination(e) = CmdDst(e)
      BY <2>1 DEF Destination, IsTransferCmd
    <3>2. CmdDst(e) = Address("Section", TransferCmdDst(e.message.cmd.cmd))
      BY <2>1 DEF CmdDst, IsTransferCmd
    <3>3. TransferCmdDst(e.message.cmd.cmd) = NameOf(signed.transfer.id.actor)
      BY <2>1 DEF TransferCmdDst, IsTransferCmd, SignedFrom, TransferFrom
    <3>4. QED
      BY <3>1, <3>2, <3>3
  <2>5. n \in Replicas(theTransfer)
    BY <2>3, <2>4 DEF Receives, Reaches, Address, Replicas
  <2>6. PICK s \in KeySets : OwnShare(n, s)
    BY <2>1 DEF KeysInv, NoShare
  <2>7. /\ SignUsingBls(n, signed)
             = SignatureShare(Members[s][n], Raw(BlsShare(s, Members[s][n]), signed))
        /\ PublicKeySet(n) = s /\ n \in DOMAIN Members[s]
    BY <2>1, <2>6 DEF OwnShare, Share, SignUsingBls, PublicKeySet, BlsKeypairShare
  <2>8. m.event.event = ValidatedBy(n, s)
    BY <2>1, <2>3, <2>7 DEF Validation, Event, ClientEvent, ValidatedBy
  <2>9. QED
    BY <2>3, <2>5, <2>7, <2>8 DEF IsValidation
<1>3. ASSUME m.type = "NodeCmd" PROVE IsPropagation(m)
  <2>1. \/ /\ IsTransferCmd(e.message, "RegisterTransfer")
           /\ AgreementValid(e.message.cmd.cmd.payload)
           /\ m = Propagation(e.message.cmd.cmd.payload, 3)
        \/ /\ e.message.type = "NodeCmd" /\ e.message.cmd.op = "RegisterSectionPayout"
           /\ m = Propagation(e.message.cmd.payload, e.message.id + 1)
    BY <1>3, SaysIs DEF Refusal, CmdError, Validation, Event, Answer,
       QueryResponse, NodeQueryResponse, NodeCmdError, NodeEvent, NodeQuery
  <2>2. \A p, i : Propagation(p, i).cmd.payload = p /\ Propagation(p, i).cmd.op = "PropagateTransfer"
    BY DEF Propagation, NodeCmd, NodeTransfer
  <2>3. CASE /\ IsTransferCmd(e.message, "RegisterTransfer")
             /\ AgreementValid(e.message.cmd.cmd.payload)
             /\ m = Propagation(e.message.cmd.cmd.payload, 3)
    <3>1. m.cmd.payload = e.message.cmd.cmd.payload
      BY <2>2, <2>3
    <3>2. CASE e.message = first
      <4>1. /\ ~beginsTransfer /\ creditId = 3
            /\ theTransfer = first.cmd.cmd.payload.signed_transfer
        BY <2>3, <3>2 DEF IsTransferCmd, beginsTransfer, creditId, theTransfer
      <4>2. QED
        BY <2>3, <3>1, <3>2, <4>1 DEF IsPropagation
    <3>3. CASE beginsTransfer /\ IsRegistration(e.message)
      <4>1. creditId = 3
        BY <3>3 DEF beginsTransfer, creditId
      <4>2. QED
        BY <2>3, <3>1, <3>3, <4>1 DEF IsPropagation, IsRegistration
    <3>4. QED
      BY <1>0, <2>3, <3>2, <3>3 DEF IsTransferCmd
  <2>4. CASE /\ e.message.type = "NodeCmd" /\ e.message.cmd.op = "RegisterSectionPayout"
             /\ m = Propagation(e.message.cmd.payload, e.message.id + 1)
    <3>1. e.message = first
      <4>1. ASSUME IsPropagation(e.message) PROVE FALSE
        <5>1. e.message.cmd.op = "PropagateTransfer"
          BY <2>2, <4>1 DEF IsPropagation
        <5>2. QED
          BY <2>4, <5>1
      <4>2. QED
        BY <1>0, <2>4, <4>1
    <3>2. /\ ~beginsTransfer /\ creditId = first.id + 1
          /\ theTransfer = first.cmd.payload.signed_transfer
      BY <2>4, <3>1 DEF beginsTransfer, creditId, theTransfer
    <3>3. m.cmd.payload = e.message.cmd.payload
      BY <2>2, <2>4
    <3>4. QED
      BY <2>4, <3>1, <3>2, <3>3 DEF IsPropagation
  <2>5. QED
    BY <2>1, <2>3, <2>4
<1>4. QED
  BY <1>1, <1>2, <1>3

LEMMA CreditStep ==
    ASSUME Travels, KeysInv, CreditInv, Adds
    PROVE  CreditInv'
<1>0. /\ net \subseteq net' /\ scenario' = scenario /\ first' = first
      /\ (beginsTransfer' <=> beginsTransfer)
      /\ theTransfer' = theTransfer /\ creditId' = creditId
  BY DEF Adds, first, beginsTransfer, theTransfer, creditId
<1>1. /\ \A m : IsRegistration(m) => IsRegistration(m)'
      /\ \A m : IsPropagation(m) => IsPropagation(m)'
      /\ \A m : IsValidation(m) => IsValidation(m)'
  BY <1>0, DebitedStays DEF IsRegistration, IsPropagation, IsValidation, ValidatedBy, Replicas
<1>2. ASSUME NEW m \in said'
      PROVE  /\ m.type = "Cmd" => m = first \/ (beginsTransfer /\ IsRegistration(m))
             /\ m.type = "Event" => beginsTransfer /\ IsValidation(m)
             /\ m.type = "NodeCmd" => m = first \/ IsPropagation(m)
  <2>1. CASE m \in said
    BY <2>1 DEF CreditInv
  <2>2. ASSUME NEW n \in Nodes, NEW e \in net, Receives(n, e), Says(n, e, m)
        PROVE  /\ m.type # "Cmd"
               /\ m.type = "Event" => beginsTransfer /\ IsValidation(m)
               /\ m.type = "NodeCmd" => IsPropagation(m)
    BY <2>2, CreditSays
  <2>3. ASSUME NEW c, NEW v \in Validations(c), m = Registration(AgreementOf(c, v))
        PROVE  m.type = "Cmd" /\ beginsTransfer /\ IsRegistration(m)
    <3>1. m.type = "Cmd"
      BY <2>3 DEF Registration, Cmd
    <3>2. QED
      BY <2>3, <3>1, AgreementIsDebited
  <2>4. QED
    BY <2>1, <2>2, <2>3, SaidStep
<1>3. ASSUME NEW n \in Nodes, NEW k \in handled'[n]
      PROVE  \E e \in net' : Key(e.message) = k /\ Reaches(Destination(e), n)
  <2>1. \/ k \in handled[n]
        \/ \E e \in net : Receives(n, e) /\ k = Key(e.message)
    BY DEF Adds
  <2>2. QED
    BY <1>0, <2>1 DEF CreditInv, Receives
<1>4. scenario' \in Scenarios
  BY <1>0 DEF CreditInv
<1>5. \A m \in said' : /\ m.type = "Cmd" => m = first' \/ (beginsTransfer' /\ IsRegistration(m)')
                       /\ m.type = "Event" => beginsTransfer' /\ IsValidation(m)'
                       /\ m.type = "NodeCmd" => m = first' \/ IsPropagation(m)'
  BY <1>0, <1>1, <1>2
<1>6. QED
  BY <1>3, <1>4, <1>5 DEF CreditInv

LEMMA CreditInvCredits == CreditInv => CreditNeedsDebit
<1> SUFFICES ASSUME CreditInv, NEW n \in Nodes, NEW e \in net, e.message.type = "NodeCmd",
                    e.message.cmd.op = "PropagateTransfer", Key(e.message) \in handled[n]
             PROVE  /\ n \in Elders[SectionOf(NameOf(
                            e.message.cmd.payload.signed_transfer.transfer.to))]
                    /\ beginsTransfer => Debited(e.message.cmd.payload)
  BY DEF CreditNeedsDebit, Debited, Validators, Replicas
<1>1. e.message = first \/ IsPropagation(e.message)
  BY DEF CreditInv, said
<1>2. PICK d \in net : Key(d.message) = Key(e.message) /\ Reaches(Destination(d), n)
  BY DEF CreditInv
<1>3. d.message.type = "NodeCmd"
  BY <1>2 DEF Key
<1>4. d.message = first \/ IsPropagation(d.message)
  BY <1>3 DEF CreditInv, said
<1>5. ASSUME NEW m, IsPropagation(m)
      PROVE  /\ "id" \in DOMAIN m /\ m.id = creditId /\ m.cmd.enum = "Transfers"
             /\ m.cmd.op = "PropagateTransfer" /\ m.cmd.payload.signed_transfer = theTransfer
  BY <1>5 DEF IsPropagation, Propagation, NodeCmd, NodeTransfer
<1>6. first.type = "NodeCmd" =>
        /\ "id" \in DOMAIN first /\ first.id \in Nat
        /\ first.cmd.op = "PropagateTransfer" => first.cmd.enum = "Transfers"
  <2>1. IsRequest(first) /\ first.id \in Nat
    BY ScenariosAssumption DEF CreditInv, first
  <2>2. first.type = "NodeCmd" /\ first.cmd.op = "PropagateTransfer" =>
          first.cmd.enum = "Transfers"
    BY <2>1 DEF IsRequest, NodeCmds
  <2>3. QED
    BY <2>1, <2>2, RequestIs
<1>7. e.message.id = d.message.id
  BY <1>1, <1>2, <1>3, <1>4, <1>5, <1>6 DEF Key
<1>8. /\ d.message.cmd.op = "PropagateTransfer" /\ d.message.cmd.enum = "Transfers"
      /\ d.message.cmd.payload.signed_transfer = e.message.cmd.payload.signed_transfer
  <2>1. CASE first.type = "NodeCmd"
    <3>1. creditId = first.id + 1
      BY <2>1 DEF creditId
    <3>2. creditId # first.id
      BY <1>6, <2>1, <3>1
    <3>3. QED
      BY <1>1, <1>4, <1>5, <1>6, <1>7, <2>1, <3>2
  <2>2. CASE first.type # "NodeCmd"
    BY <1>1, <1>3, <1>4, <1>5, <2>2
  <2>3. QED
    BY <2>1, <2>2
<1>9. Destination(d) = Address("Section",
                         NameOf(d.message.cmd.payload.signed_transfer.transfer.to))
  <2>1. Destination(d) = NodeCmdDst(d.message.cmd)
    BY <1>3 DEF Destination
  <2>2. NodeCmdDst(d.message.cmd) = Address("Section", NodeTransferDst(d.message.cmd))
    BY <1>8 DEF NodeCmdDst
  <2>3. NodeTransferDst(d.message.cmd)
          = NameOf(d.message.cmd.payload.signed_transfer.transfer.to)
    BY <1>8 DEF NodeTransferDst, AgreementTo, SignedTo, TransferTo
  <2>4. QED
    BY <2>1, <2>2, <2>3
<1>10. n \in Elders[SectionOf(NameOf(e.message.cmd.payload.signed_transfer.transfer.to))]
  BY <1>2, <1>8, <1>9 DEF Reaches, Address
<1>11. beginsTransfer => Debited(e.message.cmd.payload)
  BY <1>1 DEF beginsTransfer, IsPropagation
<1>12. QED
  BY <1>10, <1>11

\* For any replicas, key sets, thresholds and changes of keys, money is credited only where
\* the transfer says, and a transfer that begins with its validation only after more than
\* Threshold replicas of the debited key have validated it (DebitAgreementProof,
\* transfer.rs:57; NodeCmd::dst_address, network.rs:248).
THEOREM CreditNeedsDebitHolds ==
    ASSUME Holder = "NodeKeypairs"
    PROVE  Spec => []CreditNeedsDebit
<1>1. Travels /\ KeysInv /\ CreditInv /\ [Next]_vars => CreditInv'
  BY StepAdds, CreditStep
<1>2. QED
  BY <1>1, CreditInit, CreditInvCredits, TravelsHolds, KeysHoldInNetwork, PTL DEF Spec

=============================================================================
