---------------------------- MODULE OverlayProofs ---------------------------
(* For any nodes, links, vouches and orders of messages: the scores a node    *)
(* writes are the least fixpoint of the vouches it read; types; no envelope   *)
(* goes in a circle; and one queued while all was quiet is under way until it *)
(* arrives or is overtaken.                                                   *)
EXTENDS Overlay, FiniteSetTheorems, SequenceTheorems, TLAPS

USE DEF Level, Unknown, Marginal, Full, Ultimate, Node

\* More trust in the signers gives no less trust in the subject.
LEMMA NewLevelMonotone ==
    ASSUME NEW rels, NEW t \in TrustMap, NEW u \in TrustMap, AtMost(t, u), NEW s \in Peer
    PROVE  NewLevel(rels, t, s) <= NewLevel(rels, u, s)
<1>1. \A p \in Peer, level \in Level :
          Contributes(rels, t, p, s, level) => Contributes(rels, u, p, s, level)
  <2> TAKE p \in Peer, level \in Level
  <2>1. t[p] \in Int /\ u[p] \in Int /\ t[p] <= u[p] BY DEF TrustMap, AtMost
  <2> QED BY <2>1 DEF Contributes
<1>2. Marginal \in Level /\ Full \in Level OBVIOUS
<1> QED BY <1>1, <1>2 DEF NewLevel

\* A subject's level is one of the graph's.
LEMMA NewLevelRange ==
    ASSUME NEW rels, NEW t, NEW s PROVE NewLevel(rels, t, s) \in Level
BY DEF NewLevel

\* Raising one subject keeps the map below every fixpoint.
LEMMA RaiseBelow ==
    ASSUME NEW own \in Peer, NEW rels, NEW t \in TrustMap, NEW f \in TrustMap,
           IsFixpoint(own, rels, f), AtMost(t, f), NEW s \in Unsettled(own, rels, t)
    PROVE  AtMost(Raise(rels, t, s), f)
<1>1. s \in Peer /\ s # own BY DEF Unsettled
<1>2. f[s] = NewLevel(rels, f, s) BY <1>1 DEF IsFixpoint, Unsettled
<1>3. NewLevel(rels, t, s) <= f[s] BY <1>1, <1>2, NewLevelMonotone
<1> QED BY <1>1, <1>3 DEF Raise, AtMost, TrustMap

\* The map of the node at its scores: typed, itself trusted, and below every
\* fixpoint of the vouches it read.
Scoring ==
    scoring # NoNode =>
        /\ scoring \in Node
        /\ trust \in TrustMap
        /\ trust[scoring] = Ultimate
        /\ \A f \in TrustMap : IsFixpoint(scoring, basis, f) => AtMost(trust, f)

ScoreInv == net \in Network /\ Scoring

\* Where compute starts, it is so.
LEMMA StartScoring ==
    ASSUME NEW own \in Node
    PROVE  /\ Start(own) \in TrustMap
           /\ Start(own)[own] = Ultimate
           /\ \A rels : \A f \in TrustMap : IsFixpoint(own, rels, f) => AtMost(Start(own), f)
BY DEF Start, TrustMap, IsFixpoint, AtMost

\* What is neither about lists nor about scores leaves both alone.
LEMMA Apart ==
    ASSUME \/ \E p \in Pair : HandleRelay(p[1], p[2]) \/ OverLimit(p[1], p[2])
           \/ \E v \in net.vouch : SetTrust(v[1], v[2], v[3])
           \/ \E e \in net.envelope : TakeNonce(e[1], e[2])
           \/ \E e \in drafts : SendObject(e)
           \/ UNCHANGED vars
    PROVE  UNCHANGED <<net, descriptors, learned, routes, restarted, scoring, basis, trust>>
<1> DEFINE Same == UNCHANGED <<net, descriptors, learned, routes, restarted, scoring, basis, trust>>
<1>1. ASSUME NEW p \in Pair, HandleRelay(p[1], p[2]) PROVE Same BY <1>1 DEF HandleRelay, store
<1>2. ASSUME NEW p \in Pair, OverLimit(p[1], p[2]) PROVE Same BY <1>2 DEF OverLimit, store
<1>3. ASSUME NEW v \in net.vouch, SetTrust(v[1], v[2], v[3]) PROVE Same BY <1>3 DEF SetTrust
<1>4. ASSUME NEW e \in net.envelope, TakeNonce(e[1], e[2]) PROVE Same BY <1>4 DEF TakeNonce, store
<1>5. ASSUME NEW e \in drafts, SendObject(e) PROVE Same BY <1>5 DEF SendObject, store
<1>6. CASE UNCHANGED vars BY <1>6 DEF vars
<1> QED BY <1>1, <1>2, <1>3, <1>4, <1>5, <1>6

\* The steps of a count leave the lists alone.
LEMMA ScoresApart ==
    ASSUME RefreshScores \/ \E s \in Node : RaiseScore(s)
    PROVE  UNCHANGED <<net, descriptors, learned, routes, restarted>>
<1>1. CASE RefreshScores BY <1>1 DEF RefreshScores
<1>2. ASSUME NEW s \in Node, RaiseScore(s) PROVE UNCHANGED <<net, descriptors, learned, routes, restarted>>
      BY <1>2 DEF RaiseScore, store
<1> QED BY <1>1, <1>2

\* No step changes the deployment.
LEMMA NetKept == ASSUME [Next]_vars PROVE net' = net
<1>1. \A p \in Pair : Connect(p[1], p[2]) => net' = net BY DEF Connect
<1>2. \A p \in Pair : HandleGossip(p[1], p[2]) \/ RecordRoutes(p[1], p[2]) => net' = net
      BY DEF HandleGossip, RecordRoutes
<1>3. \A s \in Node : Restart(s) => net' = net BY DEF Restart
<1> QED BY <1>1, <1>2, <1>3, Apart, ScoresApart DEF Next

LEMMA InitScore == Init => ScoreInv
BY DEF Init, ScoreInv, Scoring

LEMMA StepScore == ScoreInv /\ [Next]_vars => ScoreInv'
<1> SUFFICES ASSUME ScoreInv, [Next]_vars PROVE ScoreInv'
    OBVIOUS
<1> USE DEF ScoreInv
<1>1. net' = net BY NetKept
<1>2. ASSUME NEW n \in Node, scoring' = n, trust' = Start(n) PROVE ScoreInv'
      BY <1>1, <1>2, StartScoring DEF Scoring
<1>3. ASSUME NEW p \in Pair, HandleGossip(p[1], p[2]) PROVE ScoreInv'
      BY <1>2, <1>3 DEF HandleGossip, Pair
<1>4. CASE UNCHANGED <<scoring, basis, trust>> BY <1>1, <1>4 DEF Scoring
<1>5. ASSUME NEW s \in Node, RaiseScore(s) PROVE ScoreInv'
  <2> USE <1>5 DEF RaiseScore, Scoring
  <2>1. scoring \in Node /\ scoring' = scoring /\ basis' = basis /\ trust' = Raise(basis, trust, s)
        OBVIOUS
  <2>2. s # scoring BY DEF Unsettled
  <2>3. trust' \in TrustMap /\ trust'[scoring] = Ultimate
        BY <2>1, <2>2, NewLevelRange DEF Raise, TrustMap
  <2>4. \A f \in TrustMap : IsFixpoint(scoring, basis, f) => AtMost(trust', f)
        BY <2>1, RaiseBelow
  <2> QED BY <1>1, <2>1, <2>3, <2>4
<1>6. CASE RefreshScores BY <1>1, <1>6 DEF RefreshScores, Scoring
<1>7. \/ \E p \in Pair : HandleGossip(p[1], p[2])
      \/ \E s \in Node : RaiseScore(s)
      \/ RefreshScores
      \/ UNCHANGED <<scoring, basis, trust>>
  <2>1. \A p \in Pair : Connect(p[1], p[2]) \/ RecordRoutes(p[1], p[2]) => UNCHANGED <<scoring, basis, trust>>
        BY DEF Connect, RecordRoutes
  <2>2. \A s \in Node : Restart(s) => UNCHANGED <<scoring, basis, trust>> BY DEF Restart
  <2> QED BY <2>1, <2>2, Apart DEF Next
<1> QED BY <1>3, <1>4, <1>5, <1>6, <1>7

\* trust_graph.rs compute and refresh_scores: whatever the order of the subjects
\* and of the messages that brought the vouches, and whatever an owner's command
\* does meanwhile, the levels a node is about to write are the least fixpoint of
\* the vouches it has read.
THEOREM ScoresAreLeast == Spec => []ScoresLeast
<1>1. ScoreInv => ScoresLeast
      BY DEF ScoreInv, Scoring, ScoresLeast, Settled, IsLeastFixpoint, IsFixpoint
<1> QED BY <1>1, InitScore, StepScore, PTL DEF Spec

----------------------------------------------------------------------------
\* What n may have queued: announcements of what it has, and envelopes no
\* younger than their origin's counter.
Sendable ==
    [n \in Node |->
        {m \in Message : /\ m.type = "gossip" => m.announcements \subseteq descriptors[n] \cup {n}
                         /\ m.type = "relay" => m.of.nonce <= nonce[m.of.origin]}]

QueueOK(q, S) ==
    /\ q = [p \in Pair |-> q[p]]
    /\ \A p \in Pair : q[p] \in Seq(S[p[1]]) /\ Len(q[p]) <= QueueCap

\* Sessions have two ends, and each end a route for its session.
PoolOK == pool \subseteq Pair /\ \A p \in pool : <<p[2], p[1]>> \in pool /\ routes[p[1]][p[2]] # NoNode

StoreOK ==
    /\ peers \in [Node -> SUBSET Node]
    /\ descriptors \in [Node -> SUBSET Node]
    /\ \A n \in Node : descriptors[n] \subseteq peers[n] \ {n}
    /\ rel \in [Node -> Relationships] /\ score \in [Node -> TrustMap]
    /\ scoring \in Node \cup {NoNode} /\ basis \in Relationships /\ trust \in TrustMap

RoutesOK ==
    /\ learned \in [Pair -> SUBSET Node]
    /\ routes \in [Node -> [Node -> Node \cup {NoNode}]]

\* An envelope is no younger than the counter of its origin, in a draft, in a
\* queue or in the admission table it went through.
EnvelopesOK ==
    /\ nonce \in [Node -> 0..MaxNonce]
    /\ drafts \cup sent \subseteq Envelope
    /\ \A e \in drafts : e.nonce <= nonce[e.origin]
    /\ lastNonce \in [Node -> [Node -> Nat]]
    /\ \A n, o \in Node : lastNonce[n][o] <= nonce[o]

TypeInv ==
    /\ net \in Network
    /\ PoolOK
    /\ QueueOK(queue, Sendable)
    /\ StoreOK
    /\ RoutesOK
    /\ EnvelopesOK

LEMMA TypeInvTypeOK == TypeInv => TypeOK
<1> SUFFICES ASSUME TypeInv PROVE TypeOK
    OBVIOUS
<1>1. \A p \in Pair : Len(queue[p]) <= QueueCap /\ \A i \in DOMAIN queue[p] : queue[p][i] \in Message
  <2> TAKE p \in Pair
  <2>1. p[1] \in Node BY DEF Pair
  <2>2. queue[p] \in Seq(Sendable[p[1]]) /\ Len(queue[p]) <= QueueCap BY DEF TypeInv, QueueOK
  <2>3. Sendable[p[1]] \subseteq Message BY <2>1 DEF Sendable
  <2> QED BY <2>2, <2>3
<1>2. \A n, o \in Node : lastNonce[n][o] \in 0..nonce[o]
      BY DEF TypeInv, EnvelopesOK
<1> QED BY <1>1, <1>2 DEF TypeInv, TypeOK, PoolOK, StoreOK, RoutesOK, EnvelopesOK

\* A deployment's parts.
LEMMA NetType ==
    ASSUME net \in Network
    PROVE  /\ net.made \subseteq Vouch /\ net.vouch \subseteq Vouch
           /\ net.envelope \subseteq Node \X Node
BY NetworkAssumption DEF Deployment

LEMMA PairType ==
    ASSUME NEW p \in Pair
    PROVE  p[1] \in Node /\ p[2] \in Node /\ p[1] # p[2] /\ p = <<p[1], p[2]>> /\ <<p[2], p[1]>> \in Pair
BY DEF Pair

\* The queues stay well-formed when what may be queued grows.
LEMMA QueueGrows ==
    ASSUME NEW q, NEW S, NEW T, QueueOK(q, S), \A n \in Node : S[n] \subseteq T[n]
    PROVE  QueueOK(q, T)
<1> SUFFICES ASSUME NEW p \in Pair PROVE q[p] \in Seq(T[p[1]])
    BY DEF QueueOK
<1>1. p[1] \in Node BY PairType
<1>2. q[p] \in Seq(S[p[1]]) BY DEF QueueOK
<1>3. S[p[1]] \subseteq T[p[1]] BY <1>1
<1> QED BY <1>2, <1>3

\* try_send keeps the queues well-formed.
LEMMA TrySendOK ==
    ASSUME NEW q, NEW S, QueueOK(q, S), NEW n \in Node, NEW P, NEW m \in S[n]
    PROVE  QueueOK(TrySend(q, n, P, m), S)
<1> DEFINE r == TrySend(q, n, P, m)
<1>1. DOMAIN q = Pair BY DEF QueueOK
<1>2. r = [p \in Pair |-> r[p]] BY <1>1 DEF TrySend
<1>3. ASSUME NEW p \in Pair PROVE r[p] \in Seq(S[p[1]]) /\ Len(r[p]) <= QueueCap
  <2>1. q[p] \in Seq(S[p[1]]) /\ Len(q[p]) <= QueueCap BY DEF QueueOK
  <2>2. CASE p[1] = n /\ p[2] \in P /\ Len(q[p]) < QueueCap
    <3>1. r[p] = Append(q[p], m) BY <1>1, <2>2 DEF TrySend
    <3>4. m \in S[p[1]] BY <2>2
    <3>5. Append(q[p], m) \in Seq(S[p[1]]) /\ Len(Append(q[p], m)) = Len(q[p]) + 1
      <4> DEFINE T == S[p[1]]  s == q[p]
      <4>1. s \in Seq(T) /\ m \in T BY <2>1, <3>4
      <4> HIDE DEF T, s
      <4>2. Append(s, m) \in Seq(T) /\ Len(Append(s, m)) = Len(s) + 1 BY <4>1, AppendProperties
      <4> QED BY <4>2 DEF T, s
    <3>2. r[p] \in Seq(S[p[1]]) /\ Len(r[p]) = Len(q[p]) + 1 BY <3>1, <3>5
    <3>3. Len(q[p]) \in Nat BY <2>1, LenProperties
    <3> QED BY <2>2, <3>2, <3>3, BoundsAssumption
  <2>3. CASE ~ (p[1] = n /\ p[2] \in P /\ Len(q[p]) < QueueCap)
    <3>1. r[p] = q[p] BY <1>1, <2>3 DEF TrySend
    <3> QED BY <2>1, <3>1
  <2> QED BY <2>2, <2>3
<1> QED BY <1>2, <1>3 DEF QueueOK

\* Taking a message off a queue, too.
LEMMA RestOK ==
    ASSUME NEW S, QueueOK(queue, S), NEW a, NEW b, <<a, b>> \in Pair, queue[<<a, b>>] # <<>>
    PROVE  QueueOK(Rest(a, b), S) /\ Head(queue[<<a, b>>]) \in S[a]
<1>1. queue[<<a, b>>] \in Seq(S[a]) /\ Len(queue[<<a, b>>]) <= QueueCap BY DEF QueueOK
<1>2. /\ Tail(queue[<<a, b>>]) \in Seq(S[a]) /\ Head(queue[<<a, b>>]) \in S[a]
      /\ Len(Tail(queue[<<a, b>>])) = Len(queue[<<a, b>>]) - 1
      BY <1>1, HeadTailProperties
<1>3. Len(Tail(queue[<<a, b>>])) <= QueueCap BY <1>1, <1>2, LenProperties, BoundsAssumption
<1>4. DOMAIN queue = Pair BY DEF QueueOK
<1>5. Rest(a, b) = [p \in Pair |-> IF p = <<a, b>> THEN Tail(queue[p]) ELSE queue[p]]
      BY <1>4 DEF Rest
<1>6. ASSUME NEW p \in Pair PROVE Rest(a, b)[p] \in Seq(S[p[1]]) /\ Len(Rest(a, b)[p]) <= QueueCap
  <2>1. CASE p = <<a, b>> BY <1>2, <1>3, <1>5, <2>1
  <2>2. CASE p # <<a, b>> BY <1>5, <2>2 DEF QueueOK
  <2> QED BY <2>1, <2>2
<1> QED BY <1>2, <1>5, <1>6 DEF QueueOK

\* And ending sessions.
LEMMA EndOK ==
    ASSUME NEW S, QueueOK(queue, S), NEW P, End(P)
    PROVE  QueueOK(queue', S)
<1>1. ASSUME NEW p \in Pair PROVE queue'[p] \in {<<>>, queue[p]}
      BY DEF End
<1>2. queue' = [p \in Pair |-> queue'[p]] BY DEF End
<1>3. ASSUME NEW p \in Pair PROVE queue'[p] \in Seq(S[p[1]]) /\ Len(queue'[p]) <= QueueCap
  <2>1. CASE queue'[p] = <<>> BY <2>1, BoundsAssumption
  <2>2. CASE queue'[p] = queue[p] BY <2>2 DEF QueueOK
  <2> QED BY <1>1, <2>1, <2>2
<1> QED BY <1>2, <1>3 DEF QueueOK

LEMMA GossipSendable ==
    ASSUME StoreOK, NEW n \in Node PROVE Gossip(n) \in Sendable[n]
<1>1. rel[n] \in Relationships /\ descriptors[n] \cup {n} \subseteq Node BY DEF StoreOK
<1> QED BY <1>1 DEF Gossip, Sendable, Message, Descriptor

\* What n may send does not shrink.
LEMMA SendableGrows ==
    ASSUME \A n \in Node : descriptors[n] \subseteq descriptors'[n] /\ nonce[n] <= nonce'[n],
           nonce \in [Node -> Int], nonce' \in [Node -> Int]
    PROVE  \A n \in Node : Sendable[n] \subseteq Sendable'[n]
<1> SUFFICES ASSUME NEW n \in Node, NEW m \in Sendable[n] PROVE m \in Sendable'[n]
    OBVIOUS
<1>1. /\ m \in Message /\ (m.type = "gossip" => m.announcements \subseteq descriptors[n] \cup {n})
      /\ m.type = "relay" => m.of.nonce <= nonce[m.of.origin]
      BY DEF Sendable
<1>2. m.type = "relay" => m.of \in Envelope BY <1>1 DEF Message
<1>3. m.type = "relay" => m.of.nonce <= nonce'[m.of.origin]
  <2> SUFFICES ASSUME m.type = "relay" PROVE m.of.nonce <= nonce'[m.of.origin]
      OBVIOUS
  <2>1. m.of.origin \in Node /\ m.of.nonce \in Int BY <1>2 DEF Envelope
  <2> QED BY <1>1, <2>1
<1> QED BY <1>1, <1>3 DEF Sendable

LEMMA QueuePrimed ==
    ASSUME net' = net, QueueOK(queue', Sendable), \A n \in Node : Sendable[n] \subseteq Sendable'[n]
    PROVE  QueueOK(queue, Sendable)'
<1>1. QueueOK(queue', Sendable') BY QueueGrows
<1> QED BY <1>1 DEF QueueOK, Pair

\* Steps that leave store and counters alone leave Sendable alone.
LEMMA SendableSame ==
    ASSUME descriptors' = descriptors, nonce' = nonce PROVE Sendable' = Sendable
BY DEF Sendable, Message, Envelope, Descriptor

LEMMA NoVouchesType == NoVouches \in Relationships
BY DEF NoVouches, Relationships

LEMMA TypeInit == Init => TypeInv
<1> SUFFICES ASSUME Init PROVE TypeInv
    OBVIOUS
<1> USE DEF Init
<1>1. net \in Network /\ net.made \subseteq Vouch BY NetType
<1>2. PoolOK BY DEF PoolOK
<1>3. QueueOK(queue, Sendable) BY BoundsAssumption DEF QueueOK
<1>4. peers \in [Node -> SUBSET Node] BY <1>1 DEF Vouch
<1>5. rel \in [Node -> Relationships]
  <2> DEFINE Of(n, p) == {v \in net.made : p = <<n, v[2]>> /\ v[1] = n}
  <2>1. \A n \in Node : \A p \in Node \X Node : rel[n][p] \in Level \cup {NoVouch}
    <3> TAKE n \in Node
    <3> TAKE p \in Node \X Node
    <3>1. CASE \E v \in net.made : p = <<n, v[2]>> /\ v[1] = n
      <4>1. rel[n][p] = (CHOOSE v \in net.made : p = <<n, v[2]>> /\ v[1] = n)[3] BY <3>1
      <4>2. (CHOOSE v \in net.made : p = <<n, v[2]>> /\ v[1] = n) \in net.made BY <3>1
      <4> QED BY <1>1, <4>1, <4>2 DEF Vouch
    <3>2. CASE ~ \E v \in net.made : p = <<n, v[2]>> /\ v[1] = n BY <3>2
    <3> QED BY <3>1, <3>2
  <2>2. rel = [n \in Node |-> [p \in Node \X Node |-> rel[n][p]]] OBVIOUS
  <2> QED BY <2>1, <2>2 DEF Relationships
<1>6. StoreOK
  <2>1. descriptors \in [Node -> SUBSET Node] /\ \A n \in Node : descriptors[n] \subseteq peers[n] \ {n}
        OBVIOUS
  <2>2. score \in [Node -> TrustMap] BY NewLevelRange DEF TrustMap
  <2>3. trust \in TrustMap BY DEF TrustMap
  <2>4. basis \in Relationships BY NoVouchesType
  <2> QED BY <1>4, <1>5, <2>1, <2>2, <2>3, <2>4 DEF StoreOK
<1>7. RoutesOK BY DEF RoutesOK
<1>8. EnvelopesOK BY BoundsAssumption DEF EnvelopesOK
<1> QED BY <1>1, <1>2, <1>3, <1>6, <1>7, <1>8 DEF TypeInv

LEMMA ConnectType == ASSUME TypeInv, NEW a, NEW b, Connect(a, b) PROVE TypeInv'
<1> USE DEF TypeInv, Connect
<1>1. <<a, b>> \in Pair /\ a \in Node /\ b \in Node /\ a # b /\ <<b, a>> \in Pair BY PairType DEF Pair
<1>2. PoolOK'
  <2>1. pool' \subseteq Pair' BY <1>1 DEF PoolOK, Pair
  <2>2. routes'[a][b] # NoNode /\ routes'[b][a] # NoNode BY <1>1, NoNodeAssumption DEF RoutesOK
  <2>3. \A n, d \in Node : routes[n][d] # NoNode => routes'[n][d] # NoNode
        BY <1>1, NoNodeAssumption DEF RoutesOK
  <2>4. ASSUME NEW p \in pool PROVE <<p[2], p[1]>> \in pool' /\ routes'[p[1]][p[2]] # NoNode
        BY <2>3, PairType DEF PoolOK
  <2>5. pool' = pool \cup {<<a, b>>, <<b, a>>} OBVIOUS
  <2> HIDE DEF Connect, TypeInv
  <2>6. ASSUME NEW p \in pool' PROVE <<p[2], p[1]>> \in pool' /\ routes'[p[1]][p[2]] # NoNode
    <3>1. CASE p = <<a, b>> BY <2>2, <2>5, <3>1
    <3>2. CASE p = <<b, a>> BY <2>2, <2>5, <3>2
    <3> QED BY <2>4, <2>5, <3>1, <3>2
  <2> QED BY <2>1, <2>6 DEF PoolOK
<1>3. QueueOK(queue', Sendable)
  <2>1. Gossip(a) \in Sendable[a] /\ Gossip(b) \in Sendable[b] BY <1>1, GossipSendable
  <2>2. DOMAIN queue = Pair BY DEF QueueOK
  <2>3. ASSUME NEW p \in Pair PROVE queue'[p] \in Seq(Sendable[p[1]]) /\ Len(queue'[p]) <= QueueCap
    <3>1. CASE p = <<a, b>>
      <4>1. queue'[p] = <<Gossip(a)>> BY <1>1, <2>2, <3>1
      <4>2. <<Gossip(a)>> \in Seq(Sendable[a]) BY <2>1
      <4>3. Len(<<Gossip(a)>>) <= QueueCap BY BoundsAssumption
      <4>4. Sendable[p[1]] = Sendable[a] BY <3>1
      <4> QED BY <4>1, <4>2, <4>3, <4>4
    <3>2. CASE p = <<b, a>>
      <4>1. queue'[p] = <<Gossip(b)>> BY <1>1, <2>2, <3>2
      <4>2. <<Gossip(b)>> \in Seq(Sendable[b]) BY <2>1
      <4>3. Len(<<Gossip(b)>>) <= QueueCap BY BoundsAssumption
      <4>4. Sendable[p[1]] = Sendable[b] BY <3>2
      <4> QED BY <4>1, <4>2, <4>3, <4>4
    <3>3. CASE p \notin {<<a, b>>, <<b, a>>}
      <4>1. queue'[p] = queue[p] BY <2>2, <3>3
      <4> QED BY <4>1 DEF QueueOK
    <3> QED BY <3>1, <3>2, <3>3
  <2>4. queue' = [p \in Pair |-> queue'[p]] BY <2>2
  <2> QED BY <2>3, <2>4 DEF QueueOK
<1>4. QueueOK(queue, Sendable)' BY <1>3, QueuePrimed, SendableSame DEF envelopes
<1>5. StoreOK'
  <2>1. peers' \in [Node -> SUBSET Node] BY <1>1 DEF StoreOK, PinPeer
  <2>2. \A n \in Node : peers[n] \subseteq peers'[n] BY <1>1 DEF StoreOK, PinPeer
  <2> QED BY <2>1, <2>2 DEF StoreOK
<1>6. RoutesOK' BY <1>1 DEF RoutesOK, Pair
<1>7. EnvelopesOK' BY DEF EnvelopesOK, envelopes
<1> QED BY <1>2, <1>4, <1>5, <1>6, <1>7

LEMMA HandleGossipType == ASSUME TypeInv, NEW a, NEW b, <<a, b>> \in Pair, HandleGossip(a, b) PROVE TypeInv'
<1> USE DEF TypeInv
<1> DEFINE m == Head(queue[<<a, b>>])
           D == {d \in m.announcements : Acceptable(a, b, d)}
<1>1. a \in Node /\ b \in Node /\ a # b BY PairType
<1>2. m \in Sendable[a] /\ QueueOK(Rest(a, b), Sendable) BY RestOK DEF HandleGossip
<1>3. m \in Message /\ m.type = "gossip" BY <1>1, <1>2 DEF Sendable, HandleGossip
<1>4. m.announcements \subseteq Node /\ m.vouches \in Relationships BY <1>3 DEF Message, Descriptor
<1>5. D \subseteq Node \ {b} BY <1>4 DEF Acceptable
<1>6. /\ peers' = [peers EXCEPT ![b] = @ \cup D]
      /\ descriptors' = [descriptors EXCEPT ![b] = @ \cup D]
      /\ learned' = [learned EXCEPT ![<<a, b>>] = D \ descriptors[b]]
      /\ rel' = [rel EXCEPT ![b] = Merge(@, m.vouches, peers'[b])]
      /\ queue' = Rest(a, b) /\ scoring' = b /\ basis' = rel'[b] /\ trust' = Start(b)
      BY DEF HandleGossip, UpsertPeer, StoreDescriptor, Learned
<1>7. /\ net' = net /\ pool' = pool /\ score' = score /\ routes' = routes
      /\ nonce' = nonce /\ drafts' = drafts /\ lastNonce' = lastNonce /\ sent' = sent
      BY DEF HandleGossip, envelopes
<1> HIDE DEF D, m
<1>8. PoolOK' BY <1>7 DEF PoolOK, Pair
<1>9. QueueOK(queue, Sendable)'
  <2>1. \A n \in Node : descriptors[n] \subseteq descriptors'[n] BY <1>1, <1>6 DEF StoreOK
  <2>2. \A n \in Node : Sendable[n] \subseteq Sendable'[n]
        BY <1>7, <2>1, SendableGrows DEF EnvelopesOK
  <2> QED BY <1>2, <1>6, <1>7, <2>2, QueuePrimed
<1>10. StoreOK'
  <2>1. peers' \in [Node -> SUBSET Node] /\ descriptors' \in [Node -> SUBSET Node]
        BY <1>5, <1>6 DEF StoreOK
  <2>2. \A n \in Node : descriptors'[n] \subseteq peers'[n] \ {n} BY <1>1, <1>5, <1>6 DEF StoreOK
  <2>3. rel' \in [Node -> Relationships]
    <3>1. Merge(rel[b], m.vouches, peers'[b]) \in Relationships
          BY <1>1, <1>4 DEF Merge, Relationships, StoreOK
    <3> QED BY <1>6, <3>1 DEF StoreOK
  <2>4. trust' \in TrustMap BY <1>1, <1>6, StartScoring
  <2>5. basis' \in Relationships BY <1>1, <1>6, <2>3
  <2> QED BY <1>1, <1>6, <1>7, <2>1, <2>2, <2>3, <2>4, <2>5 DEF StoreOK
<1>11. RoutesOK' BY <1>5, <1>6, <1>7 DEF RoutesOK, Pair
<1>12. EnvelopesOK' BY <1>7 DEF EnvelopesOK
<1> QED BY <1>7, <1>8, <1>9, <1>10, <1>11, <1>12

\* The scores and the vouches of the owner: the store alone changes.
LEMMA ScoreType ==
    ASSUME TypeInv,
           \/ \E s \in Node : RaiseScore(s)
           \/ RefreshScores
           \/ \E v \in net.vouch : SetTrust(v[1], v[2], v[3])
    PROVE  TypeInv'
<1> USE DEF TypeInv
<1>1. /\ net' = net /\ pool' = pool /\ queue' = queue /\ peers' = peers /\ descriptors' = descriptors
      /\ learned' = learned /\ routes' = routes
      /\ nonce' = nonce /\ drafts' = drafts /\ lastNonce' = lastNonce /\ sent' = sent
      BY DEF RaiseScore, RefreshScores, SetTrust, store, envelopes
<1>2. PoolOK' /\ RoutesOK' /\ EnvelopesOK' BY <1>1 DEF PoolOK, RoutesOK, EnvelopesOK, Pair
<1>3. QueueOK(queue, Sendable)' BY <1>1, SendableSame DEF QueueOK, Pair
<1> DEFINE Typed == /\ rel' \in [Node -> Relationships] /\ score' \in [Node -> TrustMap]
                    /\ scoring' \in Node \cup {NoNode} /\ basis' \in Relationships
                    /\ trust' \in TrustMap
<1>4. Typed
  <2>1. ASSUME NEW s \in Node, RaiseScore(s) PROVE Typed
    <3>1. trust' \in TrustMap BY <2>1, NewLevelRange DEF RaiseScore, Raise, TrustMap, StoreOK
    <3> QED BY <2>1, <3>1 DEF RaiseScore, store, StoreOK
  <2>2. CASE RefreshScores
    <3>1. score' \in [Node -> TrustMap] BY <2>2 DEF RefreshScores, StoreOK, TrustMap
    <3> QED BY <2>2, <3>1, NoVouchesType DEF RefreshScores, StoreOK
  <2>3. ASSUME NEW v \in net.vouch, SetTrust(v[1], v[2], v[3]) PROVE Typed
    <3>1. v[1] \in Node /\ v[2] \in Node /\ v[3] \in Level BY NetType DEF Vouch
    <3>2. rel' \in [Node -> Relationships]
          BY <2>3, <3>1 DEF SetTrust, SetRelationship, StoreOK, Relationships
    <3>3. PICK map \in TrustMap :
              score' = [score EXCEPT ![v[1]] = [p \in Node |-> IF p \in peers[v[1]] THEN map[p] ELSE @[p]]]
          BY <2>3 DEF SetTrust
    <3>4. score' \in [Node -> TrustMap] BY <3>1, <3>3 DEF StoreOK, TrustMap
    <3> QED BY <2>3, <3>2, <3>4 DEF SetTrust, StoreOK
  <2> QED BY <2>1, <2>2, <2>3
<1>5. StoreOK' BY <1>1, <1>4 DEF StoreOK
<1> QED BY <1>1, <1>2, <1>3, <1>5

LEMMA RecordRoutesType == ASSUME TypeInv, NEW a, NEW b, RecordRoutes(a, b) PROVE TypeInv'
<1> USE DEF TypeInv, RecordRoutes
<1>1. <<a, b>> \in Pair /\ a \in Node /\ b \in Node BY PairType
<1>2. PoolOK' BY <1>1, NoNodeAssumption DEF PoolOK, Pair, RoutesOK
<1>3. QueueOK(queue', Sendable) BY <1>1, GossipSendable, TrySendOK
<1>4. QueueOK(queue, Sendable)' BY <1>3, QueuePrimed, SendableSame DEF store, envelopes
<1>5. StoreOK' /\ EnvelopesOK' BY DEF StoreOK, EnvelopesOK, store, envelopes
<1>6. RoutesOK' BY <1>1 DEF RoutesOK, Pair
<1> QED BY <1>2, <1>4, <1>5, <1>6

LEMMA TakeNonceType ==
    ASSUME TypeInv, NEW o, NEW to, <<o, to>> \in net.envelope, TakeNonce(o, to) PROVE TypeInv'
<1> USE DEF TypeInv, TakeNonce
<1>1. o \in Node /\ to \in Node BY NetType
<1>2. nonce' \in [Node -> 0..MaxNonce] /\ (\A n \in Node : nonce[n] <= nonce'[n]) /\ nonce'[o] = nonce[o] + 1
      BY <1>1, BoundsAssumption DEF EnvelopesOK
<1>3. PoolOK' /\ StoreOK' /\ RoutesOK' BY DEF PoolOK, StoreOK, RoutesOK, store, Pair
<1>4. QueueOK(queue, Sendable)'
  <2>1. \A n \in Node : Sendable[n] \subseteq Sendable'[n]
        BY <1>2, SendableGrows DEF store, EnvelopesOK
  <2> QED BY <2>1, QueuePrimed
<1>5. EnvelopesOK'
  <2> DEFINE e == [origin |-> o, to |-> to, nonce |-> nonce[o] + 1]
  <2>1. e \in Envelope /\ e.nonce <= nonce'[e.origin] BY <1>1, <1>2, BoundsAssumption DEF Envelope, EnvelopesOK
  <2>2. drafts' = drafts \cup {e} OBVIOUS
  <2>3. \A f \in drafts' : f.nonce <= nonce'[f.origin]
    <3>1. ASSUME NEW f \in drafts PROVE f.nonce <= nonce'[f.origin]
      <4>1. f.origin \in Node /\ f.nonce \in Int BY DEF EnvelopesOK, Envelope
      <4> QED BY <1>2, <4>1 DEF EnvelopesOK
    <3> QED BY <2>1, <2>2, <3>1
  <2>4. \A n, p \in Node : lastNonce'[n][p] <= nonce'[p] BY <1>2 DEF EnvelopesOK
  <2> QED BY <1>2, <2>1, <2>2, <2>3, <2>4 DEF EnvelopesOK
<1> QED BY <1>3, <1>4, <1>5

LEMMA SendObjectType == ASSUME TypeInv, NEW e, SendObject(e) PROVE TypeInv'
<1> USE DEF TypeInv, SendObject
<1>1. e \in Envelope /\ e.nonce <= nonce[e.origin] /\ e.origin \in Node BY DEF EnvelopesOK, Envelope
<1>2. Relay(e, MaxHops) \in Sendable[e.origin] BY <1>1, BoundsAssumption DEF Relay, Sendable, Message
<1>3. QueueOK(queue', Sendable) BY <1>1, <1>2, TrySendOK
<1>4. QueueOK(queue, Sendable)' BY <1>3, QueuePrimed, SendableSame DEF store
<1>5. PoolOK' /\ StoreOK' /\ RoutesOK' BY DEF PoolOK, StoreOK, RoutesOK, store, Pair
<1>6. EnvelopesOK' BY <1>1 DEF EnvelopesOK
<1> QED BY <1>4, <1>5, <1>6

\* Ending sessions keeps the pool symmetric and routed.
LEMMA EndPool == ASSUME PoolOK, NEW P, P \subseteq Pair, End(P), net' = net, routes' = routes PROVE PoolOK'
<1> DEFINE ends == P \cup {<<p[2], p[1]>> : p \in P}
<1>1. pool' = pool \ ends BY DEF End
<1>2. ASSUME NEW p \in pool' PROVE <<p[2], p[1]>> \in pool'
  <2>1. p \in pool /\ p \notin ends /\ p = <<p[1], p[2]>> /\ <<p[2], p[1]>> \in pool
        BY <1>1, PairType DEF PoolOK
  <2>2. CASE <<p[2], p[1]>> \in P
    <3>1. <<p[1], p[2]>> \in ends BY <2>2
    <3> QED BY <2>1, <3>1
  <2>3. ASSUME NEW q \in P, <<p[2], p[1]>> = <<q[2], q[1]>> PROVE FALSE
    <3>1. q = p BY <2>1, <2>3, PairType
    <3> QED BY <2>1, <3>1
  <2> QED BY <1>1, <2>1, <2>2, <2>3
<1>3. pool' \subseteq pool BY <1>1
<1> QED BY <1>2, <1>3 DEF PoolOK, Pair

LEMMA HandleRelayType == ASSUME TypeInv, NEW a, NEW b, HandleRelay(a, b) PROVE TypeInv'
<1> USE DEF TypeInv
<1> DEFINE m == Head(queue[<<a, b>>])
           e == m.of
           admitted == KnownOrigin(a, b, e.origin) /\ Check(b, e)
<1>1. <<a, b>> \in Pair /\ a \in Node /\ b \in Node BY PairType DEF HandleRelay, PoolOK
<1>2. m \in Sendable[a] /\ QueueOK(Rest(a, b), Sendable) BY <1>1, RestOK DEF HandleRelay
<1>3. m \in Message /\ m.type = "relay" /\ e.nonce <= nonce[e.origin]
      BY <1>1, <1>2 DEF Sendable, HandleRelay
<1>4. m \in [type : {"relay"}, of : Envelope, hopsLeft : 0..MaxHops] BY <1>3 DEF Message
<1>5. e \in Envelope /\ e.origin \in Node /\ e.nonce \in 1..MaxNonce BY <1>4 DEF Envelope
<1>6. /\ net' = net /\ store' = store /\ scoring' = scoring /\ basis' = basis /\ trust' = trust
      /\ learned' = learned /\ routes' = routes /\ nonce' = nonce /\ drafts' = drafts /\ sent' = sent
      BY DEF HandleRelay
<1>7. lastNonce' = IF admitted THEN [lastNonce EXCEPT ![b][e.origin] = e.nonce] ELSE lastNonce
      BY DEF HandleRelay
<1>8. \/ End({<<a, b>>})
      \/ /\ m.hopsLeft > 0 /\ pool' = pool
         /\ \E P : queue' = TrySend(Rest(a, b), b, P, Forwarded(m))
      \/ queue' = Rest(a, b) /\ pool' = pool
      BY DEF HandleRelay
<1> HIDE DEF m, e, admitted
<1>9. PoolOK' /\ QueueOK(queue', Sendable)
  <2>1. CASE End({<<a, b>>}) BY <1>1, <1>6, <2>1, EndPool, EndOK
  <2>2. ASSUME m.hopsLeft > 0, pool' = pool, NEW P, queue' = TrySend(Rest(a, b), b, P, Forwarded(m))
        PROVE  PoolOK' /\ QueueOK(queue', Sendable)
    <3>1. Forwarded(m) = [type |-> "relay", of |-> m.of, hopsLeft |-> m.hopsLeft - 1]
          BY <1>4 DEF Forwarded
    <3>2. Forwarded(m) \in Sendable[b]
          BY <1>1, <1>3, <1>4, <2>2, <3>1, BoundsAssumption DEF Sendable, Message, e
    <3> QED BY <1>1, <1>2, <1>6, <2>2, <3>2, TrySendOK DEF PoolOK, Pair
  <2>3. CASE queue' = Rest(a, b) /\ pool' = pool BY <1>2, <1>6, <2>3 DEF PoolOK, Pair
  <2> QED BY <1>8, <2>1, <2>2, <2>3
<1>10. QueueOK(queue, Sendable)' BY <1>6, <1>9, QueuePrimed, SendableSame DEF store
<1>11. StoreOK' /\ RoutesOK' BY <1>6 DEF StoreOK, RoutesOK, store, Pair
<1>12. EnvelopesOK'
  <2>1. lastNonce' \in [Node -> [Node -> Nat]] BY <1>1, <1>5, <1>7 DEF EnvelopesOK
  <2>2. \A n, o \in Node : lastNonce'[n][o] <= nonce'[o]
        BY <1>1, <1>3, <1>5, <1>6, <1>7 DEF EnvelopesOK, e
  <2> QED BY <1>6, <2>1, <2>2 DEF EnvelopesOK
<1> QED BY <1>6, <1>9, <1>10, <1>11, <1>12

\* A frame dropped leaves the rest.
LEMMA OverLimitType == ASSUME TypeInv, NEW a, NEW b, <<a, b>> \in Pair, OverLimit(a, b) PROVE TypeInv'
<1> USE DEF TypeInv, OverLimit
<1>1. QueueOK(queue', Sendable) BY RestOK
<1>2. QueueOK(queue, Sendable)' BY <1>1, QueuePrimed, SendableSame DEF store, envelopes
<1>3. PoolOK' /\ StoreOK' /\ RoutesOK' BY DEF PoolOK, StoreOK, RoutesOK, store, Pair
<1>4. EnvelopesOK' BY DEF EnvelopesOK, envelopes
<1> QED BY <1>2, <1>3, <1>4

LEMMA RestartType == ASSUME TypeInv, NEW n \in Node, Restart(n) PROVE TypeInv'
<1> USE DEF TypeInv, Restart
<1>1. QueueOK(queue', Sendable) BY EndOK
<1>2. QueueOK(queue, Sendable)' BY <1>1, QueuePrimed, SendableSame DEF store
<1>3. PoolOK'
  <2>1. ASSUME NEW p \in pool' PROVE p \in pool /\ p[1] # n /\ p[2] # n
    <3> DEFINE Q == {q \in Pair : q[1] = n}
    <3>1. p \in pool /\ p \notin Q \cup {<<q[2], q[1]>> : q \in Q} BY DEF End
    <3>2. p \in Pair /\ p = <<p[1], p[2]>> /\ <<p[2], p[1]>> \in Pair BY <3>1, PairType DEF PoolOK
    <3>3. CASE p[2] = n
      <4>1. <<p[2], p[1]>> \in Q BY <3>2, <3>3
      <4>2. <<p[1], p[2]>> \in {<<q[2], q[1]>> : q \in Q} BY <4>1
      <4> QED BY <3>1, <3>2, <4>2
    <3> QED BY <3>1, <3>2, <3>3
  <2> QED BY <2>1 DEF End, PoolOK, RoutesOK, Pair
<1>4. StoreOK' BY DEF StoreOK, store
<1>5. RoutesOK' BY DEF RoutesOK, Pair
<1>6. EnvelopesOK' BY DEF EnvelopesOK
<1> QED BY <1>2, <1>3, <1>4, <1>5, <1>6

LEMMA TypeStep == TypeInv /\ [Next]_vars => TypeInv'
<1> SUFFICES ASSUME TypeInv, [Next]_vars PROVE TypeInv'
    OBVIOUS
<1>1. ASSUME NEW p \in Pair, Connect(p[1], p[2]) PROVE TypeInv' BY <1>1, ConnectType
<1>2. ASSUME NEW p \in Pair, HandleGossip(p[1], p[2]) PROVE TypeInv'
      BY <1>2, PairType, HandleGossipType
<1>3. ASSUME NEW p \in Pair, RecordRoutes(p[1], p[2]) PROVE TypeInv' BY <1>3, RecordRoutesType
<1>4. ASSUME NEW p \in Pair, HandleRelay(p[1], p[2]) PROVE TypeInv' BY <1>4, HandleRelayType
<1>5. CASE \/ \E s \in Node : RaiseScore(s)
           \/ RefreshScores
           \/ \E v \in net.vouch : SetTrust(v[1], v[2], v[3])
      BY <1>5, ScoreType
<1>6. ASSUME NEW s \in Node, Restart(s) PROVE TypeInv' BY <1>6, RestartType
<1>7. ASSUME NEW e \in net.envelope, TakeNonce(e[1], e[2]) PROVE TypeInv'
  <2>1. e = <<e[1], e[2]>> BY NetType DEF TypeInv
  <2> QED BY <1>7, <2>1, TakeNonceType
<1>8. ASSUME NEW e \in drafts, SendObject(e) PROVE TypeInv' BY <1>8, SendObjectType
<1>9. CASE UNCHANGED vars
  <2> USE <1>9 DEF vars
  <2>1. QueueOK(queue, Sendable)' BY SendableSame DEF TypeInv, QueueOK, Pair
  <2> QED BY <2>1 DEF TypeInv, PoolOK, StoreOK, RoutesOK, EnvelopesOK, Pair
<1>10. ASSUME NEW p \in Pair, OverLimit(p[1], p[2]) PROVE TypeInv' BY <1>10, PairType, OverLimitType
<1> QED BY <1>1, <1>2, <1>3, <1>4, <1>5, <1>6, <1>7, <1>8, <1>9, <1>10 DEF Next

\* What is stored, queued and routed has its type in every deployment: queues
\* within their cap, a session at both of its ends or at neither and routed at
\* both (connection.rs), a certificate for every descriptor (trust.rs), and no
\* nonce admitted that its origin has not taken (admission.rs).
THEOREM OverlayTypes == Spec => []TypeOK
<1> QED BY TypeInit, TypeStep, TypeInvTypeOK, PTL DEF Spec

----------------------------------------------------------------------------
\* n sends on to m what is for d, or will once it has recorded its route.
Through(d, n, m) == m # d /\ (routes[n][d] = m \/ (<<m, n>> \in Pair /\ d \in learned[<<m, n>>]))

\* A route, recorded or not yet, joins two nodes that have the descriptor; and
\* out of every set of nodes one has none into the set.
LoopInv ==
    /\ \A d, n, m \in Node : Through(d, n, m) => d \in descriptors[n] /\ d \in descriptors[m]
    /\ \A d \in Node : \A N \in (SUBSET (Node \ {d})) \ {{}} :
           \E n \in N : \A m \in N : ~ Through(d, n, m)

LEMMA LoopInvNoLoop == TypeInv /\ LoopInv => NoRoutingLoop
<1> SUFFICES ASSUME TypeInv, LoopInv, NEW d \in Node, NEW N \in (SUBSET (Node \ {d})) \ {{}}
             PROVE  \E n \in N : NextHop(n, d) \notin N
    BY DEF NoRoutingLoop
<1>1. PICK n \in N : \A m \in N : ~ Through(d, n, m) BY DEF LoopInv
<1>2. ASSUME NextHop(n, d) \in N PROVE FALSE
  <2>1. NextHop(n, d) # d BY <1>2
  <2>2. NextHop(n, d) = routes[n][d] BY <2>1 DEF NextHop
  <2>3. Through(d, n, NextHop(n, d)) BY <2>1, <2>2 DEF Through
  <2> QED BY <1>1, <1>2, <2>3
<1> QED BY <1>2

\* Where no node gains a route, none gains a loop.
LEMMA LoopFewer ==
    ASSUME LoopInv, \A d, n, m \in Node : Through(d, n, m)' => Through(d, n, m),
           \A n \in Node : descriptors[n] \subseteq descriptors'[n]
    PROVE  LoopInv'
<1>1. \A d, n, m \in Node : Through(d, n, m)' => d \in descriptors'[n] /\ d \in descriptors'[m]
      BY DEF LoopInv
<1>2. ASSUME NEW d \in Node, NEW N \in (SUBSET (Node \ {d})) \ {{}}
      PROVE  \E n \in N : \A m \in N : ~ Through(d, n, m)'
  <2>1. PICK n \in N : \A m \in N : ~ Through(d, n, m) BY DEF LoopInv
  <2> QED BY <2>1
<1> QED BY <1>1, <1>2 DEF LoopInv

\* A list teaches b only what its sender knew and b did not: no route led
\* through b, so the new ones close no loop.
LEMMA HandleGossipLoop ==
    ASSUME TypeInv, LoopInv, NEW a, NEW b, <<a, b>> \in Pair, HandleGossip(a, b) PROVE LoopInv'
<1> DEFINE m == Head(queue[<<a, b>>])
           D == {d \in m.announcements : Acceptable(a, b, d)}
           New == D \ descriptors[b]
<1>1. a \in Node /\ b \in Node /\ a # b BY PairType
<1>2. m \in Sendable[a] BY RestOK DEF HandleGossip, TypeInv
<1>3. m \in Message /\ m.type = "gossip" /\ m.announcements \subseteq descriptors[a] \cup {a}
      BY <1>1, <1>2 DEF Sendable, HandleGossip
<1>4. D \subseteq (descriptors[a] \cup {a}) \ {b} /\ D \subseteq Node
      BY <1>3 DEF Acceptable, Message, Descriptor
<1>5. /\ descriptors' = [descriptors EXCEPT ![b] = @ \cup D]
      /\ learned' = [learned EXCEPT ![<<a, b>>] = New]
      /\ routes' = routes /\ net' = net /\ learned[<<a, b>>] = {}
      BY DEF HandleGossip, StoreDescriptor, Learned
<1> HIDE DEF D, m
<1>6. \A d, n, k \in Node : Through(d, n, k)' => Through(d, n, k) \/ (n = b /\ k = a /\ d \in New)
  <2> SUFFICES ASSUME NEW d \in Node, NEW n \in Node, NEW k \in Node, Through(d, n, k)', ~ Through(d, n, k)
               PROVE  n = b /\ k = a /\ d \in New
      OBVIOUS
  <2>1. Pair' = Pair BY <1>5 DEF Pair
  <2>2. <<k, n>> \in Pair /\ d \in learned'[<<k, n>>] /\ d \notin learned[<<k, n>>]
        BY <1>5, <2>1 DEF Through
  <2>3. <<k, n>> = <<a, b>>
    <3>1. CASE <<k, n>> # <<a, b>> BY <1>5, <2>2, <3>1 DEF TypeInv, RoutesOK
    <3> QED BY <3>1
  <2>4. learned'[<<a, b>>] = New BY <1>5 DEF TypeInv, RoutesOK
  <2> QED BY <2>2, <2>3, <2>4
<1>7. \A n \in Node : descriptors[n] \subseteq descriptors'[n] BY <1>1, <1>5 DEF TypeInv, StoreOK
<1>8. \A d \in New : d \in descriptors'[b] /\ (d # a => d \in descriptors'[a])
      BY <1>1, <1>4, <1>5, <1>7 DEF TypeInv, StoreOK
<1>9. \A d, n, k \in Node : Through(d, n, k)' => k # d BY DEF Through
<1>10. \A d, n, k \in Node : Through(d, n, k)' => d \in descriptors'[n] /\ d \in descriptors'[k]
       BY <1>6, <1>7, <1>8, <1>9 DEF LoopInv
<1>11. ASSUME NEW d \in Node, NEW N \in (SUBSET (Node \ {d})) \ {{}}
       PROVE  \E n \in N : \A k \in N : ~ Through(d, n, k)'
  <2>1. CASE d \notin New
    <3>1. PICK n \in N : \A k \in N : ~ Through(d, n, k) BY DEF LoopInv
    <3> QED BY <1>6, <2>1, <3>1
  <2>2. CASE d \in New
    <3>1. \A n \in Node : ~ Through(d, n, b) /\ ~ Through(d, b, n) BY <1>1, <2>2 DEF LoopInv
    <3>2. CASE N = {b} BY <1>1, <1>6, <3>1, <3>2
    <3>3. CASE N \ {b} # {}
      <4>1. PICK n \in N \ {b} : \A k \in N \ {b} : ~ Through(d, n, k) BY <3>3 DEF LoopInv
      <4> QED BY <1>6, <3>1, <4>1
    <3>4. N = {b} \/ N \ {b} # {} OBVIOUS
    <3> QED BY <3>2, <3>3, <3>4
  <2> QED BY <2>1, <2>2
<1> QED BY <1>10, <1>11 DEF LoopInv

LEMMA LoopInit == Init => LoopInv
<1> SUFFICES ASSUME Init PROVE LoopInv
    OBVIOUS
<1>1. \A d, n, m \in Node : ~ Through(d, n, m) BY NoNodeAssumption DEF Through, Init
<1>2. ASSUME NEW d \in Node, NEW N \in (SUBSET (Node \ {d})) \ {{}}
      PROVE  \E n \in N : \A m \in N : ~ Through(d, n, m)
  <2>1. PICK n : n \in N OBVIOUS
  <2> QED BY <1>1, <2>1
<1> QED BY <1>1, <1>2 DEF LoopInv

LEMMA LoopStep == TypeInv /\ LoopInv /\ [Next]_vars => LoopInv'
<1> SUFFICES ASSUME TypeInv, LoopInv, [Next]_vars PROVE LoopInv'
    OBVIOUS
<1> DEFINE Fewer == /\ \A d, n, m \in Node : Through(d, n, m)' => Through(d, n, m)
                    /\ \A n \in Node : descriptors[n] \subseteq descriptors'[n]
<1>1. Fewer => LoopInv' BY LoopFewer
<1>2. ASSUME NEW p \in Pair, Connect(p[1], p[2]) PROVE Fewer
  <2>1. p[1] \in Node /\ p[2] \in Node BY PairType
  <2>2. ASSUME NEW d \in Node, NEW n \in Node PROVE routes'[n][d] \in {routes[n][d], d}
        BY <1>2, <2>1 DEF Connect, TypeInv, RoutesOK
  <2>3. learned' = learned /\ descriptors' = descriptors /\ net' = net BY <1>2 DEF Connect
  <2> QED BY <2>2, <2>3 DEF Through, Pair
<1>3. ASSUME NEW p \in Pair, HandleGossip(p[1], p[2]) PROVE LoopInv'
      BY <1>3, PairType, HandleGossipLoop
<1>4. ASSUME NEW p \in Pair, RecordRoutes(p[1], p[2]) PROVE Fewer
  <2> DEFINE a == p[1]  b == p[2]
  <2>1. a \in Node /\ b \in Node /\ p = <<a, b>> BY PairType
  <2>2. ASSUME NEW d \in Node, NEW n \in Node
        PROVE  routes'[n][d] = routes[n][d] \/ (n = b /\ routes'[n][d] = a /\ d \in learned[<<a, b>>])
    <3>1. routes' = [routes EXCEPT ![b] = [x \in Node |-> IF x \in learned[<<a, b>>] THEN a ELSE routes[b][x]]]
          BY <1>4 DEF RecordRoutes
    <3> HIDE DEF a, b
    <3> QED BY <2>1, <3>1 DEF TypeInv, RoutesOK
  <2>3. \A q \in Pair : learned'[q] \subseteq learned[q] BY <1>4 DEF RecordRoutes, TypeInv, RoutesOK
  <2>4. descriptors' = descriptors /\ net' = net BY <1>4 DEF RecordRoutes, store
  <2>5. Pair' = Pair BY <2>4 DEF Pair
  <2> HIDE DEF a, b
  <2>6. ASSUME NEW d \in Node, NEW n \in Node, NEW m \in Node, Through(d, n, m)' PROVE Through(d, n, m)
    <3>1. m # d /\ (routes'[n][d] = m \/ (<<m, n>> \in Pair /\ d \in learned'[<<m, n>>]))
          BY <2>5, <2>6 DEF Through
    <3>2. CASE <<m, n>> \in Pair /\ d \in learned'[<<m, n>>] BY <2>3, <3>1, <3>2 DEF Through
    <3>3. CASE routes'[n][d] = m BY <2>1, <2>2, <3>1, <3>3 DEF Through
    <3> QED BY <3>1, <3>2, <3>3
  <2> QED BY <2>4, <2>6
<1>5. ASSUME NEW s \in Node, Restart(s) PROVE Fewer
  <2>1. \A n, d \in Node : routes'[n][d] \in {routes[n][d], NoNode}
        BY <1>5 DEF Restart, TypeInv, RoutesOK
  <2>2. \A q \in Pair : learned'[q] \subseteq learned[q] BY <1>5 DEF Restart
  <2>3. descriptors' = descriptors /\ net' = net BY <1>5 DEF Restart, store
  <2>4. Pair' = Pair BY <2>3 DEF Pair
  <2>5. ASSUME NEW d \in Node, NEW n \in Node, NEW m \in Node, Through(d, n, m)' PROVE Through(d, n, m)
        BY <2>1, <2>2, <2>4, <2>5, NoNodeAssumption DEF Through
  <2> QED BY <2>3, <2>5
<1>6. CASE UNCHANGED <<net, learned, routes, descriptors>>
  <2>1. Pair' = Pair BY <1>6 DEF Pair
  <2>2. ASSUME NEW d \in Node, NEW n \in Node, NEW m \in Node, Through(d, n, m)' PROVE Through(d, n, m)
        BY <1>6, <2>1, <2>2 DEF Through
  <2>3. Fewer BY <1>6, <2>2
  <2> QED BY <1>1, <2>3
<1>7. \/ \E p \in Pair : \/ Connect(p[1], p[2]) \/ HandleGossip(p[1], p[2]) \/ RecordRoutes(p[1], p[2])
      \/ \E s \in Node : Restart(s)
      \/ UNCHANGED <<net, learned, routes, descriptors>>
      BY Apart, ScoresApart DEF Next
<1> QED BY <1>1, <1>2, <1>3, <1>4, <1>5, <1>6, <1>7

\* gossip.rs and relay.rs: whatever order sessions, lists, recordings and
\* restarts come in, an envelope never goes in a circle.
THEOREM RoutesNeverLoop == Spec => []NoRoutingLoop
<1> QED BY TypeInit, TypeStep, LoopInit, LoopStep, LoopInvNoLoop, PTL DEF Spec

----------------------------------------------------------------------------
\* What is in a queue, in whatever order.
Content(q) == {q[i] : i \in 1..Len(q)}

LEMMA ContentAppend ==
    ASSUME NEW S, NEW q \in Seq(S), NEW m \in S PROVE Content(Append(q, m)) = Content(q) \cup {m}
<1> DEFINE r == Append(q, m)
<1>1. Len(r) = Len(q) + 1 /\ Len(q) \in Nat /\ r[Len(r)] = m /\ \A i \in 1..Len(q) : r[i] = q[i]
      BY AppendProperties, LenProperties
<1> HIDE DEF r
<1>2. 1..Len(r) = 1..Len(q) \cup {Len(r)} BY <1>1
<1>3. Content(r) = {r[i] : i \in 1..Len(q)} \cup {m} BY <1>1, <1>2 DEF Content
<1>4. {r[i] : i \in 1..Len(q)} = Content(q) BY <1>1 DEF Content
<1> QED BY <1>3, <1>4 DEF r

LEMMA ContentTail ==
    ASSUME NEW S, NEW q \in Seq(S), q # <<>>
    PROVE  Content(q) = Content(Tail(q)) \cup {Head(q)}
<1> DEFINE r == Tail(q)
<1>1. /\ Len(r) = Len(q) - 1 /\ Len(q) \in Nat /\ Len(q) # 0 /\ Head(q) = q[1]
      /\ \A i \in 1..Len(r) : r[i] = q[i + 1]
      BY HeadTailProperties, LenProperties, EmptySeq
<1> HIDE DEF r
<1>2. \A i \in 1..Len(q) : i = 1 \/ (i - 1 \in 1..Len(r) /\ r[i - 1] = q[i]) BY <1>1
<1>3. \A i \in 1..Len(r) : i + 1 \in 1..Len(q) BY <1>1
<1>4. 1 \in 1..Len(q) BY <1>1
<1>5. Content(r) \subseteq Content(q) BY <1>1, <1>3 DEF Content
<1>6. Head(q) \in Content(q) BY <1>1, <1>4 DEF Content
<1>7. ASSUME NEW m \in Content(q) PROVE m \in Content(r) \cup {Head(q)}
  <2>1. PICK i \in 1..Len(q) : m = q[i] BY DEF Content
  <2> QED BY <1>1, <1>2, <2>1 DEF Content
<1> QED BY <1>5, <1>6, <1>7 DEF r

\* What try_send puts on the queues of n; nothing is lost unless one is full.
LEMMA ContentSend ==
    ASSUME NEW q, NEW S, QueueOK(q, S), NEW n \in Node, NEW P, NEW m \in S[n], NEW p \in Pair
    PROVE  /\ Content(q[p]) \subseteq Content(TrySend(q, n, P, m)[p])
           /\ Content(TrySend(q, n, P, m)[p]) \subseteq Content(q[p]) \cup {m}
           /\ ~ (p[1] = n /\ p[2] \in P) => Content(TrySend(q, n, P, m)[p]) = Content(q[p])
           /\ p[1] = n /\ p[2] \in P /\ ~ Overflows(q, n, P) => m \in Content(TrySend(q, n, P, m)[p])
<1>1. DOMAIN q = Pair BY DEF QueueOK
<1>2. q[p] \in Seq(S[p[1]]) /\ Len(q[p]) \in Nat BY LenProperties DEF QueueOK
<1>3. CASE p[1] = n /\ p[2] \in P /\ Len(q[p]) < QueueCap
  <2>1. TrySend(q, n, P, m)[p] = Append(q[p], m) BY <1>1, <1>3 DEF TrySend
  <2>2. m \in S[p[1]] BY <1>3
  <2>3. Content(Append(q[p], m)) = Content(q[p]) \cup {m} BY <1>2, <2>2, ContentAppend
  <2> QED BY <1>3, <2>1, <2>3
<1>4. CASE ~ (p[1] = n /\ p[2] \in P /\ Len(q[p]) < QueueCap)
  <2>1. TrySend(q, n, P, m)[p] = q[p] BY <1>1, <1>4 DEF TrySend
  <2>2. p[1] = n /\ p[2] \in P => Overflows(q, n, P) BY <1>1, <1>2, <1>4, BoundsAssumption DEF Overflows
  <2> QED BY <2>1, <2>2
<1> QED BY <1>3, <1>4

LEMMA ContentRest ==
    ASSUME NEW S, QueueOK(queue, S), NEW a, NEW b, <<a, b>> \in Pair, queue[<<a, b>>] # <<>>
    PROVE  /\ Content(queue[<<a, b>>]) = Content(Rest(a, b)[<<a, b>>]) \cup {Head(queue[<<a, b>>])}
           /\ \A p \in Pair \ {<<a, b>>} : Rest(a, b)[p] = queue[p]
<1>1. queue[<<a, b>>] \in Seq(S[a]) /\ DOMAIN queue = Pair BY DEF QueueOK
<1>2. Rest(a, b) = [p \in Pair |-> IF p = <<a, b>> THEN Tail(queue[p]) ELSE queue[p]]
      BY <1>1 DEF Rest
<1>3. Rest(a, b)[<<a, b>>] = Tail(queue[<<a, b>>]) BY <1>2
<1> QED BY <1>1, <1>2, <1>3, ContentTail

LEMMA ContentEnd ==
    ASSUME NEW P, End(P), NEW p \in Pair
    PROVE  Content(queue'[p]) \subseteq Content(queue[p]) /\ (p \in pool' => queue'[p] = queue[p])
<1>1. Content(<<>>) = {} BY DEF Content
<1> QED BY <1>1 DEF End

----------------------------------------------------------------------------
\* The envelopes in a queue, in any queue, and anywhere.
Relayed(q) == {m.of : m \in {x \in Content(q) : x.type = "relay"}}
OnTheWire == UNION {Relayed(queue[p]) : p \in Pair}
Made == drafts \cup sent \cup OnTheWire

\* An envelope is known by its origin and its nonce, is new to every node as long
\* as it is a draft, and whoever it is for has it when it has admitted its nonce.
EnvelopeInv ==
    /\ \A e \in Made : e \in Envelope /\ e.nonce <= nonce[e.origin]
    /\ \A e, f \in Made : e.origin = f.origin /\ e.nonce = f.nonce => e = f
    /\ \A e \in drafts : e \notin OnTheWire /\ \A n \in Node : lastNonce[n][e.origin] # e.nonce
    /\ \A e \in Made : lastNonce[e.to][e.origin] = e.nonce => e \in arrived

\* A message taken off the queue is on it.
LEMMA HeadHeld ==
    ASSUME TypeInv, NEW a, NEW b, <<a, b>> \in Pair, queue[<<a, b>>] # <<>>
    PROVE  /\ a \in Node /\ b \in Node /\ a # b
           /\ Head(queue[<<a, b>>]) \in Sendable[a] /\ Head(queue[<<a, b>>]) \in Message
           /\ Content(queue[<<a, b>>]) = Content(Rest(a, b)[<<a, b>>]) \cup {Head(queue[<<a, b>>])}
           /\ \A p \in Pair \ {<<a, b>>} : Rest(a, b)[p] = queue[p]
           /\ QueueOK(Rest(a, b), Sendable)
<1>1. a \in Node /\ b \in Node /\ a # b BY PairType
<1>2. QueueOK(Rest(a, b), Sendable) /\ Head(queue[<<a, b>>]) \in Sendable[a] BY RestOK DEF TypeInv
<1>3. Head(queue[<<a, b>>]) \in Message BY <1>1, <1>2 DEF Sendable
<1> QED BY <1>1, <1>2, <1>3, ContentRest DEF TypeInv

Admitted(a, b, e) == KnownOrigin(a, b, e.origin) /\ Check(b, e)

\* What handling m, an envelope at the head of a's queue to b, does: it leaves that
\* queue and goes on to hop at most.
Handled(a, b, m, hop) ==
    /\ <<a, b>> \in Pair /\ a \in Node /\ b \in Node /\ m.of \in Envelope /\ m.type = "relay"
    /\ m \in [type : {"relay"}, of : Envelope, hopsLeft : 0..MaxHops]
    /\ m \in Content(queue[<<a, b>>])
    /\ \A p \in Pair : \A x \in Content(queue'[p]) :
           \/ x \in Content(queue[p])
           \/ /\ x = Forwarded(m) /\ p = <<b, hop>>
              /\ Admitted(a, b, m.of) /\ m.of.to # b /\ m.hopsLeft > 0 /\ queue'[p] # queue[p]
    /\ \/ pool' = pool
       \/ Admitted(a, b, m.of) /\ m.of.to # b /\ m.hopsLeft = 0
    /\ pool' \subseteq pool
    /\ \A p \in pool' : Content(queue[p]) \subseteq Content(queue'[p]) \cup (IF p = <<a, b>> THEN {m} ELSE {})
    /\ pool' = pool /\ ~ dropped' /\ Admitted(a, b, m.of) /\ m.of.to # b /\ hop \in Peers(b) =>
         Forwarded(m) \in Content(queue'[<<b, hop>>])
    /\ net' = net /\ UNCHANGED <<store, learned, routes, restarted, nonce, drafts, sent>>
    /\ dropped => dropped'
    /\ lastNonce' = IF Admitted(a, b, m.of) THEN [lastNonce EXCEPT ![b][m.of.origin] = m.of.nonce] ELSE lastNonce
    /\ arrived' = IF Admitted(a, b, m.of) /\ m.of.to = b THEN arrived \cup {m.of} ELSE arrived

LEMMA HandleRelayFacts ==
    ASSUME TypeInv, NEW a, NEW b, HandleRelay(a, b), NEW m, m = Head(queue[<<a, b>>]),
           NEW hop, hop = NextHop(b, m.of.to)
    PROVE  Handled(a, b, m, hop)
<1> DEFINE onward == Admitted(a, b, m.of) /\ m.of.to # b /\ hop # NoNode
<1>1. <<a, b>> \in Pair BY DEF HandleRelay, TypeInv, PoolOK
<1>2. /\ a \in Node /\ b \in Node
      /\ m \in Sendable[a] /\ m \in Message /\ m.type = "relay"
      /\ Content(queue[<<a, b>>]) = Content(Rest(a, b)[<<a, b>>]) \cup {m}
      /\ \A p \in Pair \ {<<a, b>>} : Rest(a, b)[p] = queue[p]
      /\ QueueOK(Rest(a, b), Sendable)
      BY <1>1, HeadHeld DEF HandleRelay
<1>3. m \in [type : {"relay"}, of : Envelope, hopsLeft : 0..MaxHops] /\ m.of \in Envelope
      BY <1>2 DEF Message
<1>4. /\ net' = net /\ UNCHANGED <<store, learned, routes, restarted, nonce, drafts, sent>>
      /\ lastNonce' = IF Admitted(a, b, m.of) THEN [lastNonce EXCEPT ![b][m.of.origin] = m.of.nonce] ELSE lastNonce
      /\ arrived' = IF Admitted(a, b, m.of) /\ m.of.to = b THEN arrived \cup {m.of} ELSE arrived
      BY DEF HandleRelay, Admitted
<1>5. \/ onward /\ m.hopsLeft = 0 /\ End({<<a, b>>}) /\ dropped' = dropped
      \/ /\ onward /\ m.hopsLeft > 0
         /\ queue' = TrySend(Rest(a, b), b, {hop} \cap Peers(b), Forwarded(m))
         /\ dropped' = (dropped \/ Overflows(Rest(a, b), b, {hop} \cap Peers(b)))
         /\ pool' = pool
      \/ ~ onward /\ queue' = Rest(a, b) /\ pool' = pool /\ dropped' = dropped
      BY DEF HandleRelay, Admitted
<1>6. /\ \A p \in Pair : Content(Rest(a, b)[p]) \subseteq Content(queue[p])
      /\ \A p \in Pair : Content(queue[p]) \subseteq Content(Rest(a, b)[p]) \cup (IF p = <<a, b>> THEN {m} ELSE {})
  <2> SUFFICES ASSUME NEW p \in Pair
               PROVE  /\ Content(Rest(a, b)[p]) \subseteq Content(queue[p])
                      /\ Content(queue[p]) \subseteq Content(Rest(a, b)[p]) \cup (IF p = <<a, b>> THEN {m} ELSE {})
      OBVIOUS
  <2>1. CASE p = <<a, b>> BY <1>2, <2>1
  <2>2. CASE p # <<a, b>> BY <1>2, <2>2
  <2> QED BY <2>1, <2>2
<1>7. Peers(b) \subseteq Node /\ (hop \in Peers(b) => hop # NoNode) BY NoNodeAssumption DEF Peers
<1> DEFINE New(p, x) == x = Forwarded(m) /\ p = <<b, hop>> /\ Admitted(a, b, m.of) /\ m.of.to # b /\ m.hopsLeft > 0 /\ queue'[p] # queue[p]
           Sound == /\ \A p \in Pair : \A x \in Content(queue'[p]) : x \in Content(queue[p]) \/ New(p, x)
                    /\ pool' = pool \/ (Admitted(a, b, m.of) /\ m.of.to # b /\ m.hopsLeft = 0)
                    /\ pool' \subseteq pool
                    /\ \A p \in pool' : Content(queue[p]) \subseteq Content(queue'[p]) \cup (IF p = <<a, b>> THEN {m} ELSE {})
                    /\ pool' = pool /\ ~ dropped' /\ Admitted(a, b, m.of) /\ m.of.to # b /\ hop \in Peers(b) =>
                        Forwarded(m) \in Content(queue'[<<b, hop>>])
                    /\ dropped => dropped'
<1>8. ASSUME onward, m.hopsLeft = 0, End({<<a, b>>}), dropped' = dropped PROVE Sound
  <2>1. <<a, b>> \in pool BY DEF HandleRelay
  <2>2. pool' # pool BY <1>8, <2>1 DEF End
  <2>3. \A p \in Pair : Content(queue'[p]) \subseteq Content(queue[p]) BY <1>8, ContentEnd
  <2>4. Admitted(a, b, m.of) /\ m.of.to # b /\ m.hopsLeft = 0 /\ dropped' = dropped BY <1>8
  <2> HIDE DEF onward
  <2>5. \A p \in Pair : \A x \in Content(queue'[p]) : x \in Content(queue[p]) \/ New(p, x)
    <3> HIDE DEF New
    <3> QED BY <2>3
  <2>6. pool' \subseteq pool /\ \A p \in pool' : queue'[p] = queue[p]
        BY <1>8, ContentEnd DEF End, TypeInv, PoolOK
  <2> HIDE DEF New
  <2> QED BY <2>2, <2>4, <2>5, <2>6
<1>9. ASSUME onward, m.hopsLeft > 0, pool' = pool,
             queue' = TrySend(Rest(a, b), b, {hop} \cap Peers(b), Forwarded(m)),
             dropped' = (dropped \/ Overflows(Rest(a, b), b, {hop} \cap Peers(b)))
      PROVE  Sound
  <2>1. Forwarded(m) = [type |-> "relay", of |-> m.of, hopsLeft |-> m.hopsLeft - 1]
        BY <1>3 DEF Forwarded
  <2>2. Forwarded(m) \in Sendable[b]
        BY <1>2, <1>3, <1>9, <2>1, BoundsAssumption DEF Sendable, Message
  <2>3. ASSUME NEW p \in Pair
        PROVE  /\ Content(Rest(a, b)[p]) \subseteq Content(queue'[p])
               /\ Content(queue'[p]) \subseteq Content(Rest(a, b)[p]) \cup {Forwarded(m)}
               /\ p # <<b, hop>> => Content(queue'[p]) = Content(Rest(a, b)[p])
               /\ p = <<b, hop>> /\ hop \in Peers(b) /\ ~ dropped' => Forwarded(m) \in Content(queue'[p])
    <3>1. p = <<p[1], p[2]>> BY PairType
    <3>2. ~ (p[1] = b /\ p[2] \in {hop} \cap Peers(b)) => Content(queue'[p]) = Content(Rest(a, b)[p])
          BY <1>2, <1>9, <2>2, ContentSend
    <3>3. Content(Rest(a, b)[p]) \subseteq Content(queue'[p]) BY <1>2, <1>9, <2>2, ContentSend
    <3>8. Content(queue'[p]) \subseteq Content(Rest(a, b)[p]) \cup {Forwarded(m)}
          BY <1>2, <1>9, <2>2, ContentSend
    <3>4. p[1] = b /\ p[2] \in {hop} \cap Peers(b) /\ ~ Overflows(Rest(a, b), b, {hop} \cap Peers(b)) =>
              Forwarded(m) \in Content(queue'[p])
          BY <1>2, <1>9, <2>2, ContentSend
    <3>5. p = <<b, hop>> <=> p[1] = b /\ p[2] = hop BY <3>1
    <3>6. ~ dropped' => ~ Overflows(Rest(a, b), b, {hop} \cap Peers(b)) BY <1>9
    <3>7. p[2] = hop /\ hop \in Peers(b) => p[2] \in {hop} \cap Peers(b) OBVIOUS
    <3> QED BY <3>2, <3>3, <3>4, <3>5, <3>6, <3>7, <3>8
  <2> HIDE DEF onward
  <2>4. Admitted(a, b, m.of) /\ m.of.to # b BY <1>9 DEF onward
  <2>5. ASSUME NEW p \in Pair, NEW x \in Content(queue'[p]), x \notin Content(queue[p]) PROVE New(p, x)
    <3>1. x \notin Content(Rest(a, b)[p]) BY <1>6, <2>5
    <3>2. x = Forwarded(m) /\ p = <<b, hop>> BY <2>3, <2>5, <3>1
    <3>3. queue'[p] # queue[p] BY <2>5
    <3> QED BY <1>9, <2>4, <3>2, <3>3
  <2>6. \A p \in Pair : Content(queue[p]) \subseteq Content(queue'[p]) \cup (IF p = <<a, b>> THEN {m} ELSE {})
        BY <1>6, <2>3
  <2>7. hop \in Peers(b) => <<b, hop>> \in Pair BY DEF Peers, TypeInv, PoolOK
  <2>8. ~ dropped' /\ hop \in Peers(b) => Forwarded(m) \in Content(queue'[<<b, hop>>]) BY <2>3, <2>7
  <2>9. pool \subseteq Pair BY DEF TypeInv, PoolOK
  <2> QED BY <1>9, <2>5, <2>6, <2>8, <2>9
<1>10. ASSUME ~ onward, queue' = Rest(a, b), pool' = pool, dropped' = dropped PROVE Sound
  <2>1. Admitted(a, b, m.of) /\ m.of.to # b => hop \notin Peers(b) BY <1>7, <1>10
  <2>2. queue' = Rest(a, b) /\ pool' = pool /\ dropped' = dropped BY <1>10
  <2> HIDE DEF onward
  <2>3. \A p \in Pair : Content(queue'[p]) \subseteq Content(queue[p]) BY <1>6, <2>2
  <2>4. \A p \in Pair : Content(queue[p]) \subseteq Content(queue'[p]) \cup (IF p = <<a, b>> THEN {m} ELSE {})
        BY <1>6, <2>2
  <2>5. \A p \in Pair : \A x \in Content(queue'[p]) : x \in Content(queue[p]) \/ New(p, x)
    <3> HIDE DEF New
    <3> QED BY <2>3
  <2> HIDE DEF New
  <2>6. pool \subseteq Pair BY DEF TypeInv, PoolOK
  <2> QED BY <2>1, <2>2, <2>4, <2>5, <2>6
<1>11. Sound BY <1>5, <1>8, <1>9, <1>10
<1>12. m \in Content(queue[<<a, b>>]) BY <1>2
<1> QED BY <1>1, <1>2, <1>3, <1>4, <1>11, <1>12 DEF Handled

----------------------------------------------------------------------------
\* A step that neither makes nor moves an envelope takes none out of a draft.
LEMMA EnvelopeFewer ==
    ASSUME TypeInv, EnvelopeInv, net' = net,
           \A p \in Pair : \A x \in Content(queue'[p]) : x.type = "relay" => x \in Content(queue[p]),
           drafts' \subseteq drafts, UNCHANGED <<nonce, sent, arrived>>,
           \A n, o \in Node : lastNonce'[n][o] \in {lastNonce[n][o], 0}
    PROVE  EnvelopeInv'
<1>1. Pair' = Pair BY DEF Pair
<1>2. OnTheWire' \subseteq OnTheWire
  <2>1. \A p \in Pair : Relayed(queue'[p]) \subseteq Relayed(queue[p]) BY DEF Relayed
  <2> QED BY <1>1, <2>1 DEF OnTheWire
<1>3. Made' \subseteq Made BY <1>2 DEF Made
<1>4. \A e \in Made : e \in Envelope /\ e.nonce # 0 /\ e.to \in Node /\ e.origin \in Node
      BY DEF EnvelopeInv, Envelope
<1>5. \A e \in drafts' : e \notin OnTheWire' /\ \A n \in Node : lastNonce'[n][e.origin] # e.nonce
      BY <1>2, <1>4 DEF EnvelopeInv, Made
<1>6. \A e \in Made' : lastNonce'[e.to][e.origin] = e.nonce => e \in arrived'
      BY <1>3, <1>4 DEF EnvelopeInv
<1>7. \A e \in Made' : e \in Envelope' /\ e.nonce <= nonce'[e.origin] BY <1>3 DEF EnvelopeInv, Envelope
<1>8. \A e, f \in Made' : e.origin = f.origin /\ e.nonce = f.nonce => e = f BY <1>3 DEF EnvelopeInv
<1> QED BY <1>5, <1>6, <1>7, <1>8 DEF EnvelopeInv

LEMMA EnvelopeInit == Init => EnvelopeInv
<1> SUFFICES ASSUME Init PROVE EnvelopeInv
    OBVIOUS
<1>1. \A p \in Pair : Relayed(queue[p]) = {} BY DEF Init, Relayed, Content
<1>2. OnTheWire = {} BY <1>1 DEF OnTheWire
<1> QED BY <1>2 DEF EnvelopeInv, Made, Init

\* A nonce just taken is nobody else's.
LEMMA TakeNonceEnvelope ==
    ASSUME TypeInv, EnvelopeInv, NEW o, NEW to, <<o, to>> \in net.envelope, TakeNonce(o, to) PROVE EnvelopeInv'
<1> DEFINE e == [origin |-> o, to |-> to, nonce |-> nonce[o] + 1]
<1>1. o \in Node /\ to \in Node BY NetType DEF TypeInv
<1>2. /\ nonce' = [nonce EXCEPT ![o] = @ + 1] /\ drafts' = drafts \cup {e} /\ nonce[o] < MaxNonce
      /\ net' = net /\ queue' = queue /\ sent' = sent /\ arrived' = arrived /\ lastNonce' = lastNonce
      BY DEF TakeNonce
<1>3. nonce \in [Node -> 0..MaxNonce] BY DEF TypeInv, EnvelopesOK
<1>4. e \in Envelope /\ e.origin = o /\ e.nonce = nonce[o] + 1 /\ e.to = to
      BY <1>1, <1>2, <1>3, BoundsAssumption DEF Envelope
<1> HIDE DEF e
<1>5. OnTheWire' = OnTheWire BY <1>2 DEF OnTheWire, Pair
<1>6. Made' = Made \cup {e} BY <1>2, <1>5 DEF Made
<1>7. nonce'[o] = nonce[o] + 1 /\ \A n \in Node : nonce[n] <= nonce'[n] BY <1>1, <1>2, <1>3
<1>8. \A f \in Made : f.origin \in Node /\ f.nonce \in Nat BY DEF EnvelopeInv, Envelope
<1>9. \A f \in Made : f.origin = o => f.nonce # e.nonce BY <1>3, <1>4, <1>8 DEF EnvelopeInv
<1>10. \A n \in Node : lastNonce[n][o] # e.nonce
  <2> TAKE n \in Node
  <2>1. lastNonce[n][o] \in Nat /\ lastNonce[n][o] <= nonce[o] BY <1>1 DEF TypeInv, EnvelopesOK
  <2> QED BY <1>1, <1>3, <1>4, <2>1
<1>11. \A f \in Made' : f \in Envelope' /\ f.nonce <= nonce'[f.origin]
  <2>1. \A f \in Made : f \in Envelope /\ f.nonce <= nonce[f.origin] BY DEF EnvelopeInv
  <2>2. ASSUME NEW f \in Made PROVE f.nonce <= nonce'[f.origin]
    <3>1. nonce[f.origin] \in Nat /\ nonce'[f.origin] \in Nat /\ nonce[f.origin] <= nonce'[f.origin]
          BY <1>2, <1>3, <1>7, <1>8
    <3> QED BY <1>8, <2>1, <3>1
  <2>3. e.nonce <= nonce'[e.origin] BY <1>1, <1>3, <1>4, <1>7
  <2> QED BY <1>4, <1>6, <2>1, <2>2, <2>3 DEF Envelope
<1>12. \A f, g \in Made' : f.origin = g.origin /\ f.nonce = g.nonce => f = g
  <2>1. \A f, g \in Made : f.origin = g.origin /\ f.nonce = g.nonce => f = g BY DEF EnvelopeInv
  <2> QED BY <1>4, <1>6, <1>9, <2>1
<1>13. \A f \in drafts' : f \notin OnTheWire' /\ \A n \in Node : lastNonce'[n][f.origin] # f.nonce
  <2>1. e \notin OnTheWire BY <1>4, <1>9 DEF Made
  <2>2. \A f \in drafts : f \notin OnTheWire /\ \A n \in Node : lastNonce[n][f.origin] # f.nonce
        BY DEF EnvelopeInv
  <2> QED BY <1>2, <1>4, <1>5, <1>10, <2>1, <2>2
<1>14. \A f \in Made' : lastNonce'[f.to][f.origin] = f.nonce => f \in arrived'
       BY <1>1, <1>2, <1>4, <1>6, <1>10 DEF EnvelopeInv
<1> QED BY <1>11, <1>12, <1>13, <1>14 DEF EnvelopeInv

\* A draft is sent once.
LEMMA SendObjectEnvelope == ASSUME TypeInv, EnvelopeInv, NEW e, SendObject(e) PROVE EnvelopeInv'
<1> DEFINE P == {NextHop(e.origin, e.to)} \cap Peers(e.origin)  m == Relay(e, MaxHops)
<1>1. /\ e \in drafts /\ drafts' = drafts \ {e} /\ queue' = TrySend(queue, e.origin, P, m)
      /\ sent' \subseteq sent \cup {e}
      /\ net' = net /\ nonce' = nonce /\ lastNonce' = lastNonce /\ arrived' = arrived
      BY DEF SendObject
<1>2. e \in Envelope /\ e.origin \in Node /\ e.nonce <= nonce[e.origin] /\ e \in Made
      BY <1>1 DEF EnvelopeInv, Envelope, Made
<1>3. m \in Sendable[e.origin] BY <1>2, BoundsAssumption DEF Relay, Sendable, Message
<1>4. m.of = e BY DEF Relay
<1> HIDE DEF P, m
<1>5. \A p \in Pair : Content(queue'[p]) \subseteq Content(queue[p]) \cup {m}
      BY <1>1, <1>2, <1>3, ContentSend DEF TypeInv
<1>6. \A p \in Pair : Relayed(queue'[p]) \subseteq Relayed(queue[p]) \cup {e}
      BY <1>4, <1>5 DEF Relayed
<1>7. Pair' = Pair BY <1>1 DEF Pair
<1>8. OnTheWire' \subseteq OnTheWire \cup {e} BY <1>6, <1>7 DEF OnTheWire
<1>9. Made' \subseteq Made BY <1>1, <1>2, <1>8 DEF Made
<1>10. \A f \in drafts' : f \notin OnTheWire' BY <1>1, <1>8 DEF EnvelopeInv
<1>11. Envelope' = Envelope BY DEF Envelope
<1> QED BY <1>1, <1>9, <1>10, <1>11 DEF EnvelopeInv

\* An envelope handled has its nonce Admitted(a, b, e), and arrives at whom it is for.
LEMMA HandleRelayEnvelope == ASSUME TypeInv, EnvelopeInv, NEW a, NEW b, HandleRelay(a, b) PROVE EnvelopeInv'
<1>0. PICK m, hop : m = Head(queue[<<a, b>>]) /\ hop = NextHop(b, m.of.to) OBVIOUS
<1> DEFINE e == m.of
<1>13. Handled(a, b, m, hop) BY <1>0, HandleRelayFacts
<1>1. /\ <<a, b>> \in Pair /\ b \in Node /\ m.of \in Envelope /\ m.type = "relay"
      /\ m \in Content(queue[<<a, b>>])
      /\ \A p \in Pair : \A x \in Content(queue'[p]) : x \in Content(queue[p]) \/ x = Forwarded(m)
      /\ net' = net /\ nonce' = nonce /\ drafts' = drafts /\ sent' = sent
      /\ lastNonce' = IF Admitted(a, b, e) THEN [lastNonce EXCEPT ![b][e.origin] = e.nonce] ELSE lastNonce
      /\ arrived' = IF Admitted(a, b, e) /\ e.to = b THEN arrived \cup {e} ELSE arrived
      /\ m \in [type : {"relay"}, of : Envelope, hopsLeft : 0..MaxHops]
      BY <1>13 DEF Handled
<1>2. Forwarded(m).of = m.of BY <1>1 DEF Forwarded
<1>3. e \in Made /\ e \in OnTheWire BY <1>1 DEF Made, OnTheWire, Relayed
<1>4. \A p \in Pair : Relayed(queue'[p]) \subseteq Relayed(queue[p]) \cup {e}
      BY <1>1, <1>2 DEF Relayed
<1>5. Pair' = Pair BY <1>1 DEF Pair
<1>6. OnTheWire' \subseteq OnTheWire BY <1>3, <1>4, <1>5 DEF OnTheWire
<1>7. Made' \subseteq Made BY <1>1, <1>6 DEF Made
<1>8. ASSUME NEW f \in Made, NEW n \in Node
      PROVE  lastNonce'[n][f.origin] = lastNonce[n][f.origin] \/ (lastNonce'[n][f.origin] = e.nonce /\ f.origin = e.origin /\ n = b /\ Admitted(a, b, e))
  <2>1. f.origin \in Node BY DEF EnvelopeInv, Envelope
  <2>2. lastNonce \in [Node -> [Node -> Nat]] BY DEF TypeInv, EnvelopesOK
  <2> QED BY <1>1, <2>1, <2>2
<1>9. \A f \in drafts' : f \notin OnTheWire' /\ \A n \in Node : lastNonce'[n][f.origin] # f.nonce
  <2> SUFFICES ASSUME NEW f \in drafts PROVE f \notin OnTheWire' /\ \A n \in Node : lastNonce'[n][f.origin] # f.nonce
      BY <1>1
  <2>1. f \notin OnTheWire /\ f \in Made BY DEF EnvelopeInv, Made
  <2>2. f.origin = e.origin => f.nonce # e.nonce BY <1>3, <2>1 DEF EnvelopeInv
  <2> QED BY <1>6, <1>8, <2>1, <2>2 DEF EnvelopeInv
<1>10. ASSUME NEW f \in Made', lastNonce'[f.to][f.origin] = f.nonce PROVE f \in arrived'
  <2>1. f \in Made /\ f.to \in Node BY <1>7 DEF EnvelopeInv, Envelope
  <2>2. CASE lastNonce'[f.to][f.origin] = lastNonce[f.to][f.origin] BY <1>1, <1>10, <2>1, <2>2 DEF EnvelopeInv
  <2>3. CASE lastNonce'[f.to][f.origin] = e.nonce /\ f.origin = e.origin /\ f.to = b /\ Admitted(a, b, e)
    <3>1. f = e BY <1>3, <1>10, <2>1, <2>3 DEF EnvelopeInv
    <3> QED BY <1>1, <2>3, <3>1
  <2> QED BY <1>8, <2>1, <2>2, <2>3
<1>11. \A f \in Made' : f \in Envelope' /\ f.nonce <= nonce'[f.origin] BY <1>1, <1>7 DEF EnvelopeInv, Envelope
<1>12. \A f, g \in Made' : f.origin = g.origin /\ f.nonce = g.nonce => f = g BY <1>7 DEF EnvelopeInv
<1> QED BY <1>9, <1>10, <1>11, <1>12 DEF EnvelopeInv

----------------------------------------------------------------------------
\* Nodes an envelope cannot go through again.
Passed(e) == {n \in Node \ {e.to} : lastNonce[n][e.origin] >= e.nonce}

\* Every hop of an envelope has passed one more node.
HopsInv ==
    restarted = {} => \A p \in Pair : \A m \in Content(queue[p]) :
        m.type = "relay" => MaxHops - m.hopsLeft <= Cardinality(Passed(m.of))

LEMMA HeldType ==
    ASSUME TypeInv, NEW p \in Pair, NEW m \in Content(queue[p])
    PROVE  m \in Message /\ (m.type = "relay" => m \in [type : {"relay"}, of : Envelope, hopsLeft : 0..MaxHops])
<1>1. p[1] \in Node BY PairType
<1>2. queue[p] \in Seq(Sendable[p[1]]) BY DEF TypeInv, QueueOK
<1>3. m \in Sendable[p[1]] BY <1>2 DEF Content
<1>4. m \in Message BY <1>1, <1>3 DEF Sendable
<1> QED BY <1>4 DEF Message

LEMMA PassedFinite ==
    ASSUME NEW e
    PROVE  IsFiniteSet(Passed(e)) /\ Cardinality(Passed(e)) \in Nat
<1>1. Passed(e) \subseteq Node /\ IsFiniteSet(Node) BY NodesAssumption DEF Passed
<1> QED BY <1>1, FS_Subset, FS_CardinalityType

LEMMA HopsKeep ==
    ASSUME TypeInv, HopsInv, net' = net, restarted \subseteq restarted', restarted' = {} =>
               \A n, o \in Node : lastNonce'[n][o] \in Int /\ lastNonce[n][o] <= lastNonce'[n][o],
           \A p \in Pair : \A m \in Content(queue'[p]) : m.type = "relay" =>
               m \in Content(queue[p]) \/ MaxHops - m.hopsLeft <= Cardinality(Passed(m.of)')
    PROVE  HopsInv'
<1> SUFFICES ASSUME restarted' = {}, NEW p \in Pair, NEW m \in Content(queue'[p]), m.type = "relay",
                    m \in Content(queue[p])
             PROVE  MaxHops - m.hopsLeft <= Cardinality(Passed(m.of)')
    BY DEF HopsInv, Pair
<1>1. m.of \in Envelope /\ m.hopsLeft \in 0..MaxHops BY HeldType
<1>2. MaxHops - m.hopsLeft <= Cardinality(Passed(m.of)) BY DEF HopsInv
<1>3. Passed(m.of) \subseteq Passed(m.of)'
  <2> SUFFICES ASSUME NEW n \in Node, lastNonce[n][m.of.origin] >= m.of.nonce
               PROVE  lastNonce'[n][m.of.origin] >= m.of.nonce
      BY DEF Passed
  <2>1. m.of.origin \in Node /\ m.of.nonce \in Int BY <1>1 DEF Envelope
  <2>2. lastNonce[n][m.of.origin] \in Int BY <2>1 DEF TypeInv, EnvelopesOK
  <2> QED BY <2>1, <2>2
<1>4. Passed(m.of)' \subseteq Node BY DEF Passed
<1>5. IsFiniteSet(Passed(m.of)') BY <1>4, NodesAssumption, FS_Subset
<1>6. Cardinality(Passed(m.of)) <= Cardinality(Passed(m.of)') BY <1>3, <1>5, FS_Subset
<1>7. Cardinality(Passed(m.of)) \in Nat /\ Cardinality(Passed(m.of)') \in Nat
      BY <1>5, PassedFinite, FS_CardinalityType
<1> QED BY <1>1, <1>2, <1>6, <1>7, BoundsAssumption

LEMMA HandleRelayHops == ASSUME TypeInv, HopsInv, NEW a, NEW b, HandleRelay(a, b) PROVE HopsInv'
<1>0. PICK m, hop : m = Head(queue[<<a, b>>]) /\ hop = NextHop(b, m.of.to) OBVIOUS
<1> DEFINE e == m.of
<1>1. Handled(a, b, m, hop) BY <1>0, HandleRelayFacts
<1>2. /\ <<a, b>> \in Pair /\ b \in Node /\ e \in Envelope /\ m.type = "relay" /\ m.hopsLeft \in 0..MaxHops
      /\ m \in [type : {"relay"}, of : Envelope, hopsLeft : 0..MaxHops]
      /\ m \in Content(queue[<<a, b>>]) /\ net' = net /\ restarted' = restarted
      BY <1>1 DEF Handled
<1>3. lastNonce' = IF Admitted(a, b, e) THEN [lastNonce EXCEPT ![b][e.origin] = e.nonce] ELSE lastNonce
      BY <1>1 DEF Handled
<1>4. e.origin \in Node /\ e.nonce \in Nat BY <1>2 DEF Envelope
<1>5. lastNonce \in [Node -> [Node -> Nat]] BY DEF TypeInv, EnvelopesOK
<1>6. Admitted(a, b, e) => lastNonce[b][e.origin] < e.nonce BY DEF Admitted, Check
<1>7. \A n, o \in Node : lastNonce'[n][o] \in Int /\ lastNonce[n][o] <= lastNonce'[n][o]
  <2>1. CASE Admitted(a, b, e) BY <1>2, <1>3, <1>4, <1>5, <1>6, <2>1
  <2>2. CASE ~ Admitted(a, b, e) BY <1>3, <1>5, <2>2
  <2> QED BY <2>1, <2>2
<1>8. \A p \in Pair : \A x \in Content(queue'[p]) :
          x \in Content(queue[p]) \/ (x = Forwarded(m) /\ Admitted(a, b, e) /\ e.to # b /\ m.hopsLeft > 0)
      BY <1>1 DEF Handled
<1>9. ASSUME restarted = {}, Admitted(a, b, e), e.to # b, m.hopsLeft > 0
      PROVE  MaxHops - Forwarded(m).hopsLeft <= Cardinality(Passed(Forwarded(m).of)')
  <2>1. Forwarded(m).of = e /\ Forwarded(m).hopsLeft = m.hopsLeft - 1 BY <1>2 DEF Forwarded
  <2>2. MaxHops - m.hopsLeft <= Cardinality(Passed(e)) BY <1>2, <1>9 DEF HopsInv
  <2>3. Passed(e) \cup {b} \subseteq Passed(e)' /\ b \notin Passed(e)
    <3>1. lastNonce'[b][e.origin] = e.nonce BY <1>2, <1>3, <1>4, <1>5, <1>9
    <3>2. b \in Passed(e)' BY <1>2, <1>4, <1>9, <3>1 DEF Passed
    <3>3. b \notin Passed(e) BY <1>2, <1>4, <1>5, <1>6, <1>9 DEF Passed
    <3>4. Passed(e) \subseteq Passed(e)' BY <1>4, <1>5, <1>7 DEF Passed
    <3> QED BY <3>2, <3>3, <3>4
  <2>4. Passed(e)' \subseteq Node BY DEF Passed
  <2>5. IsFiniteSet(Passed(e)') BY <2>4, NodesAssumption, FS_Subset
  <2>6. IsFiniteSet(Passed(e)) /\ Cardinality(Passed(e)) \in Nat BY PassedFinite
  <2>7. Cardinality(Passed(e) \cup {b}) = Cardinality(Passed(e)) + 1 BY <2>3, <2>6, FS_AddElement
  <2>8. Cardinality(Passed(e) \cup {b}) <= Cardinality(Passed(e)') BY <2>3, <2>5, FS_Subset
  <2>9. Cardinality(Passed(e)') \in Nat BY <2>5, FS_CardinalityType
  <2> QED BY <1>2, <2>1, <2>2, <2>6, <2>7, <2>8, <2>9, BoundsAssumption
<1>10. CASE restarted # {} BY <1>2, <1>10 DEF HopsInv
<1>11. CASE restarted = {}
  <2>1. \A p \in Pair : \A x \in Content(queue'[p]) : x.type = "relay" =>
            x \in Content(queue[p]) \/ MaxHops - x.hopsLeft <= Cardinality(Passed(x.of)')
        BY <1>8, <1>9, <1>11
  <2> QED BY <1>2, <1>7, <2>1, HopsKeep
<1> QED BY <1>10, <1>11

\* Envelopes with hops enough end no session.
LEMMA NoSessionEnds ==
    ASSUME TypeInv, HopsInv, restarted = {}, Cardinality(Node) <= MaxHops + 1,
           NEW a, NEW b, HandleRelay(a, b)
    PROVE  pool' = pool
<1>0. PICK m, hop : m = Head(queue[<<a, b>>]) /\ hop = NextHop(b, m.of.to) OBVIOUS
<1> DEFINE e == m.of
<1>1. Handled(a, b, m, hop) BY <1>0, HandleRelayFacts
<1>2. SUFFICES ASSUME Admitted(a, b, e), e.to # b, m.hopsLeft = 0 PROVE FALSE BY <1>1 DEF Handled
<1>3. /\ <<a, b>> \in Pair /\ b \in Node /\ e \in Envelope /\ m.type = "relay" /\ m \in Content(queue[<<a, b>>])
      BY <1>1 DEF Handled
<1>4. MaxHops <= Cardinality(Passed(e)) BY <1>2, <1>3, BoundsAssumption DEF HopsInv
<1>5. e.origin \in Node /\ e.to \in Node /\ e.nonce \in Nat BY <1>3 DEF Envelope
<1>6. lastNonce[b][e.origin] \in Nat /\ lastNonce[b][e.origin] < e.nonce
      BY <1>2, <1>3, <1>5 DEF Admitted, Check, TypeInv, EnvelopesOK
<1>7. Passed(e) \subseteq (Node \ {e.to}) \ {b} BY <1>5, <1>6 DEF Passed
<1>8. /\ IsFiniteSet(Node) /\ IsFiniteSet(Node \ {e.to}) /\ IsFiniteSet((Node \ {e.to}) \ {b})
      /\ Cardinality(Node \ {e.to}) = Cardinality(Node) - 1
      /\ Cardinality((Node \ {e.to}) \ {b}) = Cardinality(Node \ {e.to}) - 1
  <2>1. IsFiniteSet(Node) BY NodesAssumption
  <2>2. IsFiniteSet(Node \ {e.to}) /\ Cardinality(Node \ {e.to}) = Cardinality(Node) - 1
        BY <1>5, <2>1, FS_RemoveElement
  <2>3. b \in Node \ {e.to} BY <1>2, <1>3
  <2> QED BY <2>1, <2>2, <2>3, FS_RemoveElement
<1>9. Cardinality(Passed(e)) <= Cardinality((Node \ {e.to}) \ {b}) BY <1>7, <1>8, FS_Subset
<1>10. Cardinality(Node) \in Nat /\ Cardinality(Passed(e)) \in Nat BY <1>8, PassedFinite, FS_CardinalityType
<1> QED BY <1>4, <1>8, <1>9, <1>10, BoundsAssumption

----------------------------------------------------------------------------
\* Lists move no envelope, and a drop moves none on.
LEMMA ListStep ==
    ASSUME TypeInv, NEW a, NEW b, <<a, b>> \in Pair,
           Connect(a, b) \/ HandleGossip(a, b) \/ RecordRoutes(a, b) \/ OverLimit(a, b)
    PROVE  /\ \A p \in Pair : \A x \in Content(queue'[p]) : x.type = "relay" => x \in Content(queue[p])
           /\ net' = net /\ UNCHANGED <<restarted, nonce, drafts, lastNonce, sent, arrived>>
<1>1. net' = net /\ UNCHANGED <<restarted, nonce, drafts, lastNonce, sent, arrived>>
      BY DEF Connect, HandleGossip, RecordRoutes, OverLimit, envelopes
<1>2. a \in Node /\ b \in Node BY PairType
<1>3. \A n \in Node : Gossip(n) \in Sendable[n] /\ Gossip(n).type = "gossip" BY GossipSendable DEF TypeInv, Gossip
<1>4. ASSUME Connect(a, b), NEW p \in Pair, NEW x \in Content(queue'[p]), x.type = "relay"
      PROVE  x \in Content(queue[p])
  <2>1. queue'[p] \in {queue[p], <<Gossip(a)>>, <<Gossip(b)>>} BY <1>4 DEF Connect, TypeInv, QueueOK
  <2>2. Content(<<Gossip(a)>>) = {Gossip(a)} /\ Content(<<Gossip(b)>>) = {Gossip(b)} BY DEF Content
  <2> QED BY <1>2, <1>3, <1>4, <2>1, <2>2
<1>5. ASSUME HandleGossip(a, b) \/ OverLimit(a, b), NEW p \in Pair, NEW x \in Content(queue'[p])
      PROVE  x \in Content(queue[p])
  <2>1. queue[<<a, b>>] # <<>> /\ queue' = Rest(a, b) BY <1>5 DEF HandleGossip, OverLimit
  <2>2. CASE p = <<a, b>> BY <1>5, <2>1, <2>2, HeadHeld
  <2>3. CASE p # <<a, b>> BY <1>5, <2>1, <2>3, HeadHeld
  <2> QED BY <2>2, <2>3
<1>6. ASSUME RecordRoutes(a, b), NEW p \in Pair, NEW x \in Content(queue'[p]), x.type = "relay"
      PROVE  x \in Content(queue[p])
  <2>1. queue' = TrySend(queue, b, Everyone(b, a), Gossip(b)) BY <1>6 DEF RecordRoutes
  <2>2. Content(queue'[p]) \subseteq Content(queue[p]) \cup {Gossip(b)} BY <1>2, <1>3, <2>1, ContentSend DEF TypeInv
  <2> QED BY <1>2, <1>3, <1>6, <2>2
<1> QED BY <1>1, <1>4, <1>5, <1>6

\* Nor do scores and vouches.
LEMMA ScoreStep ==
    ASSUME \/ \E s \in Node : RaiseScore(s)
           \/ RefreshScores
           \/ \E v \in net.vouch : SetTrust(v[1], v[2], v[3])
           \/ UNCHANGED vars
    PROVE  UNCHANGED <<net, pool, queue, peers, descriptors, learned, routes, restarted, nonce, drafts, lastNonce,
                       sent, arrived, dropped>>
BY DEF RaiseScore, RefreshScores, SetTrust, store, envelopes, vars

LEMMA RestartStep ==
    ASSUME TypeInv, NEW n \in Node, Restart(n)
    PROVE  /\ \A p \in Pair : Content(queue'[p]) \subseteq Content(queue[p])
           /\ \A p \in Pair : p \in pool' => queue'[p] = queue[p] /\ p \in pool /\ p[1] # n
           /\ net' = net /\ UNCHANGED <<descriptors, nonce, sent, arrived, dropped>>
           /\ drafts' \subseteq drafts /\ restarted' # {}
           /\ \A m, o \in Node : lastNonce'[m][o] \in {lastNonce[m][o], 0}
<1> USE DEF Restart
<1>1. \A p \in Pair : Content(queue'[p]) \subseteq Content(queue[p]) /\ (p \in pool' => queue'[p] = queue[p])
      BY ContentEnd
<1>2. \A p \in Pair : p \in pool' => p \in pool /\ p[1] # n BY DEF End
<1>3. \A m, o \in Node : lastNonce'[m][o] \in {lastNonce[m][o], 0} BY DEF TypeInv, EnvelopesOK
<1>4. net' = net /\ UNCHANGED <<descriptors, nonce, sent, arrived, dropped>> /\ drafts' \subseteq drafts BY DEF store
<1> QED BY <1>1, <1>2, <1>3, <1>4

LEMMA EnvelopeStep == TypeInv /\ EnvelopeInv /\ [Next]_vars => EnvelopeInv'
<1> SUFFICES ASSUME TypeInv, EnvelopeInv, [Next]_vars PROVE EnvelopeInv'
    OBVIOUS
<1>1. \A n, o \in Node : lastNonce[n][o] \in {lastNonce[n][o], 0} OBVIOUS
<1>2. ASSUME NEW p \in Pair, \/ Connect(p[1], p[2]) \/ HandleGossip(p[1], p[2])
                             \/ RecordRoutes(p[1], p[2]) \/ OverLimit(p[1], p[2])
      PROVE  EnvelopeInv'
  <2>1. <<p[1], p[2]>> \in Pair BY PairType
  <2>2. /\ \A q \in Pair : \A x \in Content(queue'[q]) : x.type = "relay" => x \in Content(queue[q])
        /\ net' = net /\ UNCHANGED <<restarted, nonce, drafts, lastNonce, sent, arrived>>
        BY <1>2, <2>1, ListStep
  <2> QED BY <2>2, EnvelopeFewer
<1>3. ASSUME NEW p \in Pair, HandleRelay(p[1], p[2]) PROVE EnvelopeInv' BY <1>3, HandleRelayEnvelope
<1>4. ASSUME NEW s \in Node, Restart(s) PROVE EnvelopeInv'
  <2>1. /\ \A p \in Pair : \A x \in Content(queue'[p]) : x.type = "relay" => x \in Content(queue[p])
        /\ net' = net /\ UNCHANGED <<nonce, sent, arrived>> /\ drafts' \subseteq drafts
        /\ \A n, o \in Node : lastNonce'[n][o] \in {lastNonce[n][o], 0}
        BY <1>4, RestartStep
  <2> QED BY <2>1, EnvelopeFewer
<1>5. ASSUME NEW e \in net.envelope, TakeNonce(e[1], e[2]) PROVE EnvelopeInv'
  <2>1. e = <<e[1], e[2]>> BY NetType DEF TypeInv
  <2> QED BY <1>5, <2>1, TakeNonceEnvelope
<1>6. ASSUME NEW e \in drafts, SendObject(e) PROVE EnvelopeInv' BY <1>6, SendObjectEnvelope
<1>7. CASE \/ \E s \in Node : RaiseScore(s)
           \/ RefreshScores
           \/ \E v \in net.vouch : SetTrust(v[1], v[2], v[3])
           \/ UNCHANGED vars
  <2>1. UNCHANGED <<net, queue, nonce, drafts, lastNonce, sent, arrived>> BY <1>7, ScoreStep
  <2> QED BY <2>1, EnvelopeFewer
<1> QED BY <1>2, <1>3, <1>4, <1>5, <1>6, <1>7 DEF Next

LEMMA HopsInit == Init => HopsInv
BY DEF Init, HopsInv, Content

LEMMA HopsStep == TypeInv /\ HopsInv /\ [Next]_vars => HopsInv'
<1> SUFFICES ASSUME TypeInv, HopsInv, [Next]_vars PROVE HopsInv'
    OBVIOUS
<1>1. \A n, o \in Node : lastNonce[n][o] \in Int /\ lastNonce[n][o] <= lastNonce[n][o]
      BY DEF TypeInv, EnvelopesOK
<1>2. ASSUME NEW p \in Pair, \/ Connect(p[1], p[2]) \/ HandleGossip(p[1], p[2])
                             \/ RecordRoutes(p[1], p[2]) \/ OverLimit(p[1], p[2])
      PROVE  HopsInv'
  <2>1. <<p[1], p[2]>> \in Pair BY PairType
  <2>2. /\ \A q \in Pair : \A x \in Content(queue'[q]) : x.type = "relay" => x \in Content(queue[q])
        /\ net' = net /\ UNCHANGED <<restarted, lastNonce>>
        BY <1>2, <2>1, ListStep
  <2> QED BY <1>1, <2>2, HopsKeep
<1>3. ASSUME NEW p \in Pair, HandleRelay(p[1], p[2]) PROVE HopsInv' BY <1>3, HandleRelayHops
<1>4. ASSUME NEW s \in Node, Restart(s) PROVE HopsInv'
  <2>1. restarted' # {} BY <1>4, RestartStep
  <2> QED BY <2>1 DEF HopsInv
<1>5. ASSUME NEW e \in net.envelope, TakeNonce(e[1], e[2]) PROVE HopsInv'
      BY <1>1, <1>5, HopsKeep DEF TakeNonce
<1>6. ASSUME NEW e \in drafts, SendObject(e) PROVE HopsInv'
  <2>1. e.origin \in Node /\ Relay(e, MaxHops) \in Sendable[e.origin]
        BY BoundsAssumption DEF TypeInv, EnvelopesOK, Envelope, Relay, Sendable, Message
  <2>2. PICK P : queue' = TrySend(queue, e.origin, P, Relay(e, MaxHops)) BY <1>6 DEF SendObject
  <2>3. \A p \in Pair : Content(queue'[p]) \subseteq Content(queue[p]) \cup {Relay(e, MaxHops)}
        BY <2>1, <2>2, ContentSend DEF TypeInv
  <2>4. Relay(e, MaxHops).hopsLeft = MaxHops /\ Relay(e, MaxHops).of = e BY DEF Relay
  <2>5. IsFiniteSet(Passed(e)')
    <3>1. Passed(e)' \subseteq Node BY DEF Passed
    <3> QED BY <3>1, NodesAssumption, FS_Subset
  <2>6. MaxHops - MaxHops <= Cardinality(Passed(e)') BY <2>5, FS_CardinalityType, BoundsAssumption
  <2>7. \A p \in Pair : \A x \in Content(queue'[p]) : x.type = "relay" =>
            x \in Content(queue[p]) \/ MaxHops - x.hopsLeft <= Cardinality(Passed(x.of)')
        BY <2>3, <2>4, <2>6
  <2>8. net' = net /\ restarted' = restarted /\ lastNonce' = lastNonce BY <1>6 DEF SendObject
  <2> QED BY <1>1, <2>7, <2>8, HopsKeep
<1>7. CASE \/ \E s \in Node : RaiseScore(s)
           \/ RefreshScores
           \/ \E v \in net.vouch : SetTrust(v[1], v[2], v[3])
           \/ UNCHANGED vars
  <2>1. UNCHANGED <<net, queue, restarted, lastNonce>> BY <1>7, ScoreStep
  <2> QED BY <1>1, <2>1, HopsKeep
<1> QED BY <1>2, <1>3, <1>4, <1>5, <1>6, <1>7 DEF Next

----------------------------------------------------------------------------
\* d is in a list on its way, or among what n has learned and not passed on yet.
Offered(p, d) == \E m \in Content(queue[p]) : m.type = "gossip" /\ d \in m.announcements
Unrecorded(n, d) == \E x \in Node : <<x, n>> \in Pair /\ d \in learned[<<x, n>>]

\* A route leads to a peer, for a descriptor the node has or a peer; and a node
\* has one, or will, for every descriptor, as long as it has not restarted.
RouteInv ==
    /\ \A p \in Pair : learned[p] \subseteq descriptors[p[2]]
    /\ \A n, d \in Node : routes[n][d] # NoNode =>
           d # n /\ <<n, routes[n][d]>> \in Pair /\ (d \in descriptors[n] \/ <<n, d>> \in Pair)
    /\ restarted = {} => \A n \in Node : \A d \in descriptors[n] : routes[n][d] # NoNode \/ Unrecorded(n, d)

LEMMA RouteInit == Init => RouteInv
BY NoNodeAssumption DEF Init, RouteInv

LEMMA RouteConnect == ASSUME TypeInv, RouteInv, NEW a, NEW b, Connect(a, b) PROVE RouteInv'
<1>1. /\ <<a, b>> \in Pair /\ net' = net /\ routes' = [routes EXCEPT ![a][b] = b, ![b][a] = a]
      /\ UNCHANGED <<descriptors, learned, restarted>>
      BY DEF Connect
<1>2. a \in Node /\ b \in Node /\ a # b /\ <<b, a>> \in Pair BY <1>1, PairType
<1>3. routes \in [Node -> [Node -> Node \cup {NoNode}]] BY DEF TypeInv, RoutesOK
<1>4. Pair' = Pair BY <1>1 DEF Pair
<1>5. \A n, d \in Node : \/ routes'[n][d] = routes[n][d] /\ <<n, d>> \notin {<<a, b>>, <<b, a>>}
                         \/ n = a /\ d = b /\ routes'[n][d] = b
                         \/ n = b /\ d = a /\ routes'[n][d] = a
      BY <1>1, <1>2, <1>3
<1>6. \A n, d \in Node : routes'[n][d] # NoNode =>
          d # n /\ <<n, routes'[n][d]>> \in Pair' /\ (d \in descriptors'[n] \/ <<n, d>> \in Pair')
  <2> SUFFICES ASSUME NEW n \in Node, NEW d \in Node, routes'[n][d] # NoNode
               PROVE  d # n /\ <<n, routes'[n][d]>> \in Pair /\ (d \in descriptors[n] \/ <<n, d>> \in Pair)
      BY <1>1, <1>4
  <2>1. CASE routes'[n][d] = routes[n][d] BY <2>1 DEF RouteInv
  <2>2. CASE n = a /\ d = b /\ routes'[n][d] = b BY <1>1, <1>2, <2>2
  <2>3. CASE n = b /\ d = a /\ routes'[n][d] = a BY <1>2, <2>3
  <2> QED BY <1>5, <2>1, <2>2, <2>3
<1>7. \A n, d \in Node : routes[n][d] # NoNode => routes'[n][d] # NoNode
      BY <1>2, <1>5, NoNodeAssumption
<1>8. descriptors \in [Node -> SUBSET Node] BY DEF TypeInv, StoreOK
<1>9. restarted' = {} => \A n \in Node : \A d \in descriptors'[n] : routes'[n][d] # NoNode \/ Unrecorded(n, d)'
      BY <1>1, <1>4, <1>7, <1>8 DEF RouteInv, Unrecorded
<1>10. \A p \in Pair' : learned'[p] \subseteq descriptors'[p[2]] BY <1>1, <1>4 DEF RouteInv
<1> QED BY <1>6, <1>9, <1>10 DEF RouteInv

\* What b takes of a's list.
Taken(a, b) == {d \in Head(queue[<<a, b>>]).announcements : Acceptable(a, b, d)}

LEMMA HandleGossipFacts ==
    ASSUME TypeInv, NEW a, NEW b, <<a, b>> \in Pair, HandleGossip(a, b)
    PROVE  /\ a \in Node /\ b \in Node /\ <<a, b>> \in pool /\ learned[<<a, b>>] = {}
           /\ Taken(a, b) \subseteq Node \ {b}
           /\ descriptors' = [descriptors EXCEPT ![b] = @ \cup Taken(a, b)]
           /\ learned' = [learned EXCEPT ![<<a, b>>] = Taken(a, b) \ descriptors[b]]
           /\ queue[<<a, b>>] # <<>> /\ queue' = Rest(a, b)
           /\ net' = net /\ UNCHANGED <<pool, routes, restarted, dropped, sent>>
<1>1. /\ a \in Node /\ b \in Node /\ Head(queue[<<a, b>>]) \in Message
      /\ Head(queue[<<a, b>>]).type = "gossip" /\ queue[<<a, b>>] # <<>>
      BY HeadHeld DEF HandleGossip
<1>2. Head(queue[<<a, b>>]).announcements \subseteq Node BY <1>1 DEF Message, Descriptor
<1>3. Taken(a, b) \subseteq Node \ {b} BY <1>2 DEF Taken, Acceptable
<1> QED BY <1>1, <1>3 DEF HandleGossip, Taken, StoreDescriptor, Learned, envelopes

LEMMA RouteHandleGossip ==
    ASSUME TypeInv, RouteInv, NEW a, NEW b, <<a, b>> \in Pair, HandleGossip(a, b) PROVE RouteInv'
<1> DEFINE D == Taken(a, b)
<1>1. /\ a \in Node /\ b \in Node /\ learned[<<a, b>>] = {} /\ D \subseteq Node \ {b}
      /\ descriptors' = [descriptors EXCEPT ![b] = @ \cup D]
      /\ learned' = [learned EXCEPT ![<<a, b>>] = D \ descriptors[b]]
      /\ net' = net /\ UNCHANGED <<routes, restarted>>
      BY HandleGossipFacts
<1> HIDE DEF D
<1>2. Pair' = Pair BY <1>1 DEF Pair
<1>3. descriptors \in [Node -> SUBSET Node] /\ learned \in [Pair -> SUBSET Node] BY DEF TypeInv, StoreOK, RoutesOK
<1>4. /\ \A n \in Node : descriptors'[n] = IF n = b THEN descriptors[b] \cup D ELSE descriptors[n]
      /\ \A p \in Pair : learned'[p] = IF p = <<a, b>> THEN D \ descriptors[b] ELSE learned[p]
      BY <1>1, <1>3
<1>5. \A p \in Pair' : learned'[p] \subseteq descriptors'[p[2]]
  <2> SUFFICES ASSUME NEW p \in Pair PROVE learned'[p] \subseteq descriptors'[p[2]]
      BY <1>2
  <2>1. p[2] \in Node /\ descriptors[p[2]] \subseteq descriptors'[p[2]] BY <1>4, PairType
  <2>2. CASE p = <<a, b>> BY <1>1, <1>4, <2>2
  <2>3. CASE p # <<a, b>> BY <1>4, <2>1, <2>3 DEF RouteInv
  <2> QED BY <2>2, <2>3
<1>6. \A n, d \in Node : routes'[n][d] # NoNode =>
          d # n /\ <<n, routes'[n][d]>> \in Pair' /\ (d \in descriptors'[n] \/ <<n, d>> \in Pair')
      BY <1>1, <1>2, <1>4 DEF RouteInv
<1>7. \A n, d \in Node : Unrecorded(n, d) => Unrecorded(n, d)' BY <1>1, <1>2, <1>4 DEF Unrecorded
<1>8. \A d \in D \ descriptors[b] : Unrecorded(b, d)' BY <1>1, <1>2, <1>4 DEF Unrecorded
<1>9. restarted' = {} => \A n \in Node : \A d \in descriptors'[n] : routes'[n][d] # NoNode \/ Unrecorded(n, d)'
      BY <1>1, <1>3, <1>4, <1>7, <1>8 DEF RouteInv
<1> QED BY <1>5, <1>6, <1>9 DEF RouteInv

LEMMA RouteRecord == ASSUME TypeInv, RouteInv, NEW a, NEW b, RecordRoutes(a, b) PROVE RouteInv'
<1> DEFINE L == learned[<<a, b>>]
<1>1. /\ <<a, b>> \in Pair /\ net' = net
      /\ routes' = [routes EXCEPT ![b] = [d \in Node |-> IF d \in L THEN a ELSE routes[b][d]]]
      /\ learned' = [learned EXCEPT ![<<a, b>>] = {}]
      /\ UNCHANGED <<descriptors, restarted>>
      BY DEF RecordRoutes, store
<1>2. a \in Node /\ b \in Node /\ <<b, a>> \in Pair BY <1>1, PairType
<1>3. /\ routes \in [Node -> [Node -> Node \cup {NoNode}]] /\ learned \in [Pair -> SUBSET Node]
      /\ descriptors \in [Node -> SUBSET Node] /\ b \notin descriptors[b]
      BY <1>2 DEF TypeInv, RoutesOK, StoreOK
<1>4. L \subseteq descriptors[b] BY <1>1 DEF RouteInv
<1>5. Pair' = Pair BY <1>1 DEF Pair
<1>6. /\ \A n, d \in Node : routes'[n][d] = IF n = b /\ d \in L THEN a ELSE routes[n][d]
      /\ \A p \in Pair : learned'[p] = IF p = <<a, b>> THEN {} ELSE learned[p]
      BY <1>1, <1>2, <1>3
<1> HIDE DEF L
<1>7. \A p \in Pair' : learned'[p] \subseteq descriptors'[p[2]] BY <1>1, <1>5, <1>6 DEF RouteInv
<1>8. \A n, d \in Node : routes'[n][d] # NoNode =>
          d # n /\ <<n, routes'[n][d]>> \in Pair' /\ (d \in descriptors'[n] \/ <<n, d>> \in Pair')
  <2> SUFFICES ASSUME NEW n \in Node, NEW d \in Node, routes'[n][d] # NoNode
               PROVE  d # n /\ <<n, routes'[n][d]>> \in Pair /\ (d \in descriptors[n] \/ <<n, d>> \in Pair)
      BY <1>1, <1>5
  <2>1. CASE n = b /\ d \in L BY <1>2, <1>3, <1>4, <1>6, <2>1
  <2>2. CASE ~ (n = b /\ d \in L) BY <1>6, <2>2 DEF RouteInv
  <2> QED BY <2>1, <2>2
<1>9. ASSUME NEW n \in Node, NEW d \in Node, Unrecorded(n, d) PROVE Unrecorded(n, d)' \/ routes'[n][d] # NoNode
  <2>1. PICK x \in Node : <<x, n>> \in Pair /\ d \in learned[<<x, n>>] BY <1>9 DEF Unrecorded
  <2>2. CASE <<x, n>> = <<a, b>>
    <3>1. n = b /\ d \in L BY <2>1, <2>2 DEF L
    <3> QED BY <1>2, <1>6, <3>1, NoNodeAssumption
  <2>3. CASE <<x, n>> # <<a, b>> BY <1>5, <1>6, <2>1, <2>3 DEF Unrecorded
  <2> QED BY <2>2, <2>3
<1>10. restarted' = {} => \A n \in Node : \A d \in descriptors'[n] : routes'[n][d] # NoNode \/ Unrecorded(n, d)'
  <2> SUFFICES ASSUME restarted = {}, NEW n \in Node, NEW d \in descriptors[n]
               PROVE  routes'[n][d] # NoNode \/ Unrecorded(n, d)'
      BY <1>1
  <2>1. d \in Node BY <1>3
  <2>2. routes[n][d] # NoNode => routes'[n][d] # NoNode BY <1>2, <1>6, <2>1, NoNodeAssumption
  <2> QED BY <1>9, <2>1, <2>2 DEF RouteInv
<1> QED BY <1>7, <1>8, <1>10 DEF RouteInv

LEMMA RouteStep == TypeInv /\ RouteInv /\ [Next]_vars => RouteInv'
<1> SUFFICES ASSUME TypeInv, RouteInv, [Next]_vars PROVE RouteInv'
    OBVIOUS
<1>1. ASSUME NEW p \in Pair, Connect(p[1], p[2]) PROVE RouteInv' BY <1>1, RouteConnect
<1>2. ASSUME NEW p \in Pair, HandleGossip(p[1], p[2]) PROVE RouteInv' BY <1>2, PairType, RouteHandleGossip
<1>3. ASSUME NEW p \in Pair, RecordRoutes(p[1], p[2]) PROVE RouteInv' BY <1>3, RouteRecord
<1>4. ASSUME NEW s \in Node, Restart(s) PROVE RouteInv'
  <2>1. net' = net /\ descriptors' = descriptors /\ restarted' # {} BY <1>4, RestartStep
  <2>2. Pair' = Pair BY <2>1 DEF Pair
  <2>3. \A n, d \in Node : routes'[n][d] \in {routes[n][d], NoNode} BY <1>4 DEF Restart, TypeInv, RoutesOK
  <2>4. \A p \in Pair : learned'[p] \subseteq learned[p] BY <1>4 DEF Restart
  <2>5. \A p \in Pair' : learned'[p] \subseteq descriptors'[p[2]] BY <2>1, <2>2, <2>4 DEF RouteInv
  <2>6. \A n, d \in Node : routes'[n][d] # NoNode =>
            d # n /\ <<n, routes'[n][d]>> \in Pair' /\ (d \in descriptors'[n] \/ <<n, d>> \in Pair')
        BY <2>1, <2>2, <2>3 DEF RouteInv
  <2> QED BY <2>1, <2>5, <2>6 DEF RouteInv
<1>5. CASE UNCHANGED <<net, learned, routes, descriptors, restarted>>
  <2>1. Pair' = Pair BY <1>5 DEF Pair
  <2>2. \A n, d : Unrecorded(n, d)' <=> Unrecorded(n, d) BY <1>5, <2>1 DEF Unrecorded
  <2> QED BY <1>5, <2>1, <2>2 DEF RouteInv
<1>6. \/ \E p \in Pair : \/ Connect(p[1], p[2]) \/ HandleGossip(p[1], p[2]) \/ RecordRoutes(p[1], p[2])
      \/ \E s \in Node : Restart(s)
      \/ UNCHANGED <<net, learned, routes, descriptors, restarted>>
      BY Apart, ScoresApart DEF Next
<1> QED BY <1>1, <1>2, <1>3, <1>4, <1>5, <1>6

----------------------------------------------------------------------------
\* Where every announcement is taken and no list is lost, what one end of a
\* session has the other has too, or is offered, or will be.
Passing(p, d) == d \in descriptors[p[2]] \/ Offered(p, d) \/ Unrecorded(p[1], d)

Spread ==
    ~ dropped /\ ~ net.requireVouch =>
        \A p \in pool : \A d \in (descriptors[p[1]] \cup {p[1]}) \ {p[2]} : Passing(p, d)

LEMMA SpreadInit == Init => Spread
BY DEF Init, Spread

LEMMA SpreadKeep ==
    ASSUME TypeInv, Spread, net' = net, descriptors' = descriptors, dropped => dropped', pool' \subseteq pool,
           \A p \in pool' : \A m \in Content(queue[p]) : m.type = "gossip" => m \in Content(queue'[p]),
           \A p \in pool' : \A d \in Node : Unrecorded(p[1], d) => Unrecorded(p[1], d)'
    PROVE  Spread'
<1> SUFFICES ASSUME ~ dropped, ~ net.requireVouch, NEW p \in pool',
                    NEW d \in (descriptors[p[1]] \cup {p[1]}) \ {p[2]}
             PROVE  Passing(p, d)'
    BY DEF Spread
<1>1. p[1] \in Node /\ d \in Node BY PairType DEF TypeInv, PoolOK, StoreOK
<1>2. Passing(p, d) BY DEF Spread
<1>3. Offered(p, d) => Offered(p, d)' BY DEF Offered
<1> QED BY <1>1, <1>2, <1>3 DEF Passing

LEMMA SpreadConnect == ASSUME TypeInv, Spread, NEW a, NEW b, Connect(a, b) PROVE Spread'
<1>1. /\ <<a, b>> \in Pair /\ net' = net /\ pool' = pool \cup {<<a, b>>, <<b, a>>} /\ <<a, b>> \notin pool
      /\ queue' = [queue EXCEPT ![<<a, b>>] = <<Gossip(a)>>, ![<<b, a>>] = <<Gossip(b)>>]
      /\ UNCHANGED <<descriptors, learned, dropped>>
      BY DEF Connect
<1>2. a \in Node /\ b \in Node /\ a # b /\ <<b, a>> \in Pair BY <1>1, PairType
<1>3. /\ queue'[<<a, b>>] = <<Gossip(a)>> /\ queue'[<<b, a>>] = <<Gossip(b)>>
      /\ \A p \in Pair \ {<<a, b>>, <<b, a>>} : queue'[p] = queue[p]
      BY <1>1, <1>2 DEF TypeInv, QueueOK
<1>4. \A n, d \in Node : Unrecorded(n, d) => Unrecorded(n, d)' BY <1>1 DEF Unrecorded, Pair
<1>5. ASSUME NEW n \in Node, NEW p, queue'[p] = <<Gossip(n)>>, NEW d \in descriptors[n] \cup {n}
      PROVE  Offered(p, d)'
  <2>1. Content(queue'[p]) = {Gossip(n)} BY <1>5 DEF Content
  <2>2. Gossip(n).type = "gossip" /\ d \in Gossip(n).announcements BY <1>5 DEF Gossip
  <2>3. Gossip(n) \in Content(queue'[p]) BY <2>1
  <2> HIDE DEF Gossip
  <2>4. \E m \in Content(queue'[p]) : m.type = "gossip" /\ d \in m.announcements BY <2>2, <2>3
  <2> QED BY <2>4 DEF Offered
<1>6. ASSUME ~ dropped, ~ net.requireVouch, NEW p \in pool', NEW d \in (descriptors[p[1]] \cup {p[1]}) \ {p[2]}
      PROVE  Passing(p, d)'
  <2>1. CASE p = <<a, b>> BY <1>2, <1>3, <1>5, <2>1, <1>6 DEF Passing
  <2>2. CASE p = <<b, a>> BY <1>2, <1>3, <1>5, <2>2, <1>6 DEF Passing
  <2>3. CASE p \in pool \ {<<a, b>>, <<b, a>>}
    <3>1. p \in Pair /\ queue'[p] = queue[p] BY <1>3, <2>3 DEF TypeInv, PoolOK
    <3>2. p[1] \in Node /\ d \in Node BY <3>1, PairType DEF TypeInv, StoreOK
    <3>3. Passing(p, d) BY <1>6, <2>3 DEF Spread
    <3>4. Offered(p, d) => Offered(p, d)' BY <3>1 DEF Offered
    <3> QED BY <1>1, <1>4, <3>2, <3>3, <3>4 DEF Passing
  <2> QED BY <1>1, <2>1, <2>2, <2>3
<1> QED BY <1>1, <1>6 DEF Spread

LEMMA SpreadHandleGossip ==
    ASSUME TypeInv, Spread, NEW a, NEW b, <<a, b>> \in Pair, HandleGossip(a, b) PROVE Spread'
<1> DEFINE D == Taken(a, b)
<1>1. /\ a \in Node /\ b \in Node /\ learned[<<a, b>>] = {} /\ D \subseteq Node \ {b}
      /\ descriptors' = [descriptors EXCEPT ![b] = @ \cup D]
      /\ learned' = [learned EXCEPT ![<<a, b>>] = D \ descriptors[b]]
      /\ queue[<<a, b>>] # <<>> /\ queue' = Rest(a, b)
      /\ net' = net /\ UNCHANGED <<pool, dropped>>
      BY HandleGossipFacts
<1>2. Pair' = Pair BY <1>1 DEF Pair
<1>3. /\ Content(queue[<<a, b>>]) = Content(queue'[<<a, b>>]) \cup {Head(queue[<<a, b>>])}
      /\ \A p \in Pair \ {<<a, b>>} : queue'[p] = queue[p]
      BY <1>1, HeadHeld
<1>4. ~ net.requireVouch => \A d \in Head(queue[<<a, b>>]).announcements \ {b} : d \in D
      BY DEF Taken, Acceptable
<1> HIDE DEF D
<1>5. descriptors \in [Node -> SUBSET Node] /\ learned \in [Pair -> SUBSET Node] BY DEF TypeInv, StoreOK, RoutesOK
<1>6. /\ \A n \in Node : descriptors'[n] = IF n = b THEN descriptors[b] \cup D ELSE descriptors[n]
      /\ \A p \in Pair : learned'[p] = IF p = <<a, b>> THEN D \ descriptors[b] ELSE learned[p]
      BY <1>1, <1>5
<1>7. \A n, d \in Node : Unrecorded(n, d) => Unrecorded(n, d)' BY <1>1, <1>2, <1>6 DEF Unrecorded
<1>8. \A d \in D \ descriptors[b] : Unrecorded(b, d)' BY <1>1, <1>2, <1>6 DEF Unrecorded
<1>9. ASSUME ~ dropped, ~ net.requireVouch, NEW p \in pool, NEW d \in (descriptors'[p[1]] \cup {p[1]}) \ {p[2]}
      PROVE  Passing(p, d)'
  <2>1. p \in Pair /\ p[1] \in Node /\ p[2] \in Node BY PairType DEF TypeInv, PoolOK
  <2>2. d \in Node BY <1>1, <1>5, <1>6, <2>1
  <2>3. CASE d \notin descriptors[p[1]] \cup {p[1]}
    <3>1. p[1] = b /\ d \in D \ descriptors[b] BY <1>6, <1>9, <2>1, <2>3
    <3> QED BY <1>8, <3>1 DEF Passing
  <2>4. CASE d \in descriptors[p[1]] \cup {p[1]}
    <3>1. Passing(p, d) BY <1>9, <2>4 DEF Spread
    <3>2. ASSUME Offered(p, d) PROVE Offered(p, d)' \/ d \in descriptors'[p[2]]
      <4>1. PICK m \in Content(queue[p]) : m.type = "gossip" /\ d \in m.announcements BY <3>2 DEF Offered
      <4>2. CASE m \in Content(queue'[p]) BY <4>1, <4>2 DEF Offered
      <4>3. CASE m \notin Content(queue'[p])
        <5>1. p = <<a, b>> /\ m = Head(queue[<<a, b>>]) BY <1>3, <2>1, <4>1, <4>3
        <5>2. d \in D BY <1>4, <1>9, <4>1, <5>1
        <5> QED BY <1>1, <1>6, <5>1, <5>2
      <4> QED BY <4>2, <4>3
    <3>3. descriptors[p[2]] \subseteq descriptors'[p[2]] BY <1>6, <2>1
    <3> QED BY <1>7, <2>1, <2>2, <3>1, <3>2, <3>3 DEF Passing
  <2> QED BY <2>3, <2>4
<1> QED BY <1>1, <1>9 DEF Spread

LEMMA SpreadRecord == ASSUME TypeInv, Spread, NEW a, NEW b, RecordRoutes(a, b) PROVE Spread'
<1>1. /\ <<a, b>> \in Pair /\ net' = net /\ pool' = pool /\ descriptors' = descriptors
      /\ learned' = [learned EXCEPT ![<<a, b>>] = {}]
      /\ queue' = TrySend(queue, b, Peers(b), Gossip(b))
      /\ dropped' = (dropped \/ Overflows(queue, b, Peers(b)))
      BY DEF RecordRoutes, store, Everyone
<1>2. a \in Node /\ b \in Node /\ Gossip(b) \in Sendable[b] BY <1>1, PairType, GossipSendable DEF TypeInv
<1>3. Pair' = Pair BY <1>1 DEF Pair
<1>4. learned \in [Pair -> SUBSET Node] BY DEF TypeInv, RoutesOK
<1>5. ASSUME ~ dropped', ~ net.requireVouch, NEW p \in pool, NEW d \in (descriptors[p[1]] \cup {p[1]}) \ {p[2]}
      PROVE  Passing(p, d)'
  <2>1. p \in Pair /\ p[1] \in Node /\ p[2] \in Node /\ p = <<p[1], p[2]>> BY PairType DEF TypeInv, PoolOK
  <2>2. CASE p[1] = b
    <3>1. p[2] \in Peers(b) BY <2>1, <2>2 DEF Peers
    <3>2. Gossip(b) \in Content(queue'[p])
          BY <1>1, <1>2, <1>5, <2>1, <2>2, <3>1, ContentSend DEF TypeInv
    <3>3. Offered(p, d)' BY <1>1, <1>5, <2>2, <3>2 DEF Offered, Gossip
    <3> QED BY <3>3 DEF Passing
  <2>3. CASE p[1] # b
    <3>1. Passing(p, d) BY <1>1, <1>5 DEF Spread
    <3>2. Content(queue'[p]) = Content(queue[p]) BY <1>1, <1>2, <2>1, <2>3, ContentSend DEF TypeInv
    <3>3. Unrecorded(p[1], d) => Unrecorded(p[1], d)'
      <4>1. \A x \in Node : <<x, p[1]>> \in Pair => learned'[<<x, p[1]>>] = learned[<<x, p[1]>>]
            BY <1>1, <1>4, <2>3
      <4> QED BY <1>3, <4>1 DEF Unrecorded
    <3> QED BY <1>1, <3>1, <3>2, <3>3 DEF Passing, Offered
  <2> QED BY <2>2, <2>3
<1> QED BY <1>1, <1>5 DEF Spread

LEMMA SpreadStep == TypeInv /\ Spread /\ [Next]_vars => Spread'
<1> SUFFICES ASSUME TypeInv, Spread, [Next]_vars PROVE Spread'
    OBVIOUS
<1>1. ASSUME NEW p \in Pair, Connect(p[1], p[2]) PROVE Spread' BY <1>1, SpreadConnect
<1>2. ASSUME NEW p \in Pair, HandleGossip(p[1], p[2]) PROVE Spread' BY <1>2, PairType, SpreadHandleGossip
<1>3. ASSUME NEW p \in Pair, RecordRoutes(p[1], p[2]) PROVE Spread' BY <1>3, SpreadRecord
<1>4. ASSUME NEW p \in Pair, HandleRelay(p[1], p[2]) PROVE Spread'
  <2>1. PICK a, b, m, hop : a = p[1] /\ b = p[2] /\ m = Head(queue[<<a, b>>]) /\ hop = NextHop(b, m.of.to) OBVIOUS
  <2>2. Handled(a, b, m, hop) BY <1>4, <2>1, HandleRelayFacts
  <2>3. /\ net' = net /\ descriptors' = descriptors /\ learned' = learned /\ pool' \subseteq pool
        /\ dropped => dropped'
        /\ m.type = "relay"
        /\ \A q \in pool' : Content(queue[q]) \subseteq Content(queue'[q]) \cup {m}
        BY <2>2 DEF Handled, store
  <2>4. \A n, d : Unrecorded(n, d) => Unrecorded(n, d)' BY <2>3 DEF Unrecorded, Pair
  <2> QED BY <2>3, <2>4, SpreadKeep
<1>5. ASSUME NEW s \in Node, Restart(s) PROVE Spread'
  <2>1. /\ \A p \in pool' : queue'[p] = queue[p] /\ p \in pool /\ p[1] # s
        /\ net' = net /\ UNCHANGED <<descriptors, dropped>>
    <3>1. pool' \subseteq Pair BY <1>5 DEF Restart, End, TypeInv, PoolOK
    <3> QED BY <1>5, <3>1, RestartStep
  <2>2. Pair' = Pair BY <2>1 DEF Pair
  <2>3. \A n, d \in Node : n # s /\ Unrecorded(n, d) => Unrecorded(n, d)'
        BY <1>5, <2>2 DEF Unrecorded, Restart
  <2>4. \A p \in pool' : p[1] \in Node BY <2>1, PairType DEF TypeInv, PoolOK
  <2> QED BY <2>1, <2>3, <2>4, SpreadKeep
<1>6. ASSUME NEW e \in net.envelope, TakeNonce(e[1], e[2]) PROVE Spread'
  <2>1. UNCHANGED <<net, pool, queue, descriptors, learned, dropped>> BY <1>6 DEF TakeNonce, store
  <2>2. \A n, d : Unrecorded(n, d) => Unrecorded(n, d)' BY <2>1 DEF Unrecorded, Pair
  <2> QED BY <2>1, <2>2, SpreadKeep
<1>7. ASSUME NEW e \in drafts, SendObject(e) PROVE Spread'
  <2>1. e.origin \in Node /\ Relay(e, MaxHops) \in Sendable[e.origin]
        BY BoundsAssumption DEF TypeInv, EnvelopesOK, Envelope, Relay, Sendable, Message
  <2>2. PICK P : queue' = TrySend(queue, e.origin, P, Relay(e, MaxHops)) BY <1>7 DEF SendObject
  <2>3. /\ UNCHANGED <<net, pool, descriptors, learned>> /\ (dropped => dropped') BY <1>7 DEF SendObject, store
  <2>4. \A p \in Pair : Content(queue[p]) \subseteq Content(queue'[p])
        BY <2>1, <2>2, ContentSend DEF TypeInv
  <2>5. \A n, d : Unrecorded(n, d) => Unrecorded(n, d)' BY <2>3 DEF Unrecorded, Pair
  <2>6. pool \subseteq Pair BY DEF TypeInv, PoolOK
  <2> QED BY <2>3, <2>4, <2>5, <2>6, SpreadKeep
<1>8. CASE \/ \E s \in Node : RaiseScore(s)
           \/ RefreshScores
           \/ \E v \in net.vouch : SetTrust(v[1], v[2], v[3])
           \/ UNCHANGED vars
  <2>1. UNCHANGED <<net, pool, queue, descriptors, learned, dropped>> BY <1>8, ScoreStep
  <2>2. \A n, d : Unrecorded(n, d) => Unrecorded(n, d)' BY <2>1 DEF Unrecorded, Pair
  <2> QED BY <2>1, <2>2, SpreadKeep
<1>9. ASSUME NEW p \in Pair, OverLimit(p[1], p[2]) PROVE Spread' BY <1>9 DEF OverLimit, Spread
<1> QED BY <1>1, <1>2, <1>3, <1>4, <1>5, <1>6, <1>7, <1>8, <1>9 DEF Next

----------------------------------------------------------------------------
\* Everyone who can talk does, and only envelopes are under way.
Still == pool = Pair /\ \A p \in Pair : learned[p] = {} /\ \A m \in Content(queue[p]) : m.type = "relay"

\* n has both ends of an envelope's way.
Near(e, n) == (n = e.origin \/ e.origin \in descriptors[n]) /\ (n = e.to \/ e.to \in descriptors[n])

\* Where an envelope has been; its origin's own table does not show it.
Behind(e) == {n \in Node \ {e.to} : n = e.origin \/ lastNonce[n][e.origin] = e.nonce}

Overtaken(e) == \E n \in Node : lastNonce[n][e.origin] > e.nonce

\* From where it has been, the next hop has been taken too, or is being.
Trail(e) ==
    \A n \in Behind(e) : \/ NextHop(n, e.to) \in Behind(e)
                         \/ \E p \in Pair : p = <<n, NextHop(n, e.to)>> /\ e \in Relayed(queue[p])

Tracked(e) ==
    /\ e.origin # e.to /\ Near(e, e.origin)
    /\ \A p \in Pair : e \in Relayed(queue[p]) => Near(e, p[2])
    /\ e \in arrived \/ Overtaken(e) \/ Trail(e)

\* From the first envelope sent while all was quiet, routes and lists stand still.
DeliveryInv == Undisturbed /\ sent # {} => Still /\ \A e \in sent : Tracked(e)

DeliveryBase == TypeInv /\ EnvelopeInv /\ HopsInv /\ RouteInv /\ Spread /\ LoopInv

\* Neighbours then know the same.
LEMMA StillShared ==
    ASSUME DeliveryBase, Undisturbed, Still, NEW n \in Node, NEW k \in Node, <<n, k>> \in Pair,
           NEW d \in descriptors[n] \cup {n}, d # k
    PROVE  d \in descriptors[k]
<1> DEFINE p == <<n, k>>
<1>1. p \in Pair /\ p \in pool /\ p[1] = n /\ p[2] = k BY DEF Still
<1> HIDE DEF p
<1>2. ~ Offered(p, d) BY <1>1 DEF Offered, Still
<1>3. ~ Unrecorded(n, d) BY DEF Unrecorded, Still
<1>4. Passing(p, d) BY <1>1 DEF DeliveryBase, Spread, Undisturbed
<1> QED BY <1>1, <1>2, <1>3, <1>4 DEF Passing

LEMMA NearNext ==
    ASSUME DeliveryBase, Undisturbed, Still, NEW e \in Envelope, NEW n \in Node, NEW k \in Node, <<n, k>> \in Pair,
           Near(e, n)
    PROVE  Near(e, k)
<1>1. e.origin \in descriptors[n] \cup {n} /\ e.to \in descriptors[n] \cup {n} BY DEF Near
<1> QED BY <1>1, StillShared DEF Near

\* and a route leads on.
LEMMA NextHopLive ==
    ASSUME DeliveryBase, Undisturbed, Still, NEW e \in Envelope, NEW n \in Node, n # e.to, Near(e, n)
    PROVE  NextHop(n, e.to) \in Peers(n) /\ <<n, NextHop(n, e.to)>> \in Pair /\ NextHop(n, e.to) \in Node
<1>1. e.to \in descriptors[n] /\ e.to \in Node BY DEF Near, Envelope
<1>2. ~ Unrecorded(n, e.to) BY DEF Unrecorded, Still
<1>3. routes[n][e.to] # NoNode BY <1>1, <1>2 DEF DeliveryBase, RouteInv, Undisturbed
<1>4. <<n, routes[n][e.to]>> \in Pair BY <1>1, <1>3 DEF DeliveryBase, RouteInv
<1>5. routes[n][e.to] \in Node BY <1>4, PairType
<1>6. routes[n][e.to] \in Peers(n) BY <1>4, <1>5 DEF Still, Peers
<1>7. NextHop(n, e.to) \in Peers(n) BY <1>6 DEF NextHop
<1> QED BY <1>7 DEF Peers, Still

LEMMA UndisturbedBefore ==
    ASSUME [Next]_vars, Undisturbed', TypeInv
    PROVE  Undisturbed /\ net' = net /\ restarted' = restarted
<1>1. net' = net BY NetKept
<1>2. restarted' = {} => restarted' = restarted
  <2>1. \A p \in Pair : Connect(p[1], p[2]) \/ HandleGossip(p[1], p[2]) \/ RecordRoutes(p[1], p[2]) =>
            restarted' = restarted
        BY DEF Connect, HandleGossip, RecordRoutes
  <2>2. \A s \in Node : Restart(s) => restarted' # {} BY DEF Restart
  <2> QED BY <2>1, <2>2, Apart, ScoresApart DEF Next
<1>3. dropped => dropped'
  <2>1. \A p \in Pair : Connect(p[1], p[2]) \/ HandleGossip(p[1], p[2]) => dropped' = dropped
        BY DEF Connect, HandleGossip
  <2>2. \A p \in Pair : RecordRoutes(p[1], p[2]) \/ OverLimit(p[1], p[2]) => (dropped => dropped')
        BY DEF RecordRoutes, OverLimit
  <2>3. \A p \in Pair : HandleRelay(p[1], p[2]) => (dropped => dropped') BY DEF HandleRelay
  <2>4. \A s \in Node : RaiseScore(s) \/ Restart(s) => dropped' = dropped BY DEF RaiseScore, Restart
  <2>5. RefreshScores \/ UNCHANGED vars => dropped' = dropped BY DEF RefreshScores, vars
  <2>6. \A v \in net.vouch : SetTrust(v[1], v[2], v[3]) => dropped' = dropped BY DEF SetTrust
  <2>7. \A e \in net.envelope : TakeNonce(e[1], e[2]) => dropped' = dropped BY DEF TakeNonce
  <2>8. \A e \in drafts : SendObject(e) => (dropped => dropped') BY DEF SendObject
  <2> QED BY <2>1, <2>2, <2>3, <2>4, <2>5, <2>6, <2>7, <2>8 DEF Next
<1> QED BY <1>1, <1>2, <1>3 DEF Undisturbed

\* An envelope goes out.
LEMMA SendObjectDelivery ==
    ASSUME DeliveryBase, DeliveryInv, NEW e, SendObject(e), Undisturbed, Undisturbed', sent' # {}
    PROVE  DeliveryInv'
<1> DEFINE hop == NextHop(e.origin, e.to)  P == {hop} \cap Peers(e.origin)  m == Relay(e, MaxHops)
<1>1. /\ e \in drafts /\ queue' = TrySend(queue, e.origin, P, m)
      /\ dropped' = (dropped \/ Overflows(queue, e.origin, P))
      /\ sent' = IF Quiet /\ P # {} THEN sent \cup {e} ELSE sent
      /\ net' = net /\ UNCHANGED <<pool, descriptors, learned, routes, lastNonce, arrived>>
      BY DEF SendObject, store
<1>2. e \in Envelope /\ e.origin \in Node /\ e.to \in Node /\ e \notin OnTheWire
      /\ \A n \in Node : lastNonce[n][e.origin] # e.nonce
      BY <1>1 DEF DeliveryBase, EnvelopeInv, Envelope, Made
<1>3. m \in Sendable[e.origin] /\ m.of = e /\ m.type = "relay"
  <2>1. e.nonce <= nonce[e.origin] BY <1>1 DEF DeliveryBase, EnvelopeInv, Made
  <2> QED BY <1>2, <2>1, BoundsAssumption DEF Relay, Sendable, Message
<1>4. Still
  <2>1. CASE sent # {} BY <2>1 DEF DeliveryInv
  <2>2. CASE sent = {}
    <3>1. Quiet BY <1>1, <2>2
    <3>2. \A p \in Pair : Content(queue[p]) = {} BY <3>1 DEF Quiet, Content
    <3> QED BY <3>1, <3>2 DEF Still, Quiet
  <2> QED BY <2>1, <2>2
<1>5. ~ Overflows(queue, e.origin, P) BY <1>1 DEF Undisturbed
<1>6. Peers(e.origin) \subseteq Node /\ NoNode \notin Peers(e.origin) /\ \A k \in Peers(e.origin) : <<e.origin, k>> \in Pair
      BY NoNodeAssumption DEF Peers, DeliveryBase, TypeInv, PoolOK
<1>7. Pair' = Pair /\ \A n, d : NextHop(n, d)' = NextHop(n, d) BY <1>1 DEF Pair, NextHop, Peers
<1> HIDE DEF m
<1>8. /\ \A p \in Pair : Content(queue[p]) \subseteq Content(queue'[p]) /\ Content(queue'[p]) \subseteq Content(queue[p]) \cup {m}
      /\ \A p \in Pair : ~ (p[1] = e.origin /\ p[2] \in P) => Content(queue'[p]) = Content(queue[p])
      /\ \A p \in Pair : p[1] = e.origin /\ p[2] \in P => m \in Content(queue'[p])
  <2> HIDE DEF P
  <2>1. QueueOK(queue, Sendable) BY DEF DeliveryBase, TypeInv
  <2>2. ASSUME NEW p \in Pair
        PROVE  /\ Content(queue[p]) \subseteq Content(queue'[p])
               /\ ~ (p[1] = e.origin /\ p[2] \in P) => Content(queue'[p]) = Content(queue[p])
               /\ p[1] = e.origin /\ p[2] \in P => m \in Content(queue'[p])
    <3>1. Content(queue[p]) \subseteq Content(queue'[p]) BY <1>1, <1>2, <1>3, <2>1, ContentSend
    <3>2. ~ (p[1] = e.origin /\ p[2] \in P) => Content(queue'[p]) = Content(queue[p])
          BY <1>1, <1>2, <1>3, <2>1, ContentSend
    <3>3. p[1] = e.origin /\ p[2] \in P => m \in Content(queue'[p])
          BY <1>1, <1>2, <1>3, <1>5, <2>1, ContentSend
    <3> QED BY <3>1, <3>2, <3>3
  <2>3. ASSUME NEW p \in Pair PROVE Content(queue'[p]) \subseteq Content(queue[p]) \cup {m}
    <3>1. Content(TrySend(queue, e.origin, P, m)[p]) \subseteq Content(queue[p]) \cup {m}
          BY <1>2, <1>3, <2>1, ContentSend
    <3> QED BY <1>1, <3>1
  <2> QED BY <2>2, <2>3
<1>9. /\ \A p \in Pair : Relayed(queue[p]) \subseteq Relayed(queue'[p]) /\ Relayed(queue'[p]) \subseteq Relayed(queue[p]) \cup {e}
      /\ \A p \in Pair : ~ (p[1] = e.origin /\ p[2] \in P) => Relayed(queue'[p]) = Relayed(queue[p])
      /\ \A p \in Pair : p[1] = e.origin /\ p[2] \in P => e \in Relayed(queue'[p])
      BY <1>3, <1>8 DEF Relayed
<1>10. Still' BY <1>1, <1>3, <1>4, <1>7, <1>8 DEF Still
<1>11. \A f, n : /\ Near(f, n)' <=> Near(f, n)
                 /\ Behind(f)' = Behind(f) /\ (Overtaken(f)' <=> Overtaken(f))
       BY <1>1 DEF Near, Behind, Overtaken
<1>12. ASSUME NEW f \in sent PROVE Tracked(f)'
  <2>1. Tracked(f) BY <1>12 DEF DeliveryInv
  <2>2. f.origin # f.to /\ Near(f, f.origin)' BY <1>11, <2>1 DEF Tracked
  <2>3. ASSUME NEW p \in Pair, f \in Relayed(queue'[p]) PROVE Near(f, p[2])
    <3>1. CASE f \in Relayed(queue[p]) BY <2>1, <3>1 DEF Tracked
    <3>2. CASE f \notin Relayed(queue[p])
      <4>1. f = e /\ p[1] = e.origin /\ p[2] \in P BY <1>9, <2>3, <3>2
      <4>2. p = <<e.origin, p[2]>> /\ p[2] \in Node BY <4>1, PairType
      <4>3. Near(e, e.origin) BY <2>1, <4>1 DEF Tracked
      <4> QED BY <1>2, <1>4, <4>1, <4>2, <4>3, NearNext
    <3> QED BY <3>1, <3>2
  <2>4. Trail(f) => Trail(f)' BY <1>7, <1>9, <1>11 DEF Trail
  <2>5. f \in arrived' \/ Overtaken(f)' \/ Trail(f)' BY <1>1, <1>11, <2>1, <2>4 DEF Tracked
  <2> QED BY <1>7, <1>11, <2>2, <2>3, <2>5 DEF Tracked
<1>13. ASSUME Quiet, P # {} PROVE Tracked(e)'
  <2>1. hop \in P /\ hop \in Peers(e.origin) BY <1>13
  <2>2. <<e.origin, hop>> \in Pair /\ hop # NoNode /\ hop \in Node BY <1>6, <2>1
  <2>3. hop = e.to \/ hop = routes[e.origin][e.to] BY DEF NextHop
  <2>4. e.origin # e.to /\ (e.to \in descriptors[e.origin] \/ <<e.origin, e.to>> \in Pair)
    <3>1. CASE hop = e.to BY <2>2, <3>1, PairType
    <3>2. CASE hop = routes[e.origin][e.to] BY <1>2, <2>2, <3>2 DEF DeliveryBase, RouteInv
    <3> QED BY <2>3, <3>1, <3>2
  <2>5. e.to \in descriptors[e.origin]
    <3> SUFFICES ASSUME <<e.origin, e.to>> \in Pair PROVE e.to \in descriptors[e.origin]
        BY <2>4
    <3>1. <<e.to, e.origin>> \in Pair BY PairType
    <3> QED BY <1>2, <1>4, <2>4, <3>1, StillShared
  <2>6. Near(e, e.origin) BY <2>5 DEF Near
  <2>7. Near(e, hop) BY <1>2, <1>4, <2>2, <2>6, NearNext
  <2>8. ASSUME NEW p \in Pair, e \in Relayed(queue'[p]) PROVE Near(e, p[2])
    <3>1. e \notin Relayed(queue[p]) BY <1>2, <2>8 DEF OnTheWire
    <3>2. p[2] \in P BY <1>9, <2>8, <3>1
    <3> QED BY <2>7, <3>2
  <2>9. Behind(e) = {e.origin} BY <1>2, <2>4 DEF Behind
  <2>10. e \in Relayed(queue'[<<e.origin, hop>>]) BY <1>9, <2>1, <2>2
  <2>11. Trail(e)' BY <1>7, <1>11, <2>2, <2>9, <2>10 DEF Trail
  <2> QED BY <1>7, <1>11, <2>4, <2>6, <2>8, <2>11 DEF Tracked
<1>14. \A f \in sent' : Tracked(f)' BY <1>1, <1>12, <1>13
<1> QED BY <1>10, <1>14 DEF DeliveryInv

----------------------------------------------------------------------------
\* An envelope goes on.
LEMMA HandleRelayDelivery ==
    ASSUME DeliveryBase, DeliveryInv, NEW a, NEW b, HandleRelay(a, b), Undisturbed, Undisturbed', sent' # {}
    PROVE  DeliveryInv'
<1>0. PICK m, hop : m = Head(queue[<<a, b>>]) /\ hop = NextHop(b, m.of.to) OBVIOUS
<1>1. Handled(a, b, m, hop) BY <1>0, HandleRelayFacts DEF DeliveryBase
<1>2. PICK e : e = m.of OBVIOUS
<1>3. /\ <<a, b>> \in Pair /\ a \in Node /\ b \in Node /\ e \in Envelope /\ m.type = "relay"
      /\ m \in [type : {"relay"}, of : Envelope, hopsLeft : 0..MaxHops]
      /\ m \in Content(queue[<<a, b>>])
      /\ net' = net /\ UNCHANGED <<descriptors, learned, routes, sent>>
      BY <1>1, <1>2 DEF Handled, store
<1>4. pool' = pool BY NoSessionEnds DEF DeliveryBase, Undisturbed
<1>5. Still /\ \A f \in sent : Tracked(f) BY <1>3 DEF DeliveryInv
<1>6. Pair' = Pair /\ (\A n, d : NextHop(n, d)' = NextHop(n, d)) /\ \A f, n : Near(f, n)' <=> Near(f, n)
      BY <1>3, <1>4 DEF Pair, NextHop, Peers, Near
<1>7. Forwarded(m).of = e /\ Forwarded(m).type = "relay" BY <1>2, <1>3 DEF Forwarded
<1>8. /\ \A p \in Pair : \A x \in Content(queue'[p]) :
             x \in Content(queue[p]) \/ (x = Forwarded(m) /\ p = <<b, hop>>)
      /\ \A p \in Pair : \A x \in Content(queue[p]) : x \in Content(queue'[p]) \/ (x = m /\ p = <<a, b>>)
  <2>1. \A p \in Pair : \A x \in Content(queue'[p]) :
            x \in Content(queue[p]) \/ (x = Forwarded(m) /\ p = <<b, hop>>)
        BY <1>1 DEF Handled
  <2>2. \A p \in pool' : Content(queue[p]) \subseteq Content(queue'[p]) \cup (IF p = <<a, b>> THEN {m} ELSE {})
        BY <1>1 DEF Handled
  <2>3. \A p \in Pair : Content(queue[p]) \subseteq Content(queue'[p]) \cup (IF p = <<a, b>> THEN {m} ELSE {})
        BY <1>4, <1>5, <2>2 DEF Still
  <2> QED BY <2>1, <2>3
<1>9. Still' BY <1>3, <1>4, <1>5, <1>6, <1>7, <1>8 DEF Still
<1>10. /\ \A p \in Pair : \A f : f \in Relayed(queue'[p]) =>
              f \in Relayed(queue[p]) \/ (f = e /\ p = <<b, hop>>)
       /\ \A p \in Pair : \A f : f \in Relayed(queue[p]) =>
              f \in Relayed(queue'[p]) \/ (f = e /\ p = <<a, b>>)
       BY <1>2, <1>7, <1>8 DEF Relayed
<1>11. e \in Relayed(queue[<<a, b>>]) BY <1>2, <1>3 DEF Relayed
<1>12. e \in Made /\ e.origin \in Node /\ e.to \in Node /\ e.nonce \in Nat
       BY <1>3, <1>11 DEF Made, OnTheWire, Envelope
<1>13. lastNonce' = IF Admitted(a, b, e) THEN [lastNonce EXCEPT ![b][e.origin] = e.nonce] ELSE lastNonce
       BY <1>1, <1>2 DEF Handled
<1>14. arrived' = IF Admitted(a, b, e) /\ e.to = b THEN arrived \cup {e} ELSE arrived
       BY <1>1, <1>2 DEF Handled
<1>15. lastNonce \in [Node -> [Node -> Nat]] BY DEF DeliveryBase, TypeInv, EnvelopesOK
<1>16. Admitted(a, b, e) => lastNonce[b][e.origin] < e.nonce BY DEF Admitted, Check
<1>17. \A n, o \in Node : \/ lastNonce'[n][o] = lastNonce[n][o] /\ (Admitted(a, b, e) => ~ (n = b /\ o = e.origin))
                          \/ n = b /\ o = e.origin /\ Admitted(a, b, e) /\ lastNonce'[n][o] = e.nonce
       BY <1>3, <1>12, <1>13, <1>15
<1>18. \A n, o \in Node : lastNonce[n][o] <= lastNonce'[n][o] /\ lastNonce'[n][o] \in Nat
       BY <1>12, <1>15, <1>16, <1>17
<1> SUFFICES ASSUME NEW f \in sent PROVE Tracked(f)'
    BY <1>3, <1>9 DEF DeliveryInv
<1>19. f \in Made /\ f \in Envelope /\ f.origin \in Node /\ f.to \in Node /\ f.nonce \in Nat /\ Tracked(f)
       BY <1>5 DEF Made, DeliveryBase, EnvelopeInv, Envelope
<1>20. f.origin # f.to /\ Near(f, f.origin)' BY <1>6, <1>19 DEF Tracked
<1>21. ASSUME NEW p \in Pair, f \in Relayed(queue'[p]) PROVE Near(f, p[2])
  <2>1. CASE f \in Relayed(queue[p]) BY <1>19, <2>1 DEF Tracked
  <2>2. CASE f = e /\ p = <<b, hop>>
    <3>1. Near(e, b) BY <1>3, <1>11, <1>19, <2>2 DEF Tracked
    <3>2. hop \in Node BY <2>2, PairType
    <3> QED BY <1>3, <1>5, <2>2, <3>1, <3>2, NearNext
  <2> QED BY <1>10, <1>21, <2>1, <2>2
<1>22. ASSUME f \notin arrived', ~ Overtaken(f)' PROVE Trail(f)'
  <2>1. f \notin arrived BY <1>14, <1>22
  <2>2. ~ Overtaken(f)
    <3>1. \A n \in Node : ~ (lastNonce'[n][f.origin] > f.nonce) BY <1>22 DEF Overtaken
    <3> QED BY <1>15, <1>18, <1>19, <3>1 DEF Overtaken
  <2>3. Trail(f) BY <1>19, <2>1, <2>2 DEF Tracked
  <2>4. \A n \in Node : lastNonce'[n][f.origin] <= f.nonce BY <1>18, <1>19, <1>22 DEF Overtaken
  <2>5. Behind(f) \subseteq Behind(f)'
    <3> SUFFICES ASSUME NEW n \in Node, lastNonce[n][f.origin] = f.nonce
                 PROVE  lastNonce'[n][f.origin] = f.nonce
        BY DEF Behind
    <3> QED BY <1>18, <1>19, <2>4
  <2>6. CASE f # e
    <3>1. f.origin = e.origin => f.nonce # e.nonce BY <1>12, <1>19, <2>6 DEF DeliveryBase, EnvelopeInv
    <3>2. Behind(f)' \subseteq Behind(f) BY <1>17, <1>19, <3>1 DEF Behind
    <3>3. \A p \in Pair : f \in Relayed(queue[p]) => f \in Relayed(queue'[p]) BY <1>10, <2>6
    <3> QED BY <1>6, <2>3, <2>5, <3>2, <3>3 DEF Trail
  <2>7. CASE f = e
    <3>1. Near(e, b) BY <1>3, <1>11, <1>19, <2>7 DEF Tracked
    <3>2. b \in Behind(e)'
      <4>1. CASE Admitted(a, b, e)
        <5>1. b # e.to BY <1>14, <1>22, <2>7, <4>1
        <5>2. lastNonce'[b][e.origin] = e.nonce BY <1>3, <1>12, <1>17, <4>1
        <5> QED BY <1>3, <5>1, <5>2 DEF Behind
      <4>2. CASE ~ Check(b, e)
        <5>1. ~ Admitted(a, b, e) BY <4>2 DEF Admitted
        <5>2. lastNonce'[b][e.origin] = lastNonce[b][e.origin] BY <1>3, <1>12, <1>17, <5>1
        <5>3. lastNonce[b][e.origin] = e.nonce
          <6>1. lastNonce[b][e.origin] \in Nat /\ e.nonce \in Nat BY <1>3, <1>12, <1>15
          <6>2. lastNonce'[b][e.origin] <= e.nonce BY <1>3, <2>4, <2>7
          <6>3. ~ (e.nonce > lastNonce[b][e.origin]) BY <4>2 DEF Check
          <6> QED BY <5>2, <6>1, <6>2, <6>3
        <5>4. b # e.to BY <1>12, <2>1, <2>7, <5>3 DEF DeliveryBase, EnvelopeInv
        <5> QED BY <1>3, <5>2, <5>3, <5>4 DEF Behind
      <4>3. CASE ~ KnownOrigin(a, b, e.origin)
        <5>1. e.origin \notin peers[b] BY <4>3 DEF KnownOrigin
        <5>2. e.origin \notin descriptors[b] BY <1>3, <5>1 DEF DeliveryBase, TypeInv, StoreOK
        <5>3. b = e.origin BY <3>1, <5>2 DEF Near
        <5> QED BY <1>3, <1>20, <2>7, <5>3 DEF Behind
      <4> QED BY <4>1, <4>2, <4>3 DEF Admitted
    <3>3. ASSUME NEW n \in Behind(e)
          PROVE  \/ NextHop(n, e.to) \in Behind(e)'
                 \/ \E p \in Pair : p = <<n, NextHop(n, e.to)>> /\ e \in Relayed(queue'[p])
      <4>1. CASE NextHop(n, e.to) \in Behind(e) BY <2>5, <2>7, <4>1
      <4>2. ASSUME NEW p \in Pair, p = <<n, NextHop(n, e.to)>>, e \in Relayed(queue[p])
            PROVE  \/ NextHop(n, e.to) \in Behind(e)'
                   \/ \E q \in Pair : q = <<n, NextHop(n, e.to)>> /\ e \in Relayed(queue'[q])
        <5>1. CASE e \in Relayed(queue'[p]) BY <4>2, <5>1
        <5>2. CASE p = <<a, b>> BY <3>2, <4>2, <5>2
        <5> QED BY <1>10, <4>2, <5>1, <5>2
      <4> QED BY <2>3, <2>7, <4>1, <4>2 DEF Trail
    <3>4. ASSUME NEW n \in Behind(e)', n \notin Behind(e)
          PROVE  \E p \in Pair : p = <<n, NextHop(n, e.to)>> /\ e \in Relayed(queue'[p])
      <4>1. n = b /\ Admitted(a, b, e) /\ b # e.to BY <1>12, <1>17, <3>4 DEF Behind
      <4>2. hop = NextHop(b, e.to) BY <1>0, <1>2
      <4>3. hop \in Peers(b) /\ <<b, hop>> \in Pair BY <1>3, <1>5, <3>1, <4>1, <4>2, NextHopLive
      <4>4. Forwarded(m) \in Content(queue'[<<b, hop>>])
            BY <1>1, <1>2, <1>4, <4>1, <4>3 DEF Handled, Undisturbed
      <4>5. e \in Relayed(queue'[<<b, hop>>]) BY <1>7, <4>4 DEF Relayed
      <4> QED BY <4>1, <4>2, <4>3, <4>5
    <3> QED BY <1>6, <2>7, <3>3, <3>4 DEF Trail
  <2> QED BY <2>6, <2>7
<1> QED BY <1>6, <1>20, <1>21, <1>22 DEF Tracked

----------------------------------------------------------------------------
LEMMA DeliveryInit == Init => DeliveryInv
BY DEF Init, DeliveryInv

\* While all is quiet but for envelopes, nothing else moves.
LEMMA DeliveryStep == DeliveryBase /\ DeliveryInv /\ [Next]_vars => DeliveryInv'
<1> SUFFICES ASSUME DeliveryBase, DeliveryInv, [Next]_vars, Undisturbed', sent' # {} PROVE DeliveryInv'
    BY DEF DeliveryInv
<1>1. Undisturbed /\ net' = net /\ restarted' = restarted BY UndisturbedBefore DEF DeliveryBase
<1>2. Pair' = Pair BY <1>1 DEF Pair
<1>3. ASSUME UNCHANGED <<pool, queue, descriptors, learned, routes, lastNonce, sent, arrived>>
      PROVE  DeliveryInv'
  <2>1. Still /\ \A e \in sent : Tracked(e) BY <1>1, <1>3 DEF DeliveryInv
  <2>2. Still' BY <1>2, <1>3, <2>1 DEF Still
  <2>3. \A n, d : NextHop(n, d)' = NextHop(n, d) BY <1>3 DEF NextHop, Peers
  <2>4. \A e : Behind(e)' = Behind(e) /\ (Overtaken(e)' <=> Overtaken(e)) BY <1>3 DEF Behind, Overtaken
  <2>5. \A e, n : Near(e, n)' <=> Near(e, n) BY <1>3 DEF Near
  <2>6. \A e : Trail(e) => Trail(e)' BY <1>2, <1>3, <2>3, <2>4 DEF Trail
  <2>7. \A e : Tracked(e) => Tracked(e)' BY <1>2, <1>3, <2>4, <2>5, <2>6 DEF Tracked
  <2> QED BY <1>3, <2>1, <2>2, <2>7 DEF DeliveryInv
<1>4. ASSUME sent' = sent PROVE Still
      BY <1>1, <1>4 DEF DeliveryInv
<1>5. ASSUME NEW p \in Pair, Connect(p[1], p[2]) PROVE FALSE
  <2>1. sent' = sent /\ <<p[1], p[2]>> \in Pair \ pool BY <1>5 DEF Connect, envelopes
  <2> QED BY <1>4, <2>1 DEF Still
<1>6. ASSUME NEW p \in Pair, HandleGossip(p[1], p[2]) PROVE FALSE
  <2>1. PICK a, b : a = p[1] /\ b = p[2] OBVIOUS
  <2>2. /\ sent' = sent /\ queue[<<a, b>>] # <<>> /\ Head(queue[<<a, b>>]).type = "gossip"
        /\ <<a, b>> \in Pair
        BY <1>6, <2>1, PairType DEF HandleGossip, envelopes
  <2>3. Head(queue[<<a, b>>]) \in Content(queue[<<a, b>>]) BY <2>2, HeadHeld DEF DeliveryBase
  <2> QED BY <1>4, <2>2, <2>3 DEF Still
<1>7. ASSUME NEW p \in Pair, RecordRoutes(p[1], p[2]) PROVE FALSE
  <2>1. sent' = sent /\ <<p[1], p[2]>> \in Pair /\ learned[<<p[1], p[2]>>] # {}
        BY <1>7 DEF RecordRoutes, envelopes
  <2> QED BY <1>4, <2>1 DEF Still
<1>8. ASSUME NEW p \in Pair, HandleRelay(p[1], p[2]) PROVE DeliveryInv'
      BY <1>1, <1>8, HandleRelayDelivery
<1>9. ASSUME NEW s \in Node, Restart(s) PROVE FALSE
      BY <1>9 DEF Restart, Undisturbed
<1>10. ASSUME NEW e \in net.envelope, TakeNonce(e[1], e[2]) PROVE DeliveryInv'
       BY <1>3, <1>10 DEF TakeNonce, store
<1>11. ASSUME NEW e \in drafts, SendObject(e) PROVE DeliveryInv'
       BY <1>1, <1>11, SendObjectDelivery
<1>12. CASE \/ \E s \in Node : RaiseScore(s)
            \/ RefreshScores
            \/ \E v \in net.vouch : SetTrust(v[1], v[2], v[3])
            \/ UNCHANGED vars
  <2>1. UNCHANGED <<pool, queue, descriptors, learned, routes, lastNonce, sent, arrived>>
        BY <1>12 DEF RaiseScore, RefreshScores, SetTrust, vars, store, envelopes
  <2> QED BY <1>3, <2>1
<1>13. ASSUME NEW p \in Pair, OverLimit(p[1], p[2]) PROVE FALSE BY <1>13 DEF OverLimit, Undisturbed
<1> QED BY <1>5, <1>6, <1>7, <1>8, <1>9, <1>10, <1>11, <1>12, <1>13 DEF Next

\* The trail of an envelope ends where it is under way: routes lead out of every
\* set of nodes.
LEMMA DeliveryArrives == DeliveryBase /\ DeliveryInv => QuietEnvelopesArrive
<1> SUFFICES ASSUME DeliveryBase, DeliveryInv, Undisturbed, NEW e \in sent,
                    e \notin arrived, ~ Overtaken(e)
             PROVE  UnderWay(e)
    BY DEF QuietEnvelopesArrive, Overtaken
<1>1. Tracked(e) /\ e.origin # e.to /\ Trail(e) BY DEF DeliveryInv, Tracked
<1>2. e.origin \in Node /\ e.to \in Node BY DEF DeliveryBase, EnvelopeInv, Made, Envelope
<1>3. Behind(e) \in (SUBSET (Node \ {e.to})) \ {{}} BY <1>1, <1>2 DEF Behind
<1>4. NoRoutingLoop BY LoopInvNoLoop DEF DeliveryBase
<1>5. PICK n \in Behind(e) : NextHop(n, e.to) \notin Behind(e) BY <1>2, <1>3, <1>4 DEF NoRoutingLoop
<1>6. PICK p \in Pair : e \in Relayed(queue[p]) BY <1>1, <1>5 DEF Trail
<1>7. PICK m \in Content(queue[p]) : m.type = "relay" /\ m.of = e BY <1>6 DEF Relayed
<1>8. PICK i \in 1..Len(queue[p]) : m = queue[p][i] BY <1>7 DEF Content
<1>9. i \in DOMAIN queue[p] BY <1>8, LenProperties DEF DeliveryBase, TypeInv, QueueOK
<1> QED BY <1>7, <1>8, <1>9 DEF UnderWay

\* An envelope queued once all was quiet is under way until it arrives or a later
\* one of its origin passes it, as long as no node restarts, no queue is full, no
\* frame is over the limit and every announcement is taken (relay.rs handle,
\* admission.rs check).
THEOREM QuietDelivery == Spec => []QuietEnvelopesArrive
<1> DEFINE Inv == DeliveryBase /\ DeliveryInv
<1>1. Init => Inv
      BY TypeInit, EnvelopeInit, HopsInit, RouteInit, SpreadInit, LoopInit, DeliveryInit DEF DeliveryBase
<1>2. Inv /\ [Next]_vars => Inv'
  <2> SUFFICES ASSUME Inv, [Next]_vars PROVE Inv'
      OBVIOUS
  <2>1. TypeInv' /\ LoopInv' BY TypeStep, LoopStep DEF DeliveryBase
  <2>2. EnvelopeInv' /\ HopsInv' BY EnvelopeStep, HopsStep DEF DeliveryBase
  <2>3. RouteInv' /\ Spread' BY RouteStep, SpreadStep DEF DeliveryBase
  <2>4. DeliveryInv' BY DeliveryStep
  <2> QED BY <2>1, <2>2, <2>3, <2>4 DEF DeliveryBase
<1>3. Inv => QuietEnvelopesArrive BY DeliveryArrives
<1> QED BY <1>1, <1>2, <1>3, PTL DEF Spec
=============================================================================
