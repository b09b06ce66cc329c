------------------------------ MODULE Overlay -------------------------------
(***************************************************************************)
(* fantuan-node gossip.rs and relay.rs over the trust store: a new session *)
(* offers the descriptors and vouches stored; whoever learns a descriptor  *)
(* records a route to it through the sender, answers with its own list and *)
(* pushes that to its other peers.  Envelopes follow the routes.           *)
(*                                                                         *)
(* Abstractions.  Both ends of a session start at once.  Lists, vouches    *)
(* and envelopes are genuine and small enough to send; a node has one      *)
(* descriptor.  Answers are queued rather than written ahead of the queue. *)
(* Envelopes are fresh and within quota, certificates never change, nonces *)
(* increase over a node's lives (RelayNonce) and no table is full.  A node *)
(* holds its trust store from the first announcement to the last score,    *)
(* during which only an owner's command, another process, does anything;   *)
(* routes are recorded after that.  That command is one step.  A session's *)
(* token bucket (module Sessions) counts the frames of all the handlers:   *)
(* where a deployment is limited, any frame may find it empty.             *)
(***************************************************************************)
EXTENDS FiniteSets, Sequences, TrustGraph

CONSTANTS
    NoNode,     \* no hop; nobody is scoring
    Network,    \* deployments explored
    QueueCap,   \* DEFAULT_WRITER_QUEUE
    MaxHops,    \* RELAY_MAX_HOPS
    MaxNonce    \* bound: envelopes an origin makes

Node == Peer

\* A node's descriptor: one each, signed by the node, its certificate inside.
Descriptor == Node

(* A deployment: who dials whom, the vouches owners have made and those     *)
(* they make later (signer, subject, level), whether a third party's        *)
(* descriptor needs one, who writes to whom <<origin, to>>, whether peers   *)
(* may send frames faster than max_frames_per_sec, and who restarts, once   *)
(* each.                                                                    *)
Vouch == Node \X Node \X Level
Deployment ==
    [link : SUBSET {{a, b} : a, b \in Node}, made : SUBSET Vouch, vouch : SUBSET Vouch,
     requireVouch : BOOLEAN, envelope : SUBSET (Node \X Node), limited : BOOLEAN,
     restarting : SUBSET Node]

ASSUME NetworkAssumption == Network \subseteq Deployment
ASSUME NodesAssumption == IsFiniteSet(Node)
ASSUME NoNodeAssumption == NoNode \notin Peer
ASSUME BoundsAssumption == QueueCap \in Nat \ {0} /\ MaxHops \in Nat /\ MaxNonce \in Nat

VARIABLES
    net,            \* the deployment; never changes
    pool,           \* pairs with a session
    queue,          \* queue[<<a, b>>]: what a has sent b
    peers,          \* peers[n]: certificates in n's trust store
    descriptors,    \* descriptors[n]: descriptors in it
    rel,            \* rel[n]: vouches in it
    score,          \* score[n][p]: cached score, of the rows of peers[n]
    scoring,        \* the node at its scores
    basis, trust,   \* the vouches its compute has read, and compute's map
    learned,        \* learned[<<a, b>>]: new to b from a, routes not recorded yet
    routes,         \* routes[n][d]: the peer through which n reaches d
    vouched,        \* vouches made
    restarted,      \* nodes that have restarted
    nonce,          \* nonce[n]: n's last relay nonce
    drafts,         \* envelopes with a nonce, being signed
    lastNonce,      \* lastNonce[n][o]: n's admission table
    sent,           \* history: envelopes queued while all was quiet
    arrived,        \* history: envelopes delivered
    dropped         \* history: something was lost to a full queue or a limit

vars == <<net, pool, queue, peers, descriptors, rel, score, scoring, basis, trust, learned,
          routes, vouched, restarted, nonce, drafts, lastNonce, sent, arrived, dropped>>

envelopes == <<nonce, drafts, lastNonce, sent, arrived>>

store == <<peers, descriptors, rel, score>>

Pair == {p \in Node \X Node : {p[1], p[2]} \in net.link /\ p[1] # p[2]}
Peers(n) == {m \in Node : <<n, m>> \in pool}

----------------------------------------------------------------------------
\* The writes of trust.rs: certificates, descriptors, one vouch.
UpsertPeer(n, D) == [peers EXCEPT ![n] = @ \cup D]
StoreDescriptor(n, D) == [descriptors EXCEPT ![n] = @ \cup D]
SetRelationship(n, signer, subject, level) == [rel EXCEPT ![n][<<signer, subject>>] = level]

\* gossip.rs build: the own descriptor, the others stored, all vouches.
Gossip(n) == [type |-> "gossip", announcements |-> descriptors[n] \cup {n}, vouches |-> rel[n]]

Envelope == [origin : Node, to : Node, nonce : 1..MaxNonce]

Relay(e, hops) == [type |-> "relay", of |-> e, hopsLeft |-> hops]

Forwarded(m) == [m EXCEPT !.hopsLeft = @ - 1]

\* pool.rs: n sends m to the peers in P; what finds a queue full is gone.
TrySend(q, n, P, m) ==
    [p \in DOMAIN q |-> IF p[1] = n /\ p[2] \in P /\ Len(q[p]) < QueueCap THEN Append(q[p], m) ELSE q[p]]

Overflows(q, n, P) == \E p \in DOMAIN q : p[1] = n /\ p[2] \in P /\ Len(q[p]) >= QueueCap

Rest(a, b) == [queue EXCEPT ![<<a, b>>] = Tail(@)]

\* state.rs next_hop: a session wins over a route.
NextHop(n, d) == IF d \in Peers(n) THEN d ELSE routes[n][d]

----------------------------------------------------------------------------
NoVouches == [v \in Node \X Node |-> NoVouch]

Init ==
    /\ net \in Network
    /\ pool = {}
    /\ queue = [p \in Pair |-> <<>>]
    /\ peers = [n \in Node |-> {v[2] : v \in {w \in net.made : w[1] = n}}]
    /\ descriptors = [n \in Node |-> {}]
    /\ rel = [n \in Node |-> [p \in Node \X Node |->
                IF \E v \in net.made : p = <<n, v[2]>> /\ v[1] = n
                THEN (CHOOSE v \in net.made : p = <<n, v[2]>> /\ v[1] = n)[3] ELSE NoVouch]]
    /\ score = [n \in Node |-> [m \in Node |-> NewLevel(rel[n], Start(n), m)]]
    /\ scoring = NoNode
    /\ basis = NoVouches
    /\ trust = [n \in Node |-> Unknown]
    /\ learned = [p \in Pair |-> {}]
    /\ routes = [n \in Node |-> [d \in Node |-> NoNode]]
    /\ vouched = {}
    /\ restarted = {}
    /\ nonce = [n \in Node |-> 0]
    /\ drafts = {}
    /\ lastNonce = [n \in Node |-> [o \in Node |-> 0]]
    /\ sent = {} /\ arrived = {}
    /\ dropped = FALSE

\* run.rs pin_peer, at both ends.
PinPeer(a, b) == [peers EXCEPT ![a] = @ \cup {b}, ![b] = @ \cup {a}]

\* A session starts: both ends pin the other, route to it and offer their list.
Connect(a, b) ==
    /\ scoring = NoNode
    /\ <<a, b>> \in Pair \ pool
    /\ pool' = pool \cup {<<a, b>>, <<b, a>>}
    /\ peers' = PinPeer(a, b)
    /\ routes' = [routes EXCEPT ![a][b] = b, ![b][a] = a]
    /\ queue' = [queue EXCEPT ![<<a, b>>] = <<Gossip(a)>>, ![<<b, a>>] = <<Gossip(b)>>]
    /\ UNCHANGED <<net, descriptors, rel, score, scoring, basis, trust, learned, vouched, restarted,
                   envelopes, dropped>>

\* Mutant: the own descriptor is taken like any other.
AcceptableOwn(a, b, d) == net.requireVouch => d = a \/ rel[b][<<a, d>>] # NoVouch

\* b may take a's announcement of d.
Acceptable(a, b, d) ==
    /\ d # b
    /\ net.requireVouch => d = a \/ rel[b][<<a, d>>] # NoVouch

\* Mutant: every announcement counts as new.
LearnedAny(b, D) == D

\* Announcements among D that b had no descriptor of.
Learned(b, D) == D \ descriptors[b]

\* Vouches of known signers overwrite what is stored.
Merge(old, new, known) ==
    [v \in Node \X Node |-> IF v[1] \in known /\ new[v] # NoVouch THEN new[v] ELSE old[v]]

\* handle, up to the scores: descriptors, then the vouches of signers now known.
HandleGossip(a, b) ==
    /\ scoring = NoNode
    /\ <<a, b>> \in pool /\ learned[<<a, b>>] = {}
    /\ queue[<<a, b>>] # <<>> /\ Head(queue[<<a, b>>]).type = "gossip"
    /\ LET m == Head(queue[<<a, b>>])
           D == {d \in m.announcements : Acceptable(a, b, d)}
       IN  /\ peers' = UpsertPeer(b, D)
           /\ descriptors' = StoreDescriptor(b, D)
           /\ learned' = [learned EXCEPT ![<<a, b>>] = Learned(b, D)]
           /\ rel' = [rel EXCEPT ![b] = Merge(@, m.vouches, peers'[b])]
    /\ queue' = Rest(a, b)
    /\ scoring' = b
    /\ basis' = rel'[b]
    /\ trust' = Start(b)
    /\ UNCHANGED <<net, pool, score, routes, vouched, restarted, envelopes, dropped>>

\* compute raises one subject; the subjects come in the order of a hash set.
RaiseScore(s) ==
    /\ scoring # NoNode
    /\ s \in Unsettled(scoring, basis, trust)
    /\ trust' = Raise(basis, trust, s)
    /\ UNCHANGED <<net, pool, queue, store, scoring, basis, learned, routes, vouched, restarted, envelopes,
                   dropped>>

\* Mutant: compute makes one pass at most over each subject.
SettledOnce == \A s \in Node \ {scoring} : trust[s] # Unknown \/ s \notin Unsettled(scoring, basis, trust)

Settled == Unsettled(scoring, basis, trust) = {}

\* refresh_scores writes the rows and the store is released.
RefreshScores ==
    /\ scoring # NoNode
    /\ Settled
    /\ score' = [score EXCEPT ![scoring] = [p \in Node |->
                    IF p \in peers[scoring] THEN trust[p] ELSE @[p]]]
    /\ scoring' = NoNode
    /\ basis' = NoVouches
    /\ UNCHANGED <<net, pool, queue, peers, descriptors, rel, trust, learned, routes, vouched,
                   restarted, envelopes, dropped>>

\* Mutant: only the sender gets an answer.
Audience(b, a) == {a}

\* The answer to a goes out, and a push to everyone else.
Everyone(b, a) == Peers(b)

\* b's session with a: routes through a are recorded, and the new list goes out.
RecordRoutes(a, b) ==
    /\ scoring = NoNode
    /\ <<a, b>> \in Pair /\ learned[<<a, b>>] # {}
    /\ routes' = [routes EXCEPT ![b] = [d \in Node |-> IF d \in learned[<<a, b>>] THEN a ELSE @[d]]]
    /\ queue' = TrySend(queue, b, Everyone(b, a), Gossip(b))
    /\ dropped' = (dropped \/ Overflows(queue, b, Everyone(b, a)))
    /\ learned' = [learned EXCEPT ![<<a, b>>] = {}]
    /\ UNCHANGED <<net, pool, store, scoring, basis, trust, vouched, restarted, envelopes>>

\* The owner of n vouches for a peer (identity_cmd.rs), while the node runs and
\* whatever it is at; the command writes the scores too, and no list goes out.
SetTrust(n, s, level) ==
    /\ <<n, s, level>> \in net.vouch \ vouched
    /\ s \in peers[n]
    /\ vouched' = vouched \cup {<<n, s, level>>}
    /\ rel' = SetRelationship(n, n, s, level)
    /\ \E map \in TrustMap :
        /\ IsLeastFixpoint(n, rel'[n], map)
        /\ score' = [score EXCEPT ![n] = [p \in Node |-> IF p \in peers[n] THEN map[p] ELSE @[p]]]
    /\ UNCHANGED <<net, pool, queue, peers, descriptors, scoring, basis, trust, learned, routes, restarted,
                   envelopes, dropped>>

----------------------------------------------------------------------------
\* Nothing is under way, and all who can talk do.
Quiet == pool = Pair /\ \A p \in Pair : queue[p] = <<>> /\ learned[p] = {}

\* send_object takes a nonce, then signs.
TakeNonce(o, to) ==
    /\ scoring = NoNode
    /\ <<o, to>> \in net.envelope /\ to \in peers[o]
    /\ nonce[o] < MaxNonce
    /\ nonce' = [nonce EXCEPT ![o] = @ + 1]
    /\ drafts' = drafts \cup {[origin |-> o, to |-> to, nonce |-> nonce[o] + 1]}
    /\ UNCHANGED <<net, pool, queue, store, scoring, basis, trust, learned, routes, vouched, restarted,
                   lastNonce, sent, arrived, dropped>>

\* send_object, signed: whichever task is done first queues first.
SendObject(e) ==
    /\ scoring = NoNode
    /\ e \in drafts
    /\ drafts' = drafts \ {e}
    /\ LET hop == {NextHop(e.origin, e.to)} \cap Peers(e.origin)
       IN  /\ queue' = TrySend(queue, e.origin, hop, Relay(e, MaxHops))
           /\ dropped' = (dropped \/ Overflows(queue, e.origin, hop))
           /\ sent' = IF Quiet /\ hop # {} THEN sent \cup {e} ELSE sent
    /\ UNCHANGED <<net, pool, store, scoring, basis, trust, learned, routes, vouched, restarted, nonce,
                   lastNonce, arrived>>

\* Every session of the pairs in P ends.
End(P) ==
    LET ends == P \cup {<<p[2], p[1]>> : p \in P}
    IN  /\ pool' = pool \ ends
        /\ queue' = [p \in Pair |-> IF p \in ends THEN <<>> ELSE queue[p]]

\* connection.rs: a frame over the limit is dropped without a look at it, and the
\* session goes on.
OverLimit(a, b) ==
    /\ net.limited
    /\ scoring = NoNode
    /\ <<a, b>> \in pool /\ learned[<<a, b>>] = {}
    /\ queue[<<a, b>>] # <<>>
    /\ queue' = Rest(a, b)
    /\ dropped' = TRUE
    /\ UNCHANGED <<net, pool, store, scoring, basis, trust, learned, routes, vouched, restarted, envelopes>>

\* Mutant: only envelopes of the peer itself are taken.
KnownPeer(a, b, origin) == origin = a

\* b holds the certificate of the origin of an envelope come from a.
KnownOrigin(a, b, origin) == origin = a \/ origin \in peers[b]

\* admission.rs check: an origin's nonces increase.
Check(b, e) == e.nonce > lastNonce[b][e.origin]

\* relay.rs handle: deliver, or forward once; an unknown origin, an older nonce
\* and a missing route drop the envelope, an exhausted hop count ends the session.
HandleRelay(a, b) ==
    /\ scoring = NoNode
    /\ <<a, b>> \in pool /\ learned[<<a, b>>] = {}
    /\ queue[<<a, b>>] # <<>> /\ Head(queue[<<a, b>>]).type = "relay"
    /\ LET m == Head(queue[<<a, b>>])
           e == m.of
           hop == NextHop(b, e.to)
           admitted == KnownOrigin(a, b, e.origin) /\ Check(b, e)
           onward == admitted /\ e.to # b /\ hop # NoNode
       IN  /\ lastNonce' = IF admitted THEN [lastNonce EXCEPT ![b][e.origin] = e.nonce] ELSE lastNonce
           /\ arrived' = IF admitted /\ e.to = b THEN arrived \cup {e} ELSE arrived
           /\ \/ onward /\ m.hopsLeft = 0 /\ End({<<a, b>>}) /\ UNCHANGED dropped
              \/ /\ onward /\ m.hopsLeft > 0
                 /\ queue' = TrySend(Rest(a, b), b, {hop} \cap Peers(b), Forwarded(m))
                 /\ dropped' = (dropped \/ Overflows(Rest(a, b), b, {hop} \cap Peers(b)))
                 /\ UNCHANGED pool
              \/ ~ onward /\ queue' = Rest(a, b) /\ UNCHANGED <<pool, dropped>>
    /\ UNCHANGED <<net, store, scoring, basis, trust, learned, routes, vouched, restarted, nonce, drafts,
                   sent>>

\* The trust store and the nonce survive; sessions, routes, the admission table
\* and what was under way do not.
Restart(n) ==
    /\ scoring = NoNode
    /\ n \in net.restarting \ restarted
    /\ restarted' = restarted \cup {n}
    /\ End({p \in Pair : p[1] = n})
    /\ routes' = [routes EXCEPT ![n] = [d \in Node |-> NoNode]]
    /\ learned' = [p \in Pair |-> IF p[2] = n THEN {} ELSE learned[p]]
    /\ drafts' = {e \in drafts : e.origin # n}
    /\ lastNonce' = [lastNonce EXCEPT ![n] = [o \in Node |-> 0]]
    /\ UNCHANGED <<net, store, scoring, basis, trust, vouched, nonce, sent, arrived, dropped>>

Next ==
    \/ \E p \in Pair : \/ Connect(p[1], p[2]) \/ HandleGossip(p[1], p[2])
                       \/ RecordRoutes(p[1], p[2]) \/ HandleRelay(p[1], p[2])
                       \/ OverLimit(p[1], p[2])
    \/ \E s \in Node : RaiseScore(s) \/ Restart(s)
    \/ RefreshScores
    \/ \E v \in net.vouch : SetTrust(v[1], v[2], v[3])
    \/ \E e \in net.envelope : TakeNonce(e[1], e[2])
    \/ \E e \in drafts : SendObject(e)

\* Outbound tasks connect, every session is read by a task of its own.
Fairness ==
    /\ \A a, b \in Node : /\ WF_vars(Connect(a, b)) /\ WF_vars(RecordRoutes(a, b))
                          /\ WF_vars(HandleGossip(a, b) \/ HandleRelay(a, b) \/ OverLimit(a, b))
    /\ WF_vars(RefreshScores \/ \E s \in Node : RaiseScore(s))

Spec == Init /\ [][Next]_vars /\ Fairness

----------------------------------------------------------------------------
Message == [type : {"gossip"}, announcements : SUBSET Descriptor, vouches : Relationships]
    \cup [type : {"relay"}, of : Envelope, hopsLeft : 0..MaxHops]

\* Type invariant; every descriptor has its certificate's row (trust.rs), and a
\* route was recorded for every session of the pool (connection.rs).
TypeOK ==
    /\ net \in Network
    /\ pool \subseteq Pair /\ \A p \in pool : <<p[2], p[1]>> \in pool /\ routes[p[1]][p[2]] # NoNode
    /\ \A p \in Pair : Len(queue[p]) <= QueueCap /\ \A i \in DOMAIN queue[p] : queue[p][i] \in Message
    /\ \A n \in Node : descriptors[n] \subseteq peers[n] \ {n} /\ peers[n] \subseteq Node
    /\ rel \in [Node -> Relationships] /\ score \in [Node -> TrustMap]
    /\ scoring \in Node \cup {NoNode} /\ basis \in Relationships /\ trust \in TrustMap
    /\ routes \in [Node -> [Node -> Node \cup {NoNode}]]
    /\ nonce \in [Node -> 0..MaxNonce] /\ drafts \cup sent \subseteq Envelope
    /\ \A n, o \in Node : lastNonce[n][o] \in 0..nonce[o]

\* Where an envelope to d is after i hops from n.
After(n, d) ==
    LET at[i \in 0..Cardinality(Node)] ==
            IF i = 0 THEN n
            ELSE IF at[i - 1] \in {d, NoNode} THEN at[i - 1]
            ELSE IF NextHop(at[i - 1], d) \in Peers(at[i - 1]) THEN NextHop(at[i - 1], d) ELSE NoNode
    IN  at[Cardinality(Node)]

\* No envelope goes in a circle, whatever order sessions, lists and restarts
\* come in: from any set of nodes a route to d leads out, for one of them at
\* least (gossip.rs: a route is learned once, from a node that knew before).
NoRoutingLoop ==
    \A d \in Node : \A N \in (SUBSET (Node \ {d})) \ {{}} : \E n \in N : NextHop(n, d) \notin N

\* Until a node restarts, a route leads all the way, but for a node that has
\* passed a descriptor on and not recorded its own route yet (gossip.rs).
RoutesLead ==
    restarted = {} =>
        \A n, d \in Node : n # d /\ NextHop(n, d) # NoNode =>
            After(n, d) = d \/ \E p \in Pair : d \in learned[p]

\* The levels about to be written are the least fixpoint of the vouches the node
\* has read, whatever order the subjects were counted in (trust_graph.rs).
ScoresLeast == scoring # NoNode /\ Settled => IsLeastFixpoint(scoring, basis, trust)

\* Not so: once all is quiet, the scores stored are those of the vouches stored
\* (a command may write both between a node's reading of vouches and its scores).
ScoresCurrent ==
    Quiet /\ scoring = NoNode =>
        \A n \in Node : \E map \in TrustMap :
            IsLeastFixpoint(n, rel[n], map) /\ \A p \in peers[n] \ {n} : score[n][p] = map[p]

UnderWay(e) == \E p \in Pair : \E i \in DOMAIN queue[p] :
                   queue[p][i].type = "relay" /\ queue[p][i].of = e

\* No restart, no frame lost to a full queue or a limit, no descriptor refused,
\* and hops for the longest way.
Undisturbed == restarted = {} /\ ~ dropped /\ ~ net.requireVouch /\ Cardinality(Node) <= MaxHops + 1

\* An envelope queued once all was quiet is under way until it arrives, unless a
\* later one of its origin reached some node first (relay.rs, admission.rs); a
\* node that must be vouched to may not know the origin, and drops it.
QuietEnvelopesArrive ==
    Undisturbed =>
        \A e \in sent : \/ e \in arrived \/ UnderWay(e)
                        \/ \E n \in Node : lastNonce[n][e.origin] > e.nonce

\* Disagreement: only what has been seen before is refused as a replay.
ReplaysOnly == restarted = {} /\ ~ dropped => \A e \in sent : e \in arrived \/ UnderWay(e)

\* Gossip ends: whoever learns nothing new stays silent (gossip.rs, PROTOCOL.md
\* section 6).
GossipQuiesces == <>[]Quiet

\* Who is connected, if over others.
Reached(n) ==
    LET r[i \in 0..Cardinality(Node)] ==
            IF i = 0 THEN {n} ELSE r[i - 1] \cup {p[2] : p \in {x \in Pair : x[1] \in r[i - 1]}}
    IN  r[Cardinality(Node)]

\* Whom n is to learn of: everyone, or its peers and the peers those vouch for.
Due(n) ==
    IF net.requireVouch
    THEN {d \in Node : \/ <<n, d>> \in Pair
                       \/ \E v \in net.made : v[2] = d /\ {<<n, v[1]>>, <<v[1], d>>} \subseteq Pair}
    ELSE Reached(n)

\* Every node learns of every other it is connected to, over however many
\* others, or is vouched to, restarts included, unless a push found a queue full;
\* though a vouch comes after the announcement it admits (gossip.rs).
EveryoneLearns == \A n \in Node : <>(dropped \/ Due(n) \ {n} \subseteq descriptors[n])

\* Disagreement: routes come back after a restart (relay.rs, ARCHITECTURE.md).
RoutesRebuilt == \A n, d \in Node : [](d \in descriptors[n] => <>(NextHop(n, d) # NoNode))
=============================================================================
