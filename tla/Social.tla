------------------------------- MODULE Social -------------------------------
(***************************************************************************)
(* fantuan-node social.rs, store.rs and the opening of connection.rs:      *)
(* channel messages and forum posts are stored once, shown to the local    *)
(* user and flooded; a session opens with a request for the history of     *)
(* each subscribed topic; a delete request removes an object and floods.   *)
(*                                                                         *)
(* Abstractions.  A session ends at both ends at once, with everything     *)
(* under way in it; it opens at each end on its own.  queue[<<a, b>>] is   *)
(* a's writer queue and the stream behind it: what the session writes      *)
(* itself (requests, answers) overtakes what is only queued.  Certificates *)
(* are known from sessions; gossip is module Overlay.  Every signature is  *)
(* made by an honest node, so it verifies with its sender's certificate.   *)
(* A session's token bucket (module Sessions) counts the frames of all the *)
(* handlers: where a deployment is limited, any frame may find it empty.   *)
(***************************************************************************)
EXTENDS Integers, FiniteSets, SequencesExt

CONSTANTS
    Node,
    Object,         \* [sender, topic, time]: what may be published
    Topic, Board,   \* topic names; those of forum boards
    ValidTopic,     \* the names valid_topic admits
    Network,        \* deployments explored, see below
    QueueCap,       \* DEFAULT_WRITER_QUEUE
    MaxHistoryMessages, MaxHistoryPosts

(* A deployment: which nodes connect, what is published in it, the channels *)
(* and boards of each node's configuration, the certificates in its trust   *)
(* store at first, whether peers may send frames faster than               *)
(* max_frames_per_sec, and bounds: sessions ended, deletes sent.            *)
Deployment ==
    [link : SUBSET {{a, b} : a, b \in Node}, object : SUBSET Object,
     configured : [Node -> SUBSET Topic], pinned : [Node -> SUBSET Node],
     limited : BOOLEAN, maxCuts : Nat, maxDeletes : Nat]

ASSUME BoardAssumption == Board \subseteq Topic /\ ValidTopic \subseteq Topic
ASSUME NetworkAssumption == Network \subseteq Deployment
ASSUME ConfigurationAssumption == \A d \in Network, n \in Node : IsFiniteSet(d.configured[n])
ASSUME LimitsAssumption == QueueCap \in Nat /\ MaxHistoryMessages \in Nat /\ MaxHistoryPosts \in Nat
ASSUME ObjectAssumption == \A o \in Object : o.sender \in Node /\ o.topic \in Topic /\ o.time \in Nat \ {0}

VARIABLES
    net,            \* the deployment; never changes
    subscribed,     \* Subscriptions, of every node
    known,          \* TrustStore: nodes whose certificate is stored
    store,          \* MessageStore: both tables
    pool,           \* <<a, b>>: a has registered its session with b
    queue,          \* queue[<<a, b>>]: what a has sent b
    cuts, deletes,  \* counters behind maxCuts and maxDeletes
    published,      \* history: objects their authors have created
    events,         \* history: events[n][o], NodeEvents of o since o was last deleted at n
    asked,          \* history: asked[<<a, b>>], topic to `since', as a's session opened
    missed,         \* history: missed[n], objects n refused, deleted, or lost with a queue or to the limit
    silent          \* history: silent[<<a, b>>], objects b keeps to itself in this session

base == <<net, subscribed, known, store, pool, queue, cuts, deletes>>
vars == <<base, published, events, asked, missed, silent>>

Pair == {p \in Node \X Node : p[1] # p[2] /\ {p[1], p[2]} \in net.link}

----------------------------------------------------------------------------
\* post.rs and message.rs: the objects create makes and validate admits.
ChannelMessage == {o \in Object : o.topic \in ValidTopic \ Board}
ForumPost == {o \in Object : o.topic \in ValidTopic \cap Board}
HistoryRequest == [type : {"request"}, topic : Topic, since : {0} \cup {o.time : o \in Object}]
HistoryResponse == [type : {"response"}, objects : SUBSET Object]
DeleteRequest == [type : {"delete"}, sender : Node, target : Object]
Flooded == {"channel", "forum", "delete"}

AsChannel(o) == [type |-> "channel", object |-> o]
AsForum(o) == [type |-> "forum", object |-> o]

\* Signatures: the certificate resolved is the sender's own.
VerifyChannel(o, cert) == o \in ChannelMessage /\ cert = o.sender
VerifyForum(o, cert) == o \in ForumPost /\ cert = o.sender
VerifyDelete(d, cert) == cert = d.sender

\* Certificates at hand at n for an object that peer carried.
ResolveCert(n, peer, sender) == {c \in known[n] \cup {peer} : c = sender}
KnownCert(n, sender) == {c \in known[n] : c = sender}

----------------------------------------------------------------------------
\* store.rs
Latest(S, topic) ==
    Max({0} \cup {o.time : o \in {x \in S : x.topic = topic}})

\* ORDER BY timestamp ASC LIMIT limit: the sets this may return.
Earliest(found, limit) ==
    IF Cardinality(found) <= limit THEN {found}
    ELSE {O \in SUBSET found : Cardinality(O) = limit /\ \A o \in O, x \in found \ O : o.time <= x.time}

\* Mutant: the bound of the query is one too high.
NewerByTwo(S, topic, since, limit) ==
    Earliest({o \in S : o.topic = topic /\ o.time > since + 1}, limit)

\* WHERE timestamp > since
Newer(S, topic, since, limit) == Earliest({o \in S : o.topic = topic /\ o.time > since}, limit)

Limit(topic) == IF topic \in Board THEN MaxHistoryPosts ELSE MaxHistoryMessages

History(n, request) == Newer(store[n], request.topic, request.since, Limit(request.topic))

\* What n holds of a request, and what its answer O lacks because there was too much.
Wanted(n, request) == {o \in store[n] : o.topic = request.topic /\ o.time > request.since}
CutOff(n, request, O) ==
    IF Cardinality(Wanted(n, request)) > Limit(request.topic) THEN Wanted(n, request) \ O ELSE {}

----------------------------------------------------------------------------
\* pool.rs, state.rs
Queued(q) == Cardinality({i \in DOMAIN q : q[i].type \in Flooded})

\* Mutant: the writer queue is unbounded.
TrySendAlways(q, m) == Append(q, m)

TrySend(q, m) == IF Queued(q) < QueueCap THEN Append(q, m) ELSE q

FloodTo(n, exclude) == {p \in pool : p[1] = n /\ p[2] # exclude}

Flood(q, n, exclude, m) ==
    [p \in Pair |-> IF p \in FloodTo(n, exclude) THEN TrySend(q[p], m) ELSE q[p]]

\* Peers the flood does not reach because their queue is full.
Overflows(q, n, exclude) == {p[2] : p \in {x \in FloodTo(n, exclude) : Queued(q[x]) >= QueueCap}}

\* The places in q, behind all the session wrote itself, where a direct write may end up.
Overtaking(q, m) ==
    {InsertAt(q, i, m) : i \in {j \in 1..Len(q) + 1 : \A k \in j..Len(q) : q[k].type \in Flooded}}

Send(q, a, b, m) == {[q EXCEPT ![<<a, b>>] = s] : s \in Overtaking(q[<<a, b>>], m)}

\* INSERT OR IGNORE: an object is new once.
Insert(n, o) == o \notin store[n] /\ store' = [store EXCEPT ![n] = @ \cup {o}]

DeleteObject(n, o) == store' = [store EXCEPT ![n] = @ \ {o}]

Emit(n, O) == events' = [events EXCEPT ![n] = [o \in Object |-> IF o \in O THEN @[o] + 1 ELSE @[o]]]

Subscribe(n, topic) == subscribed' = [subscribed EXCEPT ![n] = @ \cup {topic}]

----------------------------------------------------------------------------
NoQueue == [p \in Pair |-> <<>>]

Init ==
    /\ net \in Network
    /\ subscribed = net.configured
    /\ known = net.pinned
    /\ store = [n \in Node |-> {}]
    /\ pool = {}
    /\ queue = NoQueue
    /\ cuts = 0 /\ deletes = 0
    /\ published = {}
    /\ events = [n \in Node |-> [o \in Object |-> 0]]
    /\ asked = [p \in Pair |-> <<>>]
    /\ missed = [n \in Node |-> {}]
    /\ silent = [p \in Pair |-> {}]

\* a's end of a new session: the certificate is pinned, the session registered,
\* and one request per subscription written before anything queued.
Enter(a, b) ==
    /\ <<a, b>> \in Pair \ pool
    /\ known' = [known EXCEPT ![a] = @ \cup {b}]
    /\ pool' = pool \cup {<<a, b>>}
    /\ asked' = [asked EXCEPT ![<<a, b>>] = [t \in subscribed[a] |-> Latest(store[a], t)]]
    /\ queue' = [queue EXCEPT ![<<a, b>>] =
                    SetToSeq({[type |-> "request", topic |-> t, since |-> asked'[<<a, b>>][t]] :
                              t \in subscribed[a]})]
    /\ UNCHANGED <<net, subscribed, store, cuts, deletes, published, events, missed, silent>>

Carried(q) == {m.object : m \in {x \in Range(q) : x.type \in {"channel", "forum"}}}
    \cup UNION {m.objects : m \in {x \in Range(q) : x.type = "response"}}

\* Every session between two nodes of one of the pairs in P ends.
End(P) ==
    LET ends == P \cup {<<p[2], p[1]>> : p \in P}
    IN  /\ pool' = pool \ ends
        /\ queue' = [p \in Pair |-> IF p \in ends THEN <<>> ELSE queue[p]]
        /\ asked' = [p \in Pair |-> IF p \in ends THEN <<>> ELSE asked[p]]
        /\ missed' = [n \in Node |-> missed[n] \cup
                        UNION {Carried(queue[p]) : p \in {x \in ends : x[2] = n}}]
        /\ silent' = [p \in Pair |-> IF p \in ends THEN {} ELSE silent[p]]

\* A connection breaks.
Close(a, b) ==
    /\ pool \cap {<<a, b>>, <<b, a>>} # {}
    /\ cuts < net.maxCuts
    /\ cuts' = cuts + 1
    /\ End({<<a, b>>})
    /\ UNCHANGED <<net, subscribed, known, store, deletes, published, events>>

\* The databases survive; subscriptions made since the start do not.
Restart(n) ==
    /\ cuts < net.maxCuts
    /\ cuts' = cuts + 1
    /\ End({p \in Pair : p[1] = n})
    /\ subscribed' = [subscribed EXCEPT ![n] = net.configured[n]]
    /\ UNCHANGED <<net, known, store, deletes, published, events>>

----------------------------------------------------------------------------
\* Insert, show and flood an object that n has accepted; q is queue less what n has read.
Accept(n, o, from, m, q) ==
    /\ Insert(n, o)
    /\ Emit(n, {o})
    /\ queue' = Flood(q, n, from, m)
    /\ missed' = [p \in Node |-> IF p \in Overflows(q, n, from) THEN missed[p] \cup {o} ELSE missed[p]]

\* A name that is not valid is subscribed to before create refuses it.
Publish(n, o, m) ==
    /\ o.sender = n /\ o \notin published
    /\ Subscribe(n, o.topic)
    /\ IF o.topic \in ValidTopic
       THEN published' = published \cup {o} /\ Accept(n, o, n, m, queue)
       ELSE UNCHANGED <<published, store, events, queue, missed>>
    /\ UNCHANGED <<net, known, pool, cuts, deletes, asked, silent>>

PublishChannel(n, o) == o.topic \notin Board /\ Publish(n, o, AsChannel(o))
PublishForum(n, o) == o.topic \in Board /\ Publish(n, o, AsForum(o))

\* JOIN of an IRC client of n.
Join(n, topic) ==
    /\ topic \in ValidTopic \ subscribed[n]
    /\ Subscribe(n, topic)
    /\ UNCHANGED <<net, known, store, pool, queue, cuts, deletes, published, events, asked, missed, silent>>

\* b has a session with a and reads the next object of type t.
Reads(a, b, t) ==
    /\ <<b, a>> \in pool
    /\ queue[<<a, b>>] # <<>>
    /\ Head(queue[<<a, b>>]).type = t

Rest(a, b) == [queue EXCEPT ![<<a, b>>] = Tail(@)]

\* connection.rs: a frame over the limit is dropped without a look at it, and the
\* session goes on; b answers no request that it did not see.
OverLimit(a, b) ==
    /\ net.limited
    /\ LET m == Head(queue[<<a, b>>])
           unseen == {o \in store[b] : m.type = "request" /\ o.topic = m.topic}
       IN  /\ Reads(a, b, m.type)
           /\ missed' = [missed EXCEPT ![b] = @ \cup Carried(<<m>>)]
           /\ silent' = [silent EXCEPT ![<<a, b>>] = @ \cup unseen]
    /\ queue' = Rest(a, b)
    /\ UNCHANGED <<net, subscribed, known, store, pool, cuts, deletes, published, events, asked>>

\* Mutant: a copy of an object that is already stored is passed on as well.
HandleObjectAndCopies(a, b, m, verified) ==
    LET o == m.object
        admitted == verified /\ o.topic \in subscribed[b]
    IN  IF admitted /\ o \notin store[b] THEN Accept(b, o, a, m, Rest(a, b))
        ELSE /\ queue' = IF admitted THEN Flood(Rest(a, b), b, a, m) ELSE Rest(a, b)
             /\ missed' = [missed EXCEPT ![b] = IF admitted THEN @ ELSE @ \cup {o}]
             /\ UNCHANGED <<store, events>>

\* handle_channel and handle_forum, from the certificate on.
HandleObject(a, b, m, verified) ==
    LET o == m.object
        admitted == verified /\ o.topic \in subscribed[b]
    IN  IF admitted /\ o \notin store[b] THEN Accept(b, o, a, m, Rest(a, b))
        ELSE /\ queue' = Rest(a, b)
             /\ missed' = [missed EXCEPT ![b] = IF admitted THEN @ ELSE @ \cup {o}]
             /\ UNCHANGED <<store, events>>

HandleChannel(a, b) ==
    /\ Reads(a, b, "channel")
    /\ LET m == Head(queue[<<a, b>>])
       IN  HandleObject(a, b, m, \E c \in ResolveCert(b, a, m.object.sender) : VerifyChannel(m.object, c))
    /\ UNCHANGED <<net, subscribed, known, pool, cuts, deletes, published, asked, silent>>

HandleForum(a, b) ==
    /\ Reads(a, b, "forum")
    /\ LET m == Head(queue[<<a, b>>])
       IN  HandleObject(a, b, m, \E c \in ResolveCert(b, a, m.object.sender) : VerifyForum(m.object, c))
    /\ UNCHANGED <<net, subscribed, known, pool, cuts, deletes, published, asked, silent>>

\* A request for a name that is not valid does not decode: it ends the session.
HandleHistoryRequest(a, b) ==
    /\ Reads(a, b, "request")
    /\ LET request == Head(queue[<<a, b>>])
       IN  IF request.topic \notin ValidTopic THEN End({<<a, b>>})
           ELSE /\ IF request.topic \in subscribed[b]
                   THEN \E O \in History(b, request) :
                            /\ queue' \in Send(Rest(a, b), b, a, [type |-> "response", objects |-> O])
                            /\ silent' = [silent EXCEPT ![<<a, b>>] = @ \cup CutOff(b, request, O)]
                   ELSE /\ queue' = Rest(a, b)
                        /\ silent' = [silent EXCEPT ![<<a, b>>] =
                                        @ \cup {o \in store[b] : o.topic = request.topic}]
                /\ UNCHANGED <<pool, asked, missed>>
    /\ UNCHANGED <<net, subscribed, known, store, cuts, deletes, published, events>>

\* A request of p's first node under way to p's second that o answers.
Requested(p, o) ==
    \E m \in Range(queue[p]) : m.type = "request" /\ m.topic = o.topic /\ m.since < o.time

\* Mutant: the result of the insert is not looked at.
FreshEither(n, O) == O

\* Objects of an answer that the store takes.
Fresh(n, O) == O \ store[n]

\* Objects from an answer are not flooded.
HandleHistoryResponse(a, b) ==
    /\ Reads(a, b, "response")
    /\ LET response == Head(queue[<<a, b>>])
           admitted == {o \in response.objects :
                          /\ \E c \in KnownCert(b, o.sender) : VerifyChannel(o, c) \/ VerifyForum(o, c)
                          /\ o.topic \in subscribed[b]}
       IN  /\ store' = [store EXCEPT ![b] = @ \cup admitted]
           /\ Emit(b, Fresh(b, admitted))
           /\ missed' = [missed EXCEPT ![b] = @ \cup (response.objects \ admitted)]
           /\ silent' = [p \in Pair |-> IF p[2] = b /\ p \in pool
                                         THEN silent[p] \cup {o \in Fresh(b, admitted) : ~ Requested(p, o)}
                                         ELSE silent[p]]
    /\ queue' = Rest(a, b)
    /\ UNCHANGED <<net, subscribed, known, pool, cuts, deletes, published, asked>>

\* Whoever signs a delete request may delete any object.
HandleDelete(a, b) ==
    /\ Reads(a, b, "delete")
    /\ LET d == Head(queue[<<a, b>>])
           verified == \E c \in ResolveCert(b, a, d.sender) : VerifyDelete(d, c)
       IN  IF verified /\ d.target \in store[b]
           THEN /\ DeleteObject(b, d.target)
                /\ events' = [events EXCEPT ![b][d.target] = 0]
                /\ missed' = [missed EXCEPT ![b] = @ \cup {d.target}]
                /\ queue' = Flood(Rest(a, b), b, a, d)
           ELSE queue' = Rest(a, b) /\ UNCHANGED <<store, events, missed>>
    /\ UNCHANGED <<net, subscribed, known, pool, cuts, deletes, published, asked, silent>>

\* Some program of the author sends b a delete request; nothing in the node does.
Delete(a, b, o) ==
    /\ deletes < net.maxDeletes
    /\ o.sender = a /\ o \in published
    /\ <<a, b>> \in pool
    /\ deletes' = deletes + 1
    /\ queue' = [queue EXCEPT ![<<a, b>>] = TrySend(@, [type |-> "delete", sender |-> a, target |-> o])]
    /\ UNCHANGED <<net, subscribed, known, store, pool, cuts, published, events, asked, missed, silent>>

Receive(a, b) ==
    \/ HandleChannel(a, b)
    \/ HandleForum(a, b)
    \/ HandleHistoryRequest(a, b)
    \/ HandleHistoryResponse(a, b)
    \/ HandleDelete(a, b)
    \/ OverLimit(a, b)

Next ==
    \/ \E p \in Pair : Enter(p[1], p[2]) \/ Close(p[1], p[2]) \/ Receive(p[1], p[2])
    \/ \E n \in Node : Restart(n)
    \/ \E o \in net.object : PublishChannel(o.sender, o) \/ PublishForum(o.sender, o)
    \/ \E n \in Node, t \in Topic \ Board : Join(n, t)
    \/ \E p \in Pair, o \in Object : Delete(p[1], p[2], o)

\* Every session is read by a task of its own, and outbound tasks reconnect.
Fairness == \A a, b \in Node : WF_vars(Enter(a, b)) /\ WF_vars(Receive(a, b))

Spec == Init /\ [][Next]_vars /\ Fairness

----------------------------------------------------------------------------
\* Type invariant; a writer queue never holds more than its capacity (pool.rs).
TypeOK ==
    /\ subscribed \in [Node -> SUBSET Topic]
    /\ known \in [Node -> SUBSET Node]
    /\ store \in [Node -> SUBSET published] /\ missed \in [Node -> SUBSET published]
    /\ published \subseteq ChannelMessage \cup ForumPost
    /\ pool \subseteq Pair
    /\ \A p \in Pair :
        /\ Queued(queue[p]) <= QueueCap
        /\ \A i \in DOMAIN queue[p] :
            \/ queue[p][i] \in HistoryRequest \cup HistoryResponse \cup DeleteRequest
            \/ \E o \in published : queue[p][i] \in {AsChannel(o), AsForum(o)}
    /\ cuts \in 0..net.maxCuts /\ deletes \in 0..net.maxDeletes

\* A node shows an object to its user once, whether it comes by flood, by
\* history or by both at once, from any number of peers, across reconnects and
\* restarts; again only after a delete (social.rs, the inserted flag).
NoRepeat == \A n \in Node, o \in Object : events[n][o] <= 1

\* What a may count on from its session with b, given what it asked.
Covered(a, b) ==
    {o \in store[b] \ (missed[a] \cup silent[<<a, b>>]) :
        /\ o.topic \in DOMAIN asked[<<a, b>>]
        /\ o.time > asked[<<a, b>>][o.topic]}

OnTheWay(a, b, o) == o \in Carried(queue[<<b, a>>]) \/ Requested(<<a, b>>, o)

\* No object falls between the answer to the history request and the live
\* flood of a session: what b holds and a asked for is at a or on its way,
\* unless a's answer had no room for it, b itself has it from a later history
\* answer, which is not passed on, or the frame that carried or requested it was
\* over its receiver's limit (connection.rs 34-75 and flood).
HandoverGapFree ==
    \A p \in Pair : <<p[2], p[1]>> \in pool =>
        \A o \in Covered(p[1], p[2]) : o \in store[p[1]] \/ OnTheWay(p[1], p[2], o)

Quiet == \A p \in Pair : queue[p] = <<>>

\* Floods end: however the nodes are linked, an object stops circulating, once
\* sessions stay up and unless something is deleted (social.rs: an object is
\* passed on only when it was new).
FloodsEnd == [](deletes = 0) => <>[]Quiet

\* Disagreement: a deleted object does not come back from a peer's history.
NoResurrection == [][\A n \in Node : \A o \in missed[n] : o \in store'[n] => o \in store[n]]_vars

\* Disagreement: floods end when objects are deleted, too.
DeletesEnd == <>[]Quiet

\* Disagreement: what was published while a node was away is delivered when
\* it reconnects.
CaughtUp ==
    Quiet /\ pool = Pair /\ deletes = 0 =>
        \A p \in Pair : \A o \in store[p[2]] :
            /\ o.topic \in net.configured[p[1]] \cap net.configured[p[2]]
            /\ o.sender \in known[p[1]]
            => o \in store[p[1]]

\* Disagreement: nothing a node's own user types ends its sessions.
SessionsHold == [][cuts' = cuts => pool \subseteq pool']_vars
=============================================================================
