------------------------------- MODULE Files --------------------------------
(***************************************************************************)
(* fantuan-node files.rs with fantuan-storage: a published file is cut     *)
(* into chunks that are stored and flooded once; its manifest goes to the  *)
(* recipient in a relay envelope; a node that has the manifest fetches the *)
(* chunks it lacks, asking every 500 ms until it has them all or 90 s have *)
(* passed.  Requests are answered from the cache or passed on, and leave a *)
(* reverse path.                                                           *)
(*                                                                         *)
(* Abstractions.  Chunks are named by their hash and genuine: encryption   *)
(* and decryption succeed, a signature verifies where the owner is known.  *)
(* A publication is one step: no session is written meanwhile.             *)
(* Sessions are up but for restarts. The path of a relay envelope is      *)
(* fixed.  A chunk's reverse paths and its remembered requests expire      *)
(* together; when is free, or (prompt) not while the answer is under way.  *)
(***************************************************************************)
EXTENDS Integers, FiniteSets, SequencesExt

CONSTANTS
    Node,
    Chunk,
    NoNode,         \* no recipient; no hop
    File,           \* [owner, to, chunks]: what may be published, to whom
    SizeOf(_),      \* bytes of a cached chunk
    Distance(_, _), \* Distance(n, c): node id of n XOR hash of c, as a number
    Network,        \* deployments explored
    QueueCap,       \* DEFAULT_WRITER_QUEUE
    Closest,        \* how many contacts a request goes to
    MaxTtl,         \* MAX_REQUEST_TTL
    MaxRoutes       \* reverse paths remembered per chunk

(* A deployment: sessions, files published, whose certificates each node    *)
(* holds, contacts in each node's routing table, byte budgets, the next hop *)
(* of envelopes, whether fetches time out, whether paths expire only once   *)
(* used, and bounds: who restarts, once each; the frames dropped because    *)
(* their session's token bucket (module Sessions) was empty.                *)
Deployment ==
    [link : SUBSET {{a, b} : a, b \in Node}, file : SUBSET File,
     knows : [Node -> SUBSET Node], contact : [Node -> SUBSET Node],
     budget : [Node -> Nat], hop : [Node -> [Node -> Node \cup {NoNode}]],
     timeouts : BOOLEAN, prompt : BOOLEAN, restarting : SUBSET Node,
     maxShed : Nat]

ASSUME NetworkAssumption == Network \subseteq Deployment
ASSUME FileAssumption == \A f \in File : f.chunks \in Seq(Chunk) /\ f.owner \in Node
ASSUME SizeAssumption == \A c \in Chunk : SizeOf(c) \in Nat
ASSUME BoundsAssumption == QueueCap \in Nat /\ MaxTtl \in Nat /\ MaxRoutes \in Nat

VARIABLES
    net,            \* the deployment; never changes
    cache, used,    \* ChunkCache: chunks, and the accounting counter
    manifests,      \* MessageStore: files whose manifest is stored
    queue,          \* queue[<<a, b>>]: what a has sent b
    routes,         \* routes[n]: reverse paths [hash, requester, via]
    seen,           \* seen[n]: requests <<hash, requester>> seen of late
    fetch,          \* fetch[n]: a fetch under way, the chunks it misses
    restarted,      \* nodes that have restarted
    shed,           \* counter behind maxShed
    outcome,        \* history: outcome[n][f] of n's fetch of f
    lost            \* history: <<n, c>>, a chunk sent to n that no handler of n saw

vars == <<net, cache, used, manifests, queue, routes, seen, fetch, restarted, shed, outcome, lost>>

Pair == {p \in Node \X Node : {p[1], p[2]} \in net.link}
Peers(n) == {m \in Node : <<n, m>> \in Pair}
IsConnected(n, m) == <<n, m>> \in Pair

Idle == [file |-> NoNode, missing |-> {}]
ChunksOf(f) == ToSet(f.chunks)
ManifestStored(n, f) == f \in manifests[n]
OwnerOf(c) == (CHOOSE f \in File : c \in ChunksOf(f)).owner

----------------------------------------------------------------------------
\* fantuan-msg file.rs
FileChunk(c) == [type |-> "chunk", hash |-> c]
FileManifest(f) == [type |-> "manifest", file |-> f]
ChunkRequest(n, c, ttl) == [type |-> "request", hash |-> c, requester |-> n, ttl |-> ttl]

\* chunk.rs: a file is cut in the manifest's order; each chunk decrypts only at
\* its own index, and the file is written once every index has its chunk.
BuildChunks(f) == [i \in DOMAIN f.chunks |-> FileChunk(f.chunks[i])]
DecryptChunk(f, i, c) == f.chunks[i] = c
Assembled(f, have) == \A i \in DOMAIN f.chunks : i \in DOMAIN have /\ DecryptChunk(f, i, have[i])

\* The signature of owner's object, come from a, verifies at b: a session hands
\* over the certificate of its peer, the trust store holds the others.
Verifies(a, b, owner) == owner = a \/ owner \in net.knows[b]

\* The request one hop on; none when its time to live is spent.
Forwarded(request) == IF request.ttl = 0 THEN <<>> ELSE <<[request EXCEPT !.ttl = @ - 1]>>

----------------------------------------------------------------------------
\* dht.rs, replication.rs: the closest contacts, then those that are connected.
ClosestContacts(n, c) ==
    {m \in net.contact[n] :
        Cardinality({x \in net.contact[n] : Distance(x, c) < Distance(m, c)}) < Closest}

ClosestPeers(n, c) == {m \in ClosestContacts(n, c) : IsConnected(n, m)}

\* Mutant: no fallback to all peers.
ClosestTargets(n, c) == ClosestPeers(n, c)

\* Whom a fetch asks for c.
Targets(n, c) == IF ClosestPeers(n, c) = {} THEN Peers(n) ELSE ClosestPeers(n, c)

----------------------------------------------------------------------------
\* cache.rs
\* Mutant: room while the budget is not used up.
FitsWhileRoom(n, c) == used[n] < net.budget[n]

Fits(n, c) == used[n] + SizeOf(c) <= net.budget[n]

Bytes(C) == MapThenSumSet(SizeOf, C)

\* C is what of the chunks at hand is new and has room.
Insert(n, C) ==
    /\ cache' = [cache EXCEPT ![n] = @ \cup C]
    /\ used' = [used EXCEPT ![n] = @ + Bytes(C)]

\* Whether insert of c reports that it stored c.
StoredNow(n, c) == c \notin cache[n] /\ Fits(n, c)

\* What the cache takes of f, one chunk after the other.
Stored(n, f) ==
    LET taken[i \in 0..Len(f.chunks)] ==
            IF i = 0 THEN {}
            ELSE LET c == f.chunks[i]
                     C == taken[i - 1]
                 IN  IF c \notin cache[n] \cup C /\ used[n] + Bytes(C) + SizeOf(c) <= net.budget[n]
                     THEN C \cup {c} ELSE C
    IN  taken[Len(f.chunks)]

----------------------------------------------------------------------------
\* pool.rs: messages that find the writer queue full are gone.
TrySend(q, ms) == IF Len(q \o ms) <= QueueCap THEN q \o ms ELSE SubSeq(q \o ms, 1, QueueCap)

\* The queues once n has sent the messages ms[m] to each peer m.
SendEach(q, n, ms) == [p \in Pair |-> IF p[1] = n THEN TrySend(q[p], ms[p[2]]) ELSE q[p]]

SendAll(q, n, P, ms) == SendEach(q, n, [m \in Node |-> IF m \in P THEN ms ELSE <<>>])

\* Chunks of ms that find the queue to a peer in P full.
Dropped(q, n, P, ms) ==
    {d \in P \X {ms[i].hash : i \in DOMAIN ms} :
        /\ <<n, d[1]>> \in Pair
        /\ \A i \in DOMAIN ms : ms[i].hash = d[2] => Len(q[<<n, d[1]>>]) + i > QueueCap}

Send(q, n, m, msg) == SendAll(q, n, {m}, <<msg>>)

----------------------------------------------------------------------------
Init ==
    /\ net \in Network
    /\ cache = [n \in Node |-> {}]
    /\ used = [n \in Node |-> 0]
    /\ manifests = [n \in Node |-> {}]
    /\ queue = [p \in Pair |-> <<>>]
    /\ routes = [n \in Node |-> {}]
    /\ seen = [n \in Node |-> {}]
    /\ fetch = [n \in Node |-> Idle]
    /\ restarted = {}
    /\ shed = 0
    /\ outcome = [n \in Node |-> [f \in File |-> "none"]]
    /\ lost = {}

\* publish_file: every chunk is flooded, those the own cache has no room for, too.
PublishFile(f) ==
    LET n == f.owner
        chunks == BuildChunks(f)
        flooded == SendAll(queue, n, Peers(n), chunks)
        hop == IF f.to = NoNode THEN NoNode ELSE net.hop[n][f.to]
    IN  /\ ~ ManifestStored(n, f)
        /\ Insert(n, Stored(n, f))
        /\ manifests' = [manifests EXCEPT ![n] = @ \cup {f}]
        /\ lost' = lost \cup Dropped(queue, n, Peers(n), chunks)
        /\ queue' = IF hop = NoNode THEN flooded ELSE Send(flooded, n, hop, FileManifest(f))
        /\ UNCHANGED <<net, routes, seen, fetch, restarted, shed, outcome>>

Reads(a, b, t) == IsConnected(a, b) /\ queue[<<a, b>>] # <<>> /\ Head(queue[<<a, b>>]).type = t

Rest(a, b) == [queue EXCEPT ![<<a, b>>] = Tail(@)]

\* connection.rs: a frame over the limit is dropped without a look at it, and the
\* session goes on.
OverLimit(a, b) ==
    /\ shed < net.maxShed
    /\ shed' = shed + 1
    /\ LET m == Head(queue[<<a, b>>])
       IN  /\ Reads(a, b, m.type)
           /\ lost' = IF m.type = "chunk" THEN lost \cup {<<b, m.hash>>} ELSE lost
    /\ queue' = Rest(a, b)
    /\ UNCHANGED <<net, cache, used, manifests, routes, seen, fetch, restarted, outcome>>

\* Mutant: a chunk is passed on whether or not it was new.
PassOnAlways(b, c, stored) == Peers(b)

\* Mutant: the owner's neighbours do not pass a chunk on.
PassOnNever(b, c, stored) == {}

\* Whom b passes an incoming chunk on to, besides the requesters.
PassOn(b, c, stored) == IF stored THEN Peers(b) ELSE {}

\* Where the reverse path r leads from b: straight to the requester, or back.
NextOnPath(b, r) == IF IsConnected(b, r.requester) THEN r.requester ELSE r.via

\* A chunk of an unknown owner is dropped; the session stays up.
DropFileChunk(a, b) ==
    /\ Reads(a, b, "chunk") /\ ~ Verifies(a, b, OwnerOf(Head(queue[<<a, b>>]).hash))
    /\ queue' = Rest(a, b)
    /\ UNCHANGED <<net, cache, used, manifests, routes, seen, fetch, restarted, shed, outcome, lost>>

\* handle_file_chunk: store, pass on, and answer those who asked.
HandleFileChunk(a, b) ==
    /\ Reads(a, b, "chunk") /\ Verifies(a, b, OwnerOf(Head(queue[<<a, b>>]).hash))
    /\ LET m == Head(queue[<<a, b>>])
           stored == StoredNow(b, m.hash)
           asking == {r \in routes[b] :
                        /\ r.hash = m.hash /\ r.requester # b
                        /\ NextOnPath(b, r) # a \/ ~ IsConnected(b, r.requester)}
           Answers(n) == {r \in asking : NextOnPath(b, r) = n}
           flood == PassOn(b, m.hash, stored) \ {a}
           flooded == SendAll(Rest(a, b), b, flood, <<m>>)
       IN  /\ IF stored THEN Insert(b, {m.hash}) ELSE UNCHANGED <<cache, used>>
           /\ queue' = SendEach(flooded, b, [n \in Node |-> [i \in 1..Cardinality(Answers(n)) |-> m]])
           /\ lost' = lost \cup Dropped(Rest(a, b), b, flood, <<m>>)
           /\ routes' = [routes EXCEPT ![b] = {r \in @ : r.hash # m.hash}]
    /\ UNCHANGED <<net, manifests, seen, fetch, restarted, shed, outcome>>

SeenRequest(b, request) == <<request.hash, request.requester>> \in seen[b]

RememberRoute(b, request, a) ==
    routes' = [routes EXCEPT ![b] =
        IF Cardinality({r \in @ : r.hash = request.hash}) < MaxRoutes
        THEN @ \cup {[hash |-> request.hash, requester |-> request.requester, via |-> a]} ELSE @]

\* handle_chunk_request: answer, or pass the request on once.
HandleChunkRequest(a, b) ==
    /\ Reads(a, b, "request")
    /\ LET m == Head(queue[<<a, b>>])
       IN  IF m.hash \in cache[b]
           THEN queue' = Send(Rest(a, b), b, a, FileChunk(m.hash)) /\ UNCHANGED <<routes, seen>>
           ELSE IF m.requester = b \/ SeenRequest(b, m)
           THEN queue' = Rest(a, b) /\ UNCHANGED <<routes, seen>>
           ELSE /\ seen' = [seen EXCEPT ![b] = @ \cup {<<m.hash, m.requester>>}]
                /\ RememberRoute(b, m, a)
                /\ queue' = SendAll(Rest(a, b), b, ClosestPeers(b, m.hash) \ {a}, Forwarded(m))
    /\ UNCHANGED <<net, cache, used, manifests, fetch, restarted, shed, outcome, lost>>

\* relay.rs: the envelope moves on, or its manifest is stored.
HandleManifest(a, b) ==
    /\ Reads(a, b, "manifest")
    /\ LET m == Head(queue[<<a, b>>])
           hop == net.hop[b][m.file.to]
       IN  IF m.file.to = b
           THEN /\ manifests' = IF m.file.owner \in net.knows[b]
                                THEN [manifests EXCEPT ![b] = @ \cup {m.file}] ELSE manifests
                /\ queue' = Rest(a, b)
           ELSE /\ queue' = IF hop = NoNode THEN Rest(a, b) ELSE Send(Rest(a, b), b, hop, m)
                /\ UNCHANGED manifests
    /\ UNCHANGED <<net, cache, used, routes, seen, fetch, restarted, shed, outcome, lost>>

----------------------------------------------------------------------------
Ask(n, C) ==
    LET Wanted(m) == {c \in C : m \in Targets(n, c)}
    IN  queue' = SendEach(queue, n,
                    [m \in Node |-> SetToSeq({ChunkRequest(n, c, MaxTtl) : c \in Wanted(m)})])

\* fetch_file up to its first sleep; each file is fetched once by a node.
StartFetch(n, f) ==
    /\ ManifestStored(n, f)
    /\ fetch[n] = Idle /\ outcome[n][f] = "none"
    /\ LET missing == ChunksOf(f) \ cache[n]
       IN  /\ IF missing = {} THEN UNCHANGED fetch
              ELSE fetch' = [fetch EXCEPT ![n] = [file |-> f, missing |-> missing]]
           /\ outcome' = [outcome EXCEPT ![n][f] = IF missing = {} THEN "written" ELSE "fetching"]
           /\ Ask(n, missing)
    /\ UNCHANGED <<net, cache, used, manifests, routes, seen, restarted, shed, lost>>

\* have: what the cache holds of f, by index.
Have(n, f) ==
    LET I == {i \in DOMAIN f.chunks : f.chunks[i] \in cache[n]}
    IN  [i \in I |-> f.chunks[i]]

\* What a fetch still misses when it wakes up.
StillMissing(n) == fetch[n].missing \ cache[n]

\* It has everything: the chunks are decrypted in the manifest's order and written.
Assemble(n) ==
    /\ fetch[n] # Idle /\ StillMissing(n) = {}
    /\ outcome' = [outcome EXCEPT ![n][fetch[n].file] =
                    IF Assembled(fetch[n].file, Have(n, fetch[n].file)) THEN "written" ELSE "failed"]
    /\ fetch' = [fetch EXCEPT ![n] = Idle]
    /\ UNCHANGED <<net, cache, used, manifests, queue, routes, seen, restarted, shed, lost>>

\* It asks again.
Retry(n) ==
    /\ fetch[n] # Idle /\ StillMissing(n) # {}
    /\ fetch' = [fetch EXCEPT ![n].missing = StillMissing(n)]
    /\ Ask(n, StillMissing(n))
    /\ UNCHANGED <<net, cache, used, manifests, routes, seen, restarted, shed, outcome, lost>>

\* FETCH_TIMEOUT has passed.
TimeOut(n) ==
    /\ net.timeouts
    /\ fetch[n] # Idle /\ StillMissing(n) # {}
    /\ outcome' = [outcome EXCEPT ![n][fetch[n].file] = "timed out"]
    /\ fetch' = [fetch EXCEPT ![n] = Idle]
    /\ UNCHANGED <<net, cache, used, manifests, queue, routes, seen, restarted, shed, lost>>

\* CHUNK_ROUTE_TTL has passed since n saw this request.
Expire(n, s) ==
    /\ s \in seen[n]
    /\ net.prompt => \A p \in Pair : \A i \in DOMAIN queue[p] :
                        queue[p][i].type = "manifest" \/ queue[p][i].hash # s[1]
    /\ seen' = [seen EXCEPT ![n] = @ \ {s}]
    /\ routes' = [routes EXCEPT ![n] = {r \in @ : <<r.hash, r.requester>> # s}]
    /\ UNCHANGED <<net, cache, used, manifests, queue, fetch, restarted, shed, outcome, lost>>

\* The cache and the manifests survive; what was under way to n and from n does not.
Restart(n) ==
    /\ n \in net.restarting \ restarted
    /\ restarted' = restarted \cup {n}
    /\ routes' = [routes EXCEPT ![n] = {}]
    /\ seen' = [seen EXCEPT ![n] = {}]
    /\ fetch' = [fetch EXCEPT ![n] = Idle]
    /\ outcome' = [outcome EXCEPT ![n] = [f \in File |-> IF @[f] = "fetching" THEN "none" ELSE @[f]]]
    /\ queue' = [p \in Pair |-> IF n \in {p[1], p[2]} THEN <<>> ELSE queue[p]]
    /\ lost' = lost \cup UNION {{<<p[2], queue[p][i].hash>> :
                    i \in {j \in DOMAIN queue[p] : queue[p][j].type = "chunk"}} :
                    p \in {x \in Pair : n \in {x[1], x[2]}}}
    /\ UNCHANGED <<net, cache, used, manifests, shed>>

----------------------------------------------------------------------------
Receive(a, b) ==
    \/ DropFileChunk(a, b) \/ HandleFileChunk(a, b) \/ HandleChunkRequest(a, b) \/ HandleManifest(a, b)
    \/ OverLimit(a, b)

Next ==
    \/ \E f \in net.file : PublishFile(f)
    \/ \E p \in Pair : Receive(p[1], p[2])
    \/ \E n \in Node, f \in net.file : StartFetch(n, f)
    \/ \E n \in Node : Assemble(n) \/ Retry(n) \/ TimeOut(n) \/ Restart(n)
    \/ \E n \in Node : \E s \in seen[n] : Expire(n, s)

\* Sessions are read, and a fetch wakes up and gives up in the end.
Fairness ==
    /\ \A a, b \in Node : WF_vars(Receive(a, b))
    /\ \A n \in Node : WF_vars(Assemble(n)) /\ SF_vars(Retry(n)) /\ WF_vars(TimeOut(n))
    /\ \A n \in Node, s \in Chunk \X Node : WF_vars(Expire(n, s))

Spec == Init /\ [][Next]_vars /\ Fairness

----------------------------------------------------------------------------
Message == {FileChunk(c) : c \in Chunk} \cup {FileManifest(f) : f \in File}
    \cup {ChunkRequest(n, c, t) : n \in Node, c \in Chunk, t \in 0..MaxTtl}

\* Type invariant; the accounting counter is the sum of what is stored, within
\* the budget (cache.rs), and no queue exceeds its capacity.
TypeOK ==
    /\ net \in Network
    /\ cache \in [Node -> SUBSET Chunk] /\ manifests \in [Node -> SUBSET File]
    /\ \A n \in Node : used[n] = Bytes(cache[n]) /\ used[n] <= net.budget[n]
    /\ \A p \in Pair : Len(queue[p]) <= QueueCap /\ ToSet(queue[p]) \subseteq Message
    /\ \A n \in Node : \A c \in Chunk : Cardinality({r \in routes[n] : r.hash = c}) <= MaxRoutes
    /\ seen \in [Node -> SUBSET (Chunk \X Node)]
    /\ \A n \in Node : fetch[n] = Idle \/ ManifestStored(n, fetch[n].file)
    /\ restarted \subseteq net.restarting /\ shed \in 0..net.maxShed

\* Chunks under way to n.
UnderWay(n, c) == \E p \in Pair : p[2] = n /\ FileChunk(c) \in ToSet(queue[p])

\* Replication by flood reaches every node that has room: a neighbour of a node
\* that stores a chunk stores it too, is about to, had no room for it, did not
\* know its owner, or had it lost on the way or to its limit, whatever crosses it
\* (files.rs: flood when stored).
NeighboursReplicate ==
    \A p \in Pair : \A c \in cache[p[1]] :
        c \in cache[p[2]] \/ UnderWay(p[2], c) \/ ~ Fits(p[2], c)
            \/ ~ Verifies(p[1], p[2], OwnerOf(c)) \/ <<p[2], c>> \in lost

\* Reverse paths lead somewhere: the nodes that remember a request do not point
\* at each other in a circle (state.rs: seen_request before remember_chunk_route).
ReversePathsEnd ==
    net.prompt => \A s \in Chunk \X Node : \A N \in (SUBSET (Node \ {s[2]})) \ {{}} :
        \E n \in N : ~ \E r \in routes[n] : <<r.hash, r.requester>> = s /\ r.via \in N

\* A chunk n can get: it has room for all it misses, and a peer stores it.
Served(n) ==
    /\ used[n] + Bytes(StillMissing(n)) <= net.budget[n]
    /\ \A c \in StillMissing(n) : \E m \in Peers(n) : c \in cache[m]

\* A fetch that may be served ends with the file, though requests and answers
\* find queues full; it may give up only where it may time out, or be cut off
\* by a restart, or lose the room to other chunks (fetch_file).
FetchCompletes ==
    \A n \in Node, f \in File :
        (outcome[n][f] = "fetching" /\ Served(n)) ~>
            \/ outcome[n][f] = "written"
            \/ net.timeouts /\ outcome[n][f] = "timed out"
            \/ ~ Served(n) \/ outcome[n][f] = "none"

Quiet == \A p \in Pair : queue[p] = <<>>

\* Chunk traffic ends: no chunk and no request circulates once every fetch has
\* ended, whatever loops the sessions form (files.rs: flood when stored).
ChunksEnd == <>[](\A n \in Node : fetch[n] = Idle) => <>[]Quiet

\* Disagreement: a fetch whose chunks are stored beyond the neighbours completes.
FetchForwards ==
    \A n \in Node, f \in File : outcome[n][f] = "fetching" ~> outcome[n][f] = "written"
=============================================================================
