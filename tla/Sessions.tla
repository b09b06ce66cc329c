------------------------------ MODULE Sessions -----------------------------
(***************************************************************************)
(* Sessions between nodes: dialling and accepting (fantuan-node run.rs),   *)
(* the Noise handshake and the identity binding (fantuan-transport         *)
(* noise.rs, peer.rs, binding.rs), the registry of sessions (pool.rs), the *)
(* loop that reads and writes frames (connection.rs, framing.rs), and the  *)
(* stop of a node.                                                         *)
(*                                                                         *)
(* Abstractions.  Nodes are genuine, so bindings verify.  A frame is its   *)
(* length and its body, read one after the other; what a payload causes is *)
(* in Overlay, Social and Files, but for its rejection.  No topic is       *)
(* subscribed to (no history request follows the gossip) and there is no   *)
(* cover traffic.  Backoff, the idle time and what a token bucket takes to *)
(* refill have no length.  A stream the router loses is closed or stalls.  *)
(***************************************************************************)
EXTENDS Integers, Sequences, FiniteSets

CONSTANTS
    Node,
    None,       \* no session
    Network,    \* deployments explored
    QueueCap,   \* DEFAULT_WRITER_QUEUE
    MaxFrames,  \* frames of a session before it must rekey
    Burst,      \* max_frames_per_sec, at least 1: what a bucket holds and gains a second
    MaxDials    \* bound on the streams opened

(* Who dials whom (itself nobody), the sessions a pool admits, the payloads *)
(* sent <<from, to, k>>, those the receiver finds faulty and its peer's own,     *)
(* who is stopped, and the faults: streams closed, idle sessions, crashes.  *)
Payload == Node \X Node \X Nat
Deployment ==
    [dial : SUBSET {p \in Node \X Node : p[1] # p[2]}, limit : Nat, send : SUBSET Payload, faulty : SUBSET Payload,
     stopping : SUBSET Node, faults : Nat,
     stalls : BOOLEAN,      \* streams may stall as well
     stallsInBind : BOOLEAN \* ... even while a binding is awaited
    ]

ASSUME NetworkAssumption == Network \subseteq Deployment
ASSUME MaxFramesAssumption == MaxFrames \in Nat /\ MaxFrames > 2
ASSUME BurstAssumption == Burst \in Nat \ {0}
ASSUME BoundsAssumption == QueueCap \in Nat /\ MaxDials \in Nat

Conn == 1..MaxDials
Ends == Conn \X Node

VARIABLES
    net,        \* the deployment; never changes
    dialed,     \* dialed[c] = <<x, y>>: x opened stream c to y
    at,         \* at[<<c, n>>]: what n's task of c waits for
    stream,     \* stream[c]: open, closed by the router, stalled
    wire,       \* wire[e]: frames on their way to e
    reading,    \* reading[e]: whole, header (read, body to come), lost
    queue,      \* queue[e]: e's writer queue
    sent, received,  \* frames of e's Noise session
    tokens,     \* whole tokens in e's bucket
    registry,   \* registry[n][p]: n's entry for p
    newest,     \* history: the last session n registered for p
    live,       \* live[n]: n's count of registered tasks
    mode,       \* up, stopping; drained, expired: how n stopped
    accepted,   \* history: payloads queued at e
    arrived,    \* history: payloads decrypted by e
    shed,       \* history: which of them were over the limit and not handled
    faults      \* faults so far

vars == <<net, dialed, at, stream, wire, reading, queue, sent, received, tokens, registry, newest,
          live, mode, accepted, arrived, shed, faults>>

traffic == <<queue, accepted>>
limiter == <<tokens, shed>>
nodes == <<registry, newest, live, mode>>

Handshaking == {"e", "ee", "s"}
Running(e) == at[e] = "run"
Gone(e) == at[e] = "done"

Other(c, n) == IF dialed[c][1] = n THEN dialed[c][2] ELSE dialed[c][1]
Opposite(e) == <<e[1], Other(e[1], e[2])>>
Has(e) == e[1] \in DOMAIN dialed /\ e[2] \in {dialed[e[1]][1], dialed[e[1]][2]}

\* The stream ends at e: closed by the router, or by the other end once read.
Ended(e) ==
    \/ stream[e[1]] = "closed"
    \/ stream[e[1]] = "open" /\ Gone(Opposite(e)) /\ wire[e] = <<>>

\* A frame that carries no payload.
Frame(kind) == <<kind>>

\* write_frame: what is written reaches an open end.
WriteFrame(w, e, frames) ==
    IF stream[e[1]] = "open" /\ ~ Gone(Opposite(e)) THEN [w EXCEPT ![Opposite(e)] = @ \o frames] ELSE w

----------------------------------------------------------------------------
Init ==
    /\ net \in Network
    /\ dialed = <<>>
    /\ at = [e \in Ends |-> "done"] /\ stream = [c \in Conn |-> "open"]
    /\ wire = [e \in Ends |-> <<>>] /\ reading = [e \in Ends |-> "whole"]
    /\ queue = [e \in Ends |-> <<>>]
    /\ sent = [e \in Ends |-> 0] /\ received = [e \in Ends |-> 0]
    /\ tokens = [e \in Ends |-> Burst] /\ shed = [e \in Ends |-> {}]
    /\ registry = [n \in Node |-> [p \in Node |-> None]] /\ newest = registry
    /\ live = [n \in Node |-> 0]
    /\ mode = [n \in Node |-> "up"]
    /\ accepted = [e \in Ends |-> <<>>] /\ arrived = accepted
    /\ faults = 0

\* The tasks at E end: nothing reads what was on its way, queues are dropped.
Drop(E) ==
    /\ at' = [e \in Ends |-> IF e \in E THEN "done" ELSE at[e]]
    /\ wire' = [e \in Ends |-> IF e \in E THEN <<>> ELSE wire[e]]
    /\ queue' = [e \in Ends |-> IF e \in E THEN <<>> ELSE queue[e]]
    /\ reading' = [e \in Ends |-> IF e \in E THEN "whole" ELSE reading[e]]

\* A task ends before its loop: its pool entry, if any, stays.
Fail(e) == Drop({e}) /\ UNCHANGED <<net, dialed, stream, sent, received, nodes, accepted, arrived, limiter>>

\* Mutant: remove without a look at the id.
RemoveAny(n, p, c) == None

\* pool.rs remove: n's entry for p when session c is done.
Remove(n, p, c) == IF registry[n][p] = c THEN None ELSE registry[n][p]

\* The loop ends: the session leaves the pool.
Finish(e) ==
    LET p == Other(e[1], e[2])
    IN  /\ Drop({e})
        /\ registry' = [registry EXCEPT ![e[2]][p] = Remove(e[2], p, e[1])]
        /\ live' = [live EXCEPT ![e[2]] = IF @ > 0 THEN @ - 1 ELSE 0]
        /\ UNCHANGED <<net, dialed, stream, sent, received, newest, mode, accepted, arrived, limiter>>

----------------------------------------------------------------------------
\* Mutant: the outbound task ends with its first session.
MayDialOnce(x, y) == mode[x] = "up" /\ \A c \in DOMAIN dialed : dialed[c] # <<x, y>>

\* x's outbound task for y is between two sessions.
MayDial(x, y) ==
    mode[x] = "up" /\ \A c \in DOMAIN dialed : dialed[c] = <<x, y>> => Gone(<<c, x>>)

\* outbound_loop, connect_once: x opens a stream, y accepts it.
Dial(x, y) ==
    /\ <<x, y>> \in net.dial /\ MayDial(x, y) /\ mode[y] = "up"
    /\ Len(dialed) < MaxDials
    /\ LET c == Len(dialed) + 1
       IN  /\ dialed' = Append(dialed, <<x, y>>)
           /\ at' = [at EXCEPT ![<<c, x>>] = "ee", ![<<c, y>>] = "e"]
           /\ wire' = [wire EXCEPT ![<<c, y>>] = <<Frame("e")>>]
    /\ UNCHANGED <<net, stream, reading, traffic, sent, received, nodes, arrived, limiter, faults>>

\* What a handshake message is answered with: a binding follows the last one.
Answer(message) ==
    CASE message = "e" -> <<Frame("ee")>>
      [] message = "ee" -> <<Frame("s"), Frame("binding")>>
      [] message = "s" -> <<Frame("binding")>>

\* handshake_initiator, handshake_responder, and bind's own binding.
Handshake(e) ==
    /\ Has(e) /\ at[e] \in Handshaking /\ wire[e] # <<>> /\ Head(wire[e]) = Frame(at[e])
    /\ at' = [at EXCEPT ![e] = IF @ = "e" THEN "s" ELSE "binding"]
    /\ wire' = WriteFrame([wire EXCEPT ![e] = Tail(@)], e, Answer(at[e]))
    /\ sent' = [sent EXCEPT ![e] = IF at[e] = "e" THEN 0 ELSE 1]
    /\ UNCHANGED <<net, dialed, stream, reading, traffic, received, nodes, arrived, limiter, faults>>

\* Mutant: a session that takes over an entry is not counted.
CountedNew(n, p) == IF registry[n][p] = None THEN live[n] + 1 ELSE live[n]

Counted(n, p) == live[n] + 1

HasRoom(n, p) ==
    registry[n][p] # None \/ Cardinality({q \in Node : registry[n][q] # None}) < net.limit

\* The peer's binding is in: the session enters the pool, or finds it full.
Bind(e) ==
    /\ Has(e) /\ at[e] = "binding" /\ wire[e] # <<>> /\ Head(wire[e]) = Frame("binding")
    /\ LET n == e[2]  p == Other(e[1], n)
       IN  IF HasRoom(n, p)
           THEN /\ at' = [at EXCEPT ![e] = "enter"]
                /\ wire' = [wire EXCEPT ![e] = Tail(@)]
                /\ received' = [received EXCEPT ![e] = 1]
                /\ registry' = [registry EXCEPT ![n][p] = e[1]]
                /\ newest' = [newest EXCEPT ![n][p] = e[1]]
                /\ live' = [live EXCEPT ![n] = Counted(n, p)]
                /\ UNCHANGED <<net, dialed, stream, reading, traffic, sent, mode, arrived, limiter>>
           ELSE Fail(e)
    /\ UNCHANGED faults

\* run, before its loop: the gossip goes out; a failed write leaves the entry.
Enter(e) ==
    /\ Has(e) /\ at[e] = "enter"
    /\ \/ /\ at' = [at EXCEPT ![e] = "run"]
          /\ wire' = WriteFrame(wire, e, <<Frame("gossip")>>)
          /\ sent' = [sent EXCEPT ![e] = @ + 1]
          /\ UNCHANGED <<net, dialed, stream, reading, traffic, received, nodes, arrived, limiter>>
       \/ (Gone(Opposite(e)) \/ stream[e[1]] = "closed") /\ Fail(e)
    /\ UNCHANGED faults

----------------------------------------------------------------------------
\* Mutant: a queue without a bound.
QueueHasRoomAlways(e) == TRUE

QueueHasRoom(e) == Len(queue[e]) < QueueCap

\* pool.rs try_send: m is queued on the session the registry names.
TrySend(n, p, m) ==
    /\ m \in net.send /\ m[1] = n /\ m[2] = p
    /\ \A e \in Ends : \A i \in DOMAIN accepted[e] : accepted[e][i] # m
    /\ registry[n][p] # None
    /\ LET e == <<registry[n][p], n>>
       IN  /\ at[e] \in {"enter", "run"} /\ QueueHasRoom(e)
           /\ queue' = [queue EXCEPT ![e] = Append(@, m)]
           /\ accepted' = [accepted EXCEPT ![e] = Append(@, m)]
    /\ UNCHANGED <<net, dialed, at, stream, wire, reading, sent, received, nodes, arrived, limiter, faults>>

\* send and recv refuse to go on.
RekeyRequired(e) == sent[e] >= MaxFrames \/ received[e] >= MaxFrames

\* read_frame: the length is in.
ReadHeader(e) ==
    /\ Running(e) /\ ~ RekeyRequired(e) /\ reading[e] = "whole" /\ wire[e] # <<>>
    /\ reading' = [reading EXCEPT ![e] = "header"]
    /\ UNCHANGED <<net, dialed, at, stream, wire, traffic, sent, received, nodes, arrived, limiter, faults>>

Verifies(m) == m \notin net.faulty

\* reject.rs: what does not verify is fatal when it is the peer's own.
RejectsOwn(m) == m \in net.send /\ ~ Verifies(m)

\* Mutant: the last token is never spent.
PassesBeyondOne(t) == t > 1

\* limit.rs check_at: there is a whole token.
Passes(t) == t >= 1

\* read_frame, recv: the body is in and decrypted. It is handled when the bucket,
\* filled up for the time since the last frame, has a token for it; a frame over
\* the limit is dropped, and the session goes on.
ReadBody(e) ==
    /\ Running(e) /\ reading[e] = "header"
    /\ \E t \in tokens[e]..Burst :
          LET m == Head(wire[e])
              payload == m # Frame("gossip")
          IN  IF Passes(t) /\ RejectsOwn(m) THEN Finish(e)
              ELSE /\ wire' = [wire EXCEPT ![e] = Tail(@)]
                   /\ reading' = [reading EXCEPT ![e] = "whole"]
                   /\ received' = [received EXCEPT ![e] = @ + 1]
                   /\ arrived' = [arrived EXCEPT ![e] = IF payload THEN Append(@, m) ELSE @]
                   /\ tokens' = [tokens EXCEPT ![e] = IF Passes(t) THEN t - 1 ELSE t]
                   /\ shed' = [shed EXCEPT ![e] = IF payload /\ ~ Passes(t) THEN @ \cup {Len(arrived'[e])} ELSE @]
                   /\ UNCHANGED <<net, dialed, at, stream, traffic, sent, nodes>>
    /\ UNCHANGED faults

\* Mutant: the reader finds the next frame by itself.
ReadLostResync(e) ==
    /\ Running(e) /\ reading[e] = "lost" /\ wire[e] # <<>>
    /\ wire' = [wire EXCEPT ![e] = Tail(@)]
    /\ reading' = [reading EXCEPT ![e] = "whole"]
    /\ UNCHANGED <<net, dialed, at, stream, traffic, sent, received, nodes, arrived, limiter, faults>>

\* read_frame takes a body for a length, which it is not, or decrypts at the
\* wrong place.
ReadLost(e) == Running(e) /\ reading[e] = "lost" /\ Finish(e) /\ UNCHANGED faults

\* The next send or recv fails.
Rekey(e) == Running(e) /\ RekeyRequired(e) /\ reading[e] = "whole" /\ Finish(e) /\ UNCHANGED faults

\* The loop's other branch: a queued payload is written, and the read under way
\* starts over, without the length it may have had; or the write fails.
WriteOut(e) ==
    /\ Running(e) /\ queue[e] # <<>> /\ ~ RekeyRequired(e)
    /\ \/ /\ wire' = WriteFrame(wire, e, <<Head(queue[e])>>)
          /\ queue' = [queue EXCEPT ![e] = Tail(@)]
          /\ sent' = [sent EXCEPT ![e] = @ + 1]
          /\ reading' = [reading EXCEPT ![e] = IF @ = "header" THEN "lost" ELSE @]
          /\ UNCHANGED <<net, dialed, at, stream, received, nodes, accepted, arrived, limiter>>
       \/ (Gone(Opposite(e)) \/ stream[e[1]] = "closed") /\ Finish(e)
    /\ UNCHANGED faults

\* A read finds the end of the stream.
ReadEnd(e) ==
    /\ Has(e) /\ Ended(e)
    /\ \/ at[e] \in Handshaking \cup {"binding"} /\ Fail(e)
       \/ Running(e) /\ Finish(e)
    /\ UNCHANGED faults

\* handshake_client and handshake_server give up; bind has no timeout.
HandshakeTimeout(e) ==
    Has(e) /\ stream[e[1]] = "stalled" /\ at[e] \in Handshaking /\ Fail(e) /\ UNCHANGED faults

Fault == faults < net.faults /\ faults' = faults + 1

\* The idle timeout of a session: on a stalled stream, or for want of traffic.
IdleTimeout(e) == Running(e) /\ stream[e[1]] = "stalled" /\ Finish(e) /\ UNCHANGED faults
Idle(e) == Running(e) /\ Fault /\ Finish(e)

----------------------------------------------------------------------------
\* The router loses a stream with what is on its way.
Lose(c) ==
    /\ c \in DOMAIN dialed /\ stream[c] = "open"
    /\ \E e \in {c} \X Node : ~ Gone(e)
    /\ Fault
    /\ \E s \in {"closed"} \cup (IF net.stalls THEN {"stalled"} ELSE {}) :
          /\ s = "stalled" => net.stallsInBind \/ \A n \in Node : at[<<c, n>>] # "binding"
          /\ stream' = [stream EXCEPT ![c] = s]
    /\ wire' = [e \in Ends |-> IF e[1] = c /\ reading[e] = "whole" THEN <<>> ELSE wire[e]]
    /\ UNCHANGED <<net, dialed, at, reading, traffic, sent, received, nodes, arrived, limiter>>

EndsOf(n) == Conn \X {n}

\* n crashes and starts again.
Restart(n) ==
    /\ mode[n] = "up" /\ \E e \in EndsOf(n) : ~ Gone(e)
    /\ Fault
    /\ Drop(EndsOf(n))
    /\ registry' = [registry EXCEPT ![n] = [p \in Node |-> None]]
    /\ newest' = [newest EXCEPT ![n] = [p \in Node |-> None]]
    /\ live' = [live EXCEPT ![n] = 0]
    /\ UNCHANGED <<net, dialed, stream, sent, received, mode, accepted, arrived, limiter>>

\* A signal: nobody is dialled or accepted any more, and close_all empties the
\* registry; the tasks keep their own handle, so their queues stay open.
Shutdown(n) ==
    /\ n \in net.stopping /\ mode[n] = "up"
    /\ mode' = [mode EXCEPT ![n] = "stopping"]
    /\ registry' = [registry EXCEPT ![n] = [p \in Node |-> None]]
    /\ UNCHANGED <<net, dialed, at, stream, wire, reading, traffic, sent, received, newest, live,
                   arrived, limiter, faults>>

\* run returns and the process ends, with the tasks it has.
Exit(n, how) ==
    /\ mode[n] = "stopping"
    /\ mode' = [mode EXCEPT ![n] = how]
    /\ Drop(EndsOf(n))
    /\ UNCHANGED <<net, dialed, stream, sent, received, registry, newest, live, accepted, arrived, limiter, faults>>

\* No task is counted any more.
Drained(n) == live[n] = 0 /\ Exit(n, "drained")

\* The grace period is over.
Expire(n) == Exit(n, "expired")

\* Steps of a task that has something to do.
Read(e) ==
    \/ Handshake(e) \/ Bind(e) \/ Enter(e) \/ ReadHeader(e) \/ ReadBody(e) \/ ReadLost(e)
    \/ Rekey(e) \/ ReadEnd(e) \/ HandshakeTimeout(e)

Next ==
    \/ \E x, y \in Node : Dial(x, y)
    \/ \E e \in Ends : Read(e) \/ WriteOut(e) \/ IdleTimeout(e) \/ Idle(e)
    \/ \E m \in net.send : TrySend(m[1], m[2], m)
    \/ \E c \in Conn : Lose(c)
    \/ \E n \in Node : Restart(n) \/ Shutdown(n) \/ Drained(n) \/ Expire(n)

\* Tasks run; outbound tasks dial again; a stalled session times out.
Fairness ==
    /\ \A x, y \in Node : WF_vars(Dial(x, y))
    /\ \A e \in Ends : /\ WF_vars(Read(e)) /\ WF_vars(WriteOut(e))
                       /\ WF_vars(IdleTimeout(e))
    /\ \A n \in Node : WF_vars(Drained(n))

Spec == Init /\ [][Next]_vars /\ Fairness

----------------------------------------------------------------------------
\* Type invariant; a body is on its way to whoever read its length (framing.rs).
TypeOK ==
    /\ net \in Network
    /\ \A c \in DOMAIN dialed : dialed[c] \in net.dial
    /\ at \in [Ends -> Handshaking \cup {"binding", "enter", "run", "done"}]
    /\ stream \in [Conn -> {"open", "closed", "stalled"}]
    /\ \A e \in Ends :
          /\ \A i \in DOMAIN wire[e] : wire[e][i] \in net.send \cup {Frame(k) : k \in {"e", "ee", "s", "binding", "gossip"}}
          /\ reading[e] \in {"whole", "header", "lost"}
          /\ reading[e] = "header" => wire[e] # <<>> /\ Head(wire[e]) \in net.send \cup {Frame("gossip")}
          /\ Len(queue[e]) <= QueueCap
          /\ sent[e] \in 0..MaxFrames /\ received[e] \in 0..MaxFrames
          /\ tokens[e] \in 0..Burst /\ shed[e] \subseteq DOMAIN arrived[e]
    /\ registry \in [Node -> [Node -> Conn \cup {None}]]
    /\ \A n \in Node : live[n] \in 0..MaxDials
    /\ mode \in [Node -> {"up", "stopping", "drained", "expired"}]

\* While the last session registered for a peer runs, sends go to it, however
\* many older ones end meanwhile (pool.rs: a stale cleanup can never remove a
\* newer connection).
RegistryNewest ==
    \A n, p \in Node :
        mode[n] = "up" /\ newest[n][p] # None /\ at[<<newest[n][p], n>>] \in {"enter", "run"} =>
            registry[n][p] = newest[n][p]

\* A node that stops before its grace period is over has no session left
\* (run.rs, pool.rs live).
StopsDrained ==
    [][\A n \in Node : mode'[n] = "drained" /\ mode[n] = "stopping" =>
            \A e \in EndsOf(n) : at[e] \notin {"enter", "run"}]_vars

\* On each session payloads arrive in the order they were queued, with no gap,
\* whichever reads were cancelled (connection.rs select!, noise.rs). Handlers get
\* all of them but those over the limit: whatever the pace, and with the gossip
\* counted, these are no more than the frames beyond the first Burst, so none while
\* no more than Burst were read (limit.rs). The binding is read before the loop.
InOrderWithinLimit ==
    \A e \in Ends : Has(e) =>
        LET from == accepted[Opposite(e)]
        IN  /\ Len(arrived[e]) <= Len(from) /\ arrived[e] = SubSeq(from, 1, Len(arrived[e]))
            /\ shed[e] # {} => Cardinality(shed[e]) <= (received[e] - 1) - Burst

\* A session between x and y.
Linked(x, y) == \E c \in Conn : Running(<<c, x>>) /\ Running(<<c, y>>)

\* Each pair of which one dials the other ends up with a session that lasts,
\* once faults cease: crossing dials, cancelled reads, rekeying, lost streams and
\* crashes included; unless one is stopped, or the pool has no room (run.rs
\* outbound_loop).
Reconnects ==
    \A x, y \in Node :
        <>[](<<x, y>> \in net.dial /\ {x, y} \cap net.stopping = {} /\ net.limit >= Cardinality(Node)
                => Linked(x, y))

\* Disagreement: whoever has a session with a peer can send to it, in the end
\* (pool.rs: a registry of active connections).
SendsReach ==
    \A x, y \in Node :
        []<>(mode[x] = "up" /\ Linked(x, y) => registry[x][y] # None /\ Running(<<registry[x][y], x>>))

\* Disagreement: only faults end sessions; a read and a write of one session do
\* not interfere (ARCHITECTURE.md section 5).
ReadsSurviveWrites == \A e \in Ends : reading[e] # "lost"

\* Disagreement: close_all lets every task drain its queue and end; the grace
\* period is for the rest (pool.rs, ARCHITECTURE.md section 5).
StopsUnaided == \A n \in Node : mode[n] = "stopping" ~> mode[n] # "stopping"
=============================================================================
