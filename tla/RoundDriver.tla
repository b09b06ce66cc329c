---------------------------- MODULE RoundDriver ----------------------------
(***************************************************************************)
(* The anonymous layer: every node's RoundDriver (fantuan-anon), the       *)
(* scheduler that feeds it (fantuan-node anon.rs) and the strikes it keeps *)
(* against peers that drop out.                                            *)
(*                                                                         *)
(* A round carries one message.  Its initiator announces it, every other   *)
(* participant answers with a neutral share, and the initiator sends the   *)
(* share that carries the message last.  Rounds started in the same clock  *)
(* window have the same id; the smaller fingerprint wins.                  *)
(*                                                                         *)
(* Abstractions.  A share is the participant set its pads were derived for *)
(* and the message it carries, if any; XOR is what Extract computes from   *)
(* those.  A signature is the channel it covers.  A collector's deadline   *)
(* is a choice of the tick that finds it expired.  A node's network output *)
(* is unordered, because handlers compute it under the driver's lock and   *)
(* send it after releasing the lock.                                       *)
(***************************************************************************)
EXTENDS Integers, Sequences, FiniteSets, SequencesExt

CONSTANTS
    Node,           \* fingerprints: integers, the tie-break compares them
    Msg,            \* messages the operators queue
    AuthorOf,       \* [Msg -> Node]
    ChannelOf,      \* the channel each message is queued on
    ValidChannel,   \* channel names DcRoundStart::validate accepts
    Link,           \* [Node -> SUBSET Node]: live sessions
    Known,          \* [Node -> SUBSET Node]: peers in the trust store
    Trusted,        \* [Node -> SUBSET Node]: peers that pass min_round_trust
    Offset,         \* [Node -> Nat]: how far a clock runs ahead
    Granularity,    \* ROUND_ID_GRANULARITY_MS
    FutureSkew,     \* MAX_FUTURE_SKEW_MS
    MaxRetries,     \* MAX_CONFLICT_RETRIES
    MaxCollectors,  \* MAX_COLLECTORS
    MaxParts,       \* DCNET_MAX_PARTICIPANTS
    MaxStrikes,     \* MAX_STRIKES
    Synchronous,    \* a deadline never passes with the round still in flight
    Patient,        \* an operator waits for one message before queueing the next
    None,
    MaxNow, MaxRounds, MaxLoss, MaxRestarts \* bounds of the exploration

ASSUME NodeAssumption == Node \subseteq Int /\ None \notin Int \cup Msg
ASSUME ClockAssumption ==
    /\ Offset \in [Node -> Nat] /\ Granularity \in Nat /\ FutureSkew \in Nat
    /\ MaxNow \in Nat
ASSUME LimitsAssumption ==
    MaxRetries \in Nat /\ MaxLoss \in Nat /\ MaxRestarts \in Nat
ASSUME SizeAssumption == IsFiniteSet(Node) /\ MaxParts \in Nat
ASSUME LinkAssumption == \A n \in Node : Link[n] \subseteq Node \ {n}

VARIABLES
    driver,     \* driver[n]: RoundDriver
    reputation, \* reputation[n]: ReputationTracker
    net,        \* round objects in flight
    now,        \* the wall clock, in windows of ROUND_ID_GRANULARITY_MS
    submitted,  \* messages queued so far
    losses, restarts,   \* counters behind MaxLoss and MaxRestarts
    sent,       \* history: every share ever broadcast
    delivered   \* history: every NodeEvent::Anonymous

vars == <<driver, reputation, net, now, submitted, losses, restarts, sent, delivered>>

----------------------------------------------------------------------------
(* RoundTracker *)

Clock(n) == (now + Offset[n]) * Granularity

\* Mutant: an id equal to the highest seen.
NotPastCurrent(current, clock) == IF current > clock THEN current ELSE clock + 1
\* Mutant: the floor alone, without the clock.
NoClock(current, clock) == current + 1
NextRound(current, clock) == (IF current > clock THEN current ELSE clock) + 1

MarkSeen(current, id, clock) == current < id /\ id <= clock + FutureSkew

----------------------------------------------------------------------------
(* RoundCollector and shares *)

Empty == [y \in {} |-> None]
Without(f, S) == [y \in DOMAIN f \ S |-> f[y]]
With(f, x, v) == [y \in DOMAIN f \cup {x} |-> IF y = x THEN v ELSE f[y]]

NewCollector(channel, initiator, parts) ==
    [channel |-> channel, initiator |-> initiator, parts |-> parts, shares |-> Empty]

Missing(c) == c.parts \ DOMAIN c.shares
\* Mutant: our share may go before the others.
EnoughForUs(c, n) == n \in Missing(c)
AllOthersArrived(c, n) == Missing(c) = {n}
Submit(c, from, payload) == [c EXCEPT !.shares = With(@, from, payload)]

\* compute_xor_share refuses when the key of another participant is missing.
HasKeys(n, parts) == parts \ {n} \subseteq Known[n]
XorShare(parts, msg) == [parts |-> parts, msg |-> msg]

\* The pad of a pair is in the share of each of the two that named the other.
PadsCancel(shares) ==
    \A a, b \in Node :
        (a \in DOMAIN shares /\ b \in shares[a].parts \ {a}) =>
            (b \in DOMAIN shares /\ a \in shares[b].parts)

Carriers(shares) == {a \in DOMAIN shares : shares[a].msg # None}

\* unpad_message: the sum of no message, or of several, fails the checksum.
UnpadMessage(shares) ==
    IF Cardinality(Carriers(shares)) = 1 THEN shares[CHOOSE a \in Carriers(shares) : TRUE].msg ELSE None

\* XOR of all shares, then unpad_message; noise fails the checksum.
Extract(shares) == IF PadsCancel(shares) THEN UnpadMessage(shares) ELSE None

DcRoundStart(n, p, id, channel, parts) ==
    [kind |-> "start", to |-> p, id |-> id, channel |-> channel, initiator |-> n, parts |-> parts]

StartsTo(n, id, channel, parts) == {DcRoundStart(n, p, id, channel, parts) : p \in parts \ {n}}

DcRoundShare(n, p, id, channel, signed, payload) ==
    [kind |-> "share", to |-> p, id |-> id, channel |-> channel,
     from |-> n, signed |-> signed, payload |-> payload]

SharesTo(n, id, channel, signed, parts, payload) ==
    {DcRoundShare(n, p, id, channel, signed, payload) : p \in parts \ {n}}

----------------------------------------------------------------------------
(* RoundDriver.  Each operator takes a driver and returns the driver that  *)
(* the method leaves behind; those that also produce objects return them   *)
(* as out.  log is a history field: the rounds the driver initiated.       *)

NewDriver ==
    [current |-> 0, collectors |-> Empty, emitted |-> {}, queue |-> <<>>,
     pending |-> None, pendingRound |-> None, retries |-> 0, myShare |-> None,
     shareOut |-> FALSE, outbox |-> {}, retryAfter |-> None, log |-> {}]

\* The id is consumed before the keys are looked up, and the round is pending
\* before DcRoundStart::new refuses the channel.
Initiate(d, n, channel, msg, parts) ==
    LET id == NextRound(d.current, Clock(n))
        begun == [d EXCEPT
            !.current = id,
            !.collectors = With(@, id, NewCollector(channel, n, parts)),
            !.pending = msg,
            !.pendingRound = id,
            !.myShare = [payload |-> XorShare(parts, msg), signed |-> channel],
            !.shareOut = FALSE,
            !.retries = 0,
            !.log = @ \cup {[id |-> id, msg |-> msg, channel |-> channel]}]
    IN  CASE Cardinality(parts) \notin 2..MaxParts \/ n \notin parts ->
                [d |-> d, out |-> {}]
          [] Cardinality(parts) \in 2..MaxParts /\ n \in parts /\ ~HasKeys(n, parts) ->
                [d |-> [d EXCEPT !.current = id], out |-> {}]
          [] OTHER ->
                [d |-> begun,
                 out |-> IF channel \in ValidChannel
                         THEN StartsTo(n, id, channel, parts) ELSE {}]

\* The queue's head is gone whether or not the round could start.
InitiateNext(d, n, parts) ==
    IF d.queue = <<>> THEN [d |-> d, out |-> {}]
    ELSE LET msg == Head(d.queue)
         IN  Initiate([d EXCEPT !.queue = Tail(@)], n, ChannelOf[msg], msg, parts)

AbortPendingRound(d) ==
    [d EXCEPT !.collectors = Without(@, {d.pendingRound}), !.pendingRound = None,
              !.myShare = None, !.shareOut = FALSE]

\* Mutant: the completed round stays the pending one.
SettleKeepingRound(d, ok) == [d EXCEPT !.pending = IF ok THEN None ELSE @]
\* Mutant: the message stays after its round.
SettleKeepingMessage(d, ok) ==
    [d EXCEPT !.pendingRound = None, !.myShare = None, !.shareOut = FALSE]
\* Our own round completed: done when the message came out of it.
Settle(d, ok) ==
    [d EXCEPT !.pendingRound = None, !.myShare = None, !.shareOut = FALSE,
              !.pending = IF ok THEN None ELSE @]

\* Mutant: no retry.
GiveUp(d, n, channel, parts) == [d EXCEPT !.pending = None]
RetryPendingWith(d, n, channel, parts) ==
    LET counted == [d EXCEPT !.retries = @ + 1]
        again == Initiate(counted, n, channel, d.pending, parts)
    IN  CASE d.retries >= MaxRetries -> [d EXCEPT !.pending = None]
          [] d.retries < MaxRetries /\ d.pending = None -> counted
          [] OTHER -> [again.d EXCEPT !.outbox = @ \cup again.out]

\* Mutant: the message is dropped with the lost tie-break.
ForgetAfterPeer(d, n, id, c) ==
    IF d.retryAfter = id THEN [d EXCEPT !.retryAfter = None, !.pending = None] ELSE d
\* The round that beat ours is over: try ours again.
ResumeAfterPeer(d, n, id, c) ==
    LET resumed == [d EXCEPT !.retryAfter = None]
    IN  CASE d.retryAfter # id -> d
          [] d.retryAfter = id /\ d.pending = None -> resumed
          [] OTHER -> RetryPendingWith(resumed, n, c.channel, c.parts)

ExpireRound(d, n, id) ==
    LET c == d.collectors[id]
        dropped == [d EXCEPT !.collectors = Without(@, {id})]
        retried == IF d.pendingRound = id
                   THEN RetryPendingWith(AbortPendingRound(dropped), n, c.channel, c.parts)
                   ELSE dropped
    IN  ResumeAfterPeer(retried, n, id, c)

\* The collectors of ids leave in any order (a HashMap's), and a collector that
\* is neither our round's nor the winner's we wait for does nothing else.
ExpireRounds(d, n, ids) ==
    LET plain == ids \ {d.pendingRound, d.retryAfter}
        swept == [d EXCEPT !.collectors = Without(@, plain)]
        expire(e, id) ==
            IF id \in ids \cap DOMAIN e.collectors THEN ExpireRound(e, n, id) ELSE e
    IN  {expire(expire(swept, d.pendingRound), d.retryAfter),
         expire(expire(swept, d.retryAfter), d.pendingRound)}

\* Mutant: abandoned rounds are blamed too.
BlamedAnyway(n, c) == Missing(c) \ {n}
\* Whom an expired collector is reported against.
Blamed(n, c) ==
    IF c.initiator = n /\ DOMAIN c.shares = {} THEN {} ELSE Missing(c) \ {n}

OnStart(d, n, s) ==
    LET fresh == MarkSeen(d.current, s.id, Clock(n))
        loses == d.pendingRound = s.id /\ s.initiator < n
        seen == IF fresh THEN [d EXCEPT !.current = s.id]
                ELSE [AbortPendingRound(d) EXCEPT !.retryAfter = s.id]
        share == XorShare(s.parts, None)
        collector == Submit(NewCollector(s.channel, s.initiator, s.parts), n, share)
    IN  CASE Cardinality(DOMAIN d.collectors) >= MaxCollectors \/ ~(fresh \/ loses) ->
                [d |-> d, out |-> {}]
          [] OTHER ->
                IF n \in s.parts /\ HasKeys(n, s.parts)
                THEN [d |-> [seen EXCEPT !.collectors = With(@, s.id, collector)],
                      out |-> SharesTo(n, s.id, s.channel, s.channel, s.parts, share)]
                ELSE [d |-> seen, out |-> {}]

\* The signature of a known peer, over the channel the share names.
VerifyShare(n, s) == s.from \in Known[n] /\ s.signed = s.channel

\* verify_share and submit_share.
Admissible(d, n, s) ==
    /\ VerifyShare(n, s)
    /\ s.id \in DOMAIN d.collectors
    /\ s.from \in Missing(d.collectors[s.id])

\* The last share of a round has been collected in c.
CompleteRound(d, n, s, c) ==
    LET msg == Extract(c.shares)
        mine == d.pendingRound = s.id
        ok == msg # None /\ s.id \notin d.emitted
        closed == [d EXCEPT !.collectors = Without(@, {s.id}),
                            !.emitted = IF msg = None THEN @ ELSE @ \cup {s.id}]
        settled == Settle(closed, ok)
        own == CASE ~mine -> closed
                 [] mine /\ ok -> settled
                 [] OTHER -> RetryPendingWith(settled, n, c.channel, c.parts)
    IN  [d |-> ResumeAfterPeer(own, n, s.id, c),
         extracted |-> IF ok THEN {[node |-> n, id |-> s.id, channel |-> s.channel, msg |-> msg]}
                       ELSE {},
         completed |-> c.parts \ {n}]

\* Our own share goes out under the channel of the share that came last, with
\* the signature made for the channel the round was announced on.
OnShare(d, n, s) ==
    LET c == Submit(d.collectors[s.id], s.from, s.payload)
        last == /\ d.pendingRound = s.id
                /\ ~d.shareOut
                /\ AllOthersArrived(c, n)
                /\ d.myShare # None
        full == IF last THEN Submit(c, n, d.myShare.payload) ELSE c
        kept == [d EXCEPT !.collectors[s.id] = full, !.shareOut = @ \/ last]
        done == IF Missing(full) = {} THEN CompleteRound(kept, n, s, full)
                ELSE [d |-> kept, extracted |-> {}, completed |-> {}]
    IN  [d |-> done.d, extracted |-> done.extracted, completed |-> done.completed,
         out |-> IF last
                 THEN SharesTo(n, s.id, s.channel, d.myShare.signed, c.parts, d.myShare.payload)
                 ELSE {}]

----------------------------------------------------------------------------
(* ReputationTracker *)

NewReputation == [strikes |-> [p \in Node |-> 0], evicted |-> {}]

\* blame[p]: how many of the failures of this tick name p.
Penalize(r, blame) ==
    LET strikes == [p \in Node |-> r.strikes[p] + blame[p]]
    IN  [strikes |-> strikes,
         evicted |-> r.evicted \cup {p \in Node : blame[p] > 0 /\ strikes[p] >= MaxStrikes}]

Reward(r, peers) ==
    [r EXCEPT !.strikes = [p \in Node |-> IF p \in peers THEN 0 ELSE @[p]]]

----------------------------------------------------------------------------
(* The scheduler: anon.rs *)

\* Sorted, cut to the protocol maximum, with ourselves put back when cut off.
Participants(n, evicted) ==
    LET all == {n} \cup ((Link[n] \ evicted) \cap Trusted[n])
        low == {p \in all : Cardinality({q \in all : q < p}) < MaxParts}
    IN  IF n \in low THEN low
        ELSE {p \in low : \E q \in low : p < q} \cup {n}

\* try_send fails for a peer without a session, and the object is dropped.
Sendable(n, out) == {o \in out : o.to \in Link[n]}

SharesIn(out) ==
    {[from |-> o.from, id |-> o.id, payload |-> o.payload,
      channel |-> o.channel, signed |-> o.signed] :
        o \in {x \in out : x.kind = "share"}}

Expirable(n) ==
    {id \in DOMAIN driver[n].collectors :
        Synchronous => \A o \in net : o.id # id}

\* Operator input: /anon channel text.
QueueMessage(n, m) ==
    /\ m \notin submitted
    /\ AuthorOf[m] = n
    /\ Patient => driver[n].queue = <<>> /\ driver[n].pending = None
    /\ submitted' = submitted \cup {m}
    /\ driver' = [driver EXCEPT ![n].queue = Append(@, m)]
    /\ UNCHANGED <<reputation, net, now, losses, restarts, sent, delivered>>

\* Expire, penalize, then start the next queued message.
Tick(n) ==
    /\ Expirable(n) # {} \/ driver[n].queue # <<>>
    /\ \E expired \in SUBSET Expirable(n) :
       \E after \in ExpireRounds(driver[n], n, expired) :
        LET blame == [p \in Node |->
                Cardinality({id \in expired : p \in Blamed(n, driver[n].collectors[id])})]
            rep == Penalize(reputation[n], blame)
            parts == Participants(n, rep.evicted)
            next == IF Cardinality(parts) >= 2 THEN InitiateNext(after, n, parts)
                    ELSE [d |-> after, out |-> {}]
        IN  /\ expired # {} \/ next.d # driver[n]
            /\ Cardinality(next.d.log) <= MaxRounds
            /\ driver' = [driver EXCEPT ![n] = next.d]
            /\ reputation' = [reputation EXCEPT ![n] = rep]
            /\ net' = net \cup Sendable(n, next.out)
    /\ UNCHANGED <<now, submitted, losses, restarts, sent, delivered>>

\* Deliver one object: handle, reward, send.
HandleStart(n) ==
    \E s \in {o \in net : o.kind = "start" /\ o.to = n} :
        LET r == OnStart(driver[n], n, s)
            out == r.out \cup r.d.outbox
        IN  /\ driver' = [driver EXCEPT ![n] = [r.d EXCEPT !.outbox = {}]]
            /\ net' = (net \ {s}) \cup Sendable(n, out)
            /\ sent' = sent \cup SharesIn(out)
            /\ UNCHANGED <<reputation, now, submitted, losses, restarts, delivered>>

HandleShare(n) ==
    \E s \in {o \in net : o.kind = "share" /\ o.to = n} :
        LET r == IF Admissible(driver[n], n, s) THEN OnShare(driver[n], n, s)
                 ELSE [d |-> driver[n], out |-> {}, extracted |-> {}, completed |-> {}]
            out == r.out \cup r.d.outbox
        IN  /\ Cardinality(r.d.log) <= MaxRounds
            /\ driver' = [driver EXCEPT ![n] = [r.d EXCEPT !.outbox = {}]]
            /\ reputation' = [reputation EXCEPT ![n] = Reward(@, r.completed)]
            /\ net' = (net \ {s}) \cup Sendable(n, out)
            /\ sent' = sent \cup SharesIn(out)
            /\ delivered' = delivered \cup r.extracted
            /\ UNCHANGED <<now, submitted, losses, restarts>>

\* Control command: reinstate uid.
Reinstate(n, p) ==
    /\ p \in reputation[n].evicted
    /\ reputation' = [reputation EXCEPT ![n].evicted = @ \ {p}, ![n].strikes[p] = 0]
    /\ UNCHANGED <<driver, net, now, submitted, losses, restarts, sent, delivered>>

\* A full writer queue or a broken session loses an object.
Lose ==
    /\ losses < MaxLoss
    /\ \E o \in net : net' = net \ {o}
    /\ losses' = losses + 1
    /\ UNCHANGED <<driver, reputation, now, submitted, restarts, sent, delivered>>

\* Nothing of the driver or of the reputation is on disk; what was in flight to
\* the process goes down with its sessions.  A restart outlasts a clock window.
Restart(n) ==
    /\ restarts < MaxRestarts /\ now < MaxNow
    /\ restarts' = restarts + 1
    /\ now' = now + 1
    /\ driver' = [driver EXCEPT ![n] = [NewDriver EXCEPT !.log = driver[n].log]]
    /\ reputation' = [reputation EXCEPT ![n] = NewReputation]
    /\ net' = {o \in net : o.to # n}
    /\ UNCHANGED <<submitted, losses, sent, delivered>>

AdvanceClock ==
    /\ now < MaxNow
    /\ now' = now + 1
    /\ UNCHANGED <<driver, reputation, net, submitted, losses, restarts, sent, delivered>>

----------------------------------------------------------------------------
Init ==
    /\ driver = [n \in Node |-> NewDriver]
    /\ reputation = [n \in Node |-> NewReputation]
    /\ net = {}
    /\ now = 0
    /\ submitted = {}
    /\ losses = 0
    /\ restarts = 0
    /\ sent = {}
    /\ delivered = {}

Next ==
    \/ \E n \in Node, m \in Msg : QueueMessage(n, m)
    \/ \E n \in Node : Tick(n) \/ HandleStart(n) \/ HandleShare(n) \/ Restart(n)
    \/ \E n, p \in Node : Reinstate(n, p)
    \/ Lose
    \/ AdvanceClock

Spec == Init /\ [][Next]_vars

\* The scheduler ticks forever and the sessions deliver what they carry.
Fairness ==
    \A n \in Node :
        /\ WF_vars(Tick(n))
        /\ WF_vars(HandleStart(n))
        /\ WF_vars(HandleShare(n))

FairSpec == Spec /\ Fairness
----------------------------------------------------------------------------
(* Properties *)

Id == Nat
Payload == [parts : SUBSET Node, msg : Msg \cup {None}]

TypeOK ==
    /\ \A n \in Node : LET d == driver[n] IN
        /\ d.current \in Id
        /\ \A id \in DOMAIN d.collectors : LET c == d.collectors[id] IN
            /\ id \in Id /\ id <= d.current
            /\ c.initiator \in c.parts /\ c.parts \subseteq Node
            /\ DOMAIN c.shares \subseteq c.parts
            /\ \A p \in DOMAIN c.shares : c.shares[p] \in Payload
        /\ d.emitted \subseteq Id
        /\ d.queue \in Seq(Msg)
        /\ d.pending \in Msg \cup {None}
        /\ d.pendingRound = None \/ d.pendingRound \in DOMAIN d.collectors
        /\ d.retries \in 0..MaxRetries
        /\ d.myShare = None \/ d.myShare.payload \in Payload
        /\ d.retryAfter = None \/ d.retryAfter \in Id
    /\ reputation \in [Node -> [strikes : [Node -> Nat], evicted : SUBSET Node]]
    /\ now \in 0..MaxNow /\ losses \in 0..MaxLoss /\ restarts \in 0..MaxRestarts
    /\ submitted \subseteq Msg

\* A node never broadcasts two different shares under one round id: their XOR
\* would strip the pads and show the message and its sender (driver.rs, the
\* loser of a tie-break joins the winner's round under the id it had chosen).
NoSplitShare ==
    \A s, t \in sent : s.from = t.from /\ s.id = t.id => s.payload = t.payload

\* "The initiator broadcasts its own share (which carries the message) last":
\* a share that carries a message is only broadcast once every other
\* participant has broadcast a neutral share of that round.
CarrierLast ==
    \A s \in {x \in sent : x.payload.msg # None} :
        \A p \in s.payload.parts \ {s.from} :
            \E t \in sent : t.from = p /\ t.id = s.id /\ t.payload.msg = None

\* Retries do not deliver twice: a node extracts a message in one round only.
NoDuplicateDelivery ==
    \A x, y \in delivered : x.node = y.node /\ x.msg = y.msg => x = y

\* A message the driver holds has something that will wake it up: a round of
\* ours still collecting, or the winner's round it waits for.
NeverStranded ==
    \A n \in Node : LET d == driver[n] IN
        d.pending # None =>
            \/ d.pendingRound \in DOMAIN d.collectors
            \/ d.retryAfter \in DOMAIN d.collectors

Attempts(m) == Cardinality({e \in driver[AuthorOf[m]].log : e.msg = m})

\* A message leaves its author only by being extracted there, by running out of
\* retries ("Retries before a queued message is dropped") or in a restart.
NoSilentLoss ==
    restarts = 0 => \A m \in submitted : LET d == driver[AuthorOf[m]] IN
        \/ m \in Range(d.queue) \cup {d.pending}
        \/ \E x \in delivered : x.msg = m /\ x.node = AuthorOf[m]
        \/ Attempts(m) > MaxRetries

\* A message is started once and retried at most MAX_CONFLICT_RETRIES times.
RetriesBounded == \A m \in Msg : Attempts(m) <= MaxRetries + 1

\* What is extracted is shown in the channel it was written for.
ChannelFaithful == \A x \in delivered : x.channel = ChannelOf[x.msg]

\* Shares are signed and verified: every share a node broadcasts carries a
\* signature that verifies under the channel it is sent with.
SharesVerify == \A s \in sent : s.signed = s.channel

\* A round of our own that the peer never answered costs it nothing, whatever was
\* lost or late (tick spares abandoned rounds): between two nodes a strike is only
\* ever earned in a round of the peer that expired here without its share.
OwnRoundsBlameless ==
    [][\A n, p \in Node :
        reputation'[n].strikes[p] > reputation[n].strikes[p] =>
            \E id \in DOMAIN driver[n].collectors \ DOMAIN driver'[n].collectors :
                /\ driver[n].collectors[id].initiator # n
                /\ p \in Missing(driver[n].collectors[id])]_vars

\* Every message an operator queues comes out of a round at its author.
EventuallyDelivered ==
    \A m \in Msg : m \in submitted ~>
        \E x \in delivered : x.msg = m /\ x.node = AuthorOf[m]

\* The shares broadcast and the messages extracted, as rounds that carry a message
\* and nodes that show one.
Ideal == INSTANCE AnonymousBroadcast WITH
    Author <- AuthorOf,
    carried <- {[round |-> t.id, msg |-> t.payload.msg] : t \in {x \in sent : x.payload.msg # None}},
    shown <- {[node |-> x.node, round |-> x.id, msg |-> x.msg] : x \in delivered}

\* The rounds of the nodes are an anonymous broadcast: what a collision, a late or a
\* lost object, or a retry does to a round, its message is carried once, by a round of
\* its own, and comes out at its author in the step in which the share leaves.
ImplementsBroadcast == Ideal!Spec
=============================================================================
