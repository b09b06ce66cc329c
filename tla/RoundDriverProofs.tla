------------------------- MODULE RoundDriverProofs -------------------------
(* Rounds of the anonymous layer, for any nodes, topology, clocks and       *)
(* limits: what a driver looks like between two handlers, that a node       *)
(* answers a round with one share and the carrier's goes last, that a       *)
(* message held by a driver is always waiting for something, that its own   *)
(* unanswered rounds cost nobody a strike, that no message is extracted     *)
(* twice by nodes that agree on the participants of a round, that an        *)
(* author keeps its message until it is out of a round or of retries; and   *)
(* that the rounds implement the anonymous broadcast they are meant to be.  *)
EXTENDS RoundDriver, FiniteSetTheorems, SequenceTheorems, TLAPS

Channel == {ChannelOf[m] : m \in Msg}

\* Functions from part of K to V.
Table(K, V) == UNION {[D -> V] : D \in SUBSET K}

Collector ==
    [channel : Channel, initiator : Node, parts : SUBSET Node, shares : Table(Node, Payload)]

\* Every participant but the initiator is told of a round of at least two.
Start ==
    {o \in [kind : {"start"}, to : Node, id : Nat, channel : Channel,
            initiator : Node, parts : SUBSET Node] :
        /\ o.initiator \in o.parts /\ o.to \in o.parts /\ o.to # o.initiator
        /\ Cardinality(o.parts) \in 2..MaxParts}

\* A share goes to those its pads are for.
Share ==
    {o \in [kind : {"share"}, to : Node, id : Nat, channel : Channel,
            from : Node, signed : Channel, payload : Payload] :
        o.to \in o.payload.parts /\ o.to # o.from}

Broadcast ==
    {t \in [from : Node, id : Nat, payload : Payload, channel : Channel, signed : Channel] :
        Cardinality(t.payload.parts) \in 2..MaxParts}

\* What the share of an initiator holds.
Carrier == [parts : SUBSET Node, msg : Msg]

Driver ==
    [current : Nat, collectors : Table(Nat, Collector), emitted : SUBSET Nat,
     queue : Seq(Msg), pending : Msg \cup {None}, pendingRound : Nat \cup {None},
     retries : 0..MaxRetries,
     myShare : [payload : Carrier, signed : Channel] \cup {None},
     shareOut : BOOLEAN, outbox : SUBSET Start, retryAfter : Nat \cup {None},
     log : SUBSET [id : Nat, msg : Msg, channel : Channel]]

\* A collector of n: n is in the round, its own round has no share of it, and
\* what it put into the round of another is neutral.
Proper(n, c) ==
    /\ n \in c.parts /\ c.initiator \in c.parts
    /\ Cardinality(c.parts) \in 2..MaxParts
    /\ DOMAIN c.shares \subseteq c.parts
    /\ c.initiator = n => n \notin DOMAIN c.shares
    /\ n \in DOMAIN c.shares => c.shares[n].msg = None

\* The pending round is collecting, and the share it waits to send is for it.
Ready(d) ==
    /\ d.pendingRound \in DOMAIN d.collectors
    /\ d.myShare.payload.parts = d.collectors[d.pendingRound].parts

Fit(n, d) ==
    /\ d \in Driver
    /\ IsFiniteSet(DOMAIN d.collectors)
    /\ \A id \in DOMAIN d.collectors : id <= d.current /\ Proper(n, d.collectors[id])
    /\ d.pendingRound # None => Ready(d)

\* From d to e a driver drops rounds and begins later ones of its own.
Moves(d, e) ==
    /\ d.current <= e.current
    /\ \A id \in DOMAIN e.collectors :
        \/ id \in DOMAIN d.collectors /\ e.collectors[id] = d.collectors[id]
        \/ id > d.current /\ e.collectors[id].shares = Empty
    /\ \/ e.pendingRound = None
       \/ e.pendingRound = d.pendingRound
       \/ e.pendingRound > d.current

\* The messages a driver may still put into a round of its own: the one it
\* has taken from the queue, and those queued.
Held(d) == {m \in Msg : d.pending = m \/ (d.myShare # None /\ d.myShare.payload.msg = m)}
Queued(d) == {d.queue[i] : i \in DOMAIN d.queue}

\* From d to e a driver takes up no message and extracts none.
Keeps(d, e) == e.queue = d.queue /\ e.emitted = d.emitted /\ Held(e) \subseteq Held(d)

\* What NeverStranded says of one driver.
Awake(d) ==
    d.pending # None =>
        d.pendingRound \in DOMAIN d.collectors \/ d.retryAfter \in DOMAIN d.collectors

\* n has the key of every node.
AllKeys(n) == Node \ {n} \subseteq Known[n]

----------------------------------------------------------------------------
(* Tables *)

LEMMA TableFacts ==
    ASSUME NEW K, NEW V, NEW f \in Table(K, V)
    PROVE  DOMAIN f \subseteq K /\ \A x \in DOMAIN f : f[x] \in V
BY DEF Table

LEMMA TableWithout ==
    ASSUME NEW K, NEW V, NEW f \in Table(K, V), NEW S
    PROVE  Without(f, S) \in Table(K, V)
<1>1. PICK D \in SUBSET K : f \in [D -> V] BY DEF Table
<1>2. D \ S \in SUBSET K /\ Without(f, S) \in [D \ S -> V] BY <1>1 DEF Without
<1> QED BY <1>1, <1>2 DEF Table

LEMMA TableWith ==
    ASSUME NEW K, NEW V, NEW f \in Table(K, V), NEW x \in K, NEW v \in V
    PROVE  With(f, x, v) \in Table(K, V)
<1>1. PICK D \in SUBSET K : f \in [D -> V] BY DEF Table
<1>2. D \cup {x} \in SUBSET K /\ With(f, x, v) \in [D \cup {x} -> V] BY <1>1 DEF With
<1> QED BY <1>1, <1>2 DEF Table

LEMMA TableUpdate ==
    ASSUME NEW K, NEW V, NEW f \in Table(K, V), NEW x \in DOMAIN f, NEW v
    PROVE  [f EXCEPT ![x] = v] = With(f, x, v)
BY DEF Table, With

LEMMA EmptyTable == \A K, V : Empty \in Table(K, V) /\ DOMAIN Empty = {}
<1> TAKE K, V
<1>1. Empty \in [{} -> V] /\ {} \in SUBSET K BY DEF Empty
<1> QED BY <1>1 DEF Table

LEMMA MultNat == \A i, j \in Nat : i * j \in Nat
OBVIOUS

----------------------------------------------------------------------------
(* Moves *)

LEMMA MovesOnward ==
    ASSUME NEW n, NEW d, NEW e, NEW f, Fit(n, d), Fit(n, e), Fit(n, f), Moves(d, e), Moves(e, f)
    PROVE  Moves(d, f)
<1>1. /\ d.current \in Nat /\ e.current \in Nat /\ f.current \in Nat
      /\ e.pendingRound \in Nat \cup {None} /\ f.pendingRound \in Nat \cup {None}
      /\ \A id \in DOMAIN f.collectors : id \in Nat
      BY TableFacts DEF Fit, Driver
<1>2. d.current <= f.current BY <1>1 DEF Moves
<1>3. ASSUME NEW id \in DOMAIN f.collectors
      PROVE  \/ id \in DOMAIN d.collectors /\ f.collectors[id] = d.collectors[id]
             \/ id > d.current /\ f.collectors[id].shares = Empty
      BY <1>1, <1>3 DEF Moves
<1>4. \/ f.pendingRound = None
      \/ f.pendingRound = d.pendingRound
      \/ f.pendingRound > d.current
      BY <1>1 DEF Moves
<1> QED BY <1>2, <1>3, <1>4 DEF Moves

LEMMA KeepsOnward ==
    ASSUME NEW d, NEW e, NEW f, Keeps(d, e), Keeps(e, f)
    PROVE  Keeps(d, f)
BY DEF Keeps

LEMMA Initiated ==
    ASSUME NEW n \in Node, NEW d, Fit(n, d), now \in Nat, NEW channel \in Channel, NEW msg \in Msg,
           NEW parts \in SUBSET Node, NEW r, r = Initiate(d, n, channel, msg, parts)
    PROVE  /\ Fit(n, r.d) /\ Moves(d, r.d)
           /\ r.out \subseteq Start
           /\ (n \in parts /\ Cardinality(parts) \in 2..MaxParts /\ AllKeys(n)) => Awake(r.d)
           /\ Awake(d) => Awake(r.d)
           /\ r.d.queue = d.queue /\ r.d.emitted = d.emitted /\ Held(r.d) \subseteq Held(d) \cup {msg}
<1> DEFINE id == NextRound(d.current, Clock(n))
           c == NewCollector(channel, n, parts)
           mine == [payload |-> XorShare(parts, msg), signed |-> channel]
<1>1. d.current \in Nat /\ d \in Driver BY DEF Fit, Driver
<1>2. id \in Nat /\ id > d.current
  <2>1. Clock(n) \in Nat
    <3>1. now + Offset[n] \in Nat BY ClockAssumption
    <3> QED BY <3>1, ClockAssumption, MultNat DEF Clock
  <2> QED BY <1>1, <2>1 DEF NextRound
<1>3. c \in Collector /\ c.parts = parts /\ c.shares = Empty /\ c.initiator = n
  BY EmptyTable DEF NewCollector, Collector
<1>4. /\ mine \in [payload : Carrier, signed : Channel] /\ mine.payload.parts = parts
      /\ mine.payload.msg = msg
  BY DEF XorShare, Carrier
<1>5. 0 \in 0..MaxRetries BY LimitsAssumption
<1> HIDE DEF id, c, mine
<1> DEFINE shut == [d EXCEPT !.current = id]
           begun == [shut EXCEPT
               !.collectors = With(@, id, c), !.pending = msg, !.pendingRound = id,
               !.myShare = mine, !.shareOut = FALSE, !.retries = 0,
               !.log = @ \cup {[id |-> id, msg |-> msg, channel |-> channel]}]
           out == IF channel \in ValidChannel THEN StartsTo(n, id, channel, parts) ELSE {}
<1>6. CASE r = [d |-> d, out |-> {}] /\ ~(n \in parts /\ Cardinality(parts) \in 2..MaxParts)
  <2>1. \A x \in DOMAIN d.collectors : d.collectors[x] = d.collectors[x] OBVIOUS
  <2> QED BY <1>1, <1>6, <2>1 DEF Moves
<1>7. CASE r = [d |-> shut, out |-> {}] /\ ~HasKeys(n, parts)
  <2>1. /\ shut \in Driver /\ shut.current = id /\ shut.collectors = d.collectors
        /\ shut.pendingRound = d.pendingRound /\ shut.pending = d.pending
        /\ shut.myShare = d.myShare /\ shut.retryAfter = d.retryAfter
        /\ shut.queue = d.queue /\ shut.emitted = d.emitted
        BY <1>1, <1>2 DEF Driver
  <2> HIDE DEF shut
  <2>2. \A x \in DOMAIN d.collectors : x \in Nat BY <1>1, TableFacts DEF Driver
  <2>3. Fit(n, shut) BY <1>1, <1>2, <2>1, <2>2 DEF Fit, Ready
  <2>4. Moves(d, shut) BY <1>1, <1>2, <2>1 DEF Moves
  <2>5. Awake(d) => Awake(shut) BY <2>1 DEF Awake
  <2>6. ~AllKeys(n) BY <1>7 DEF AllKeys, HasKeys
  <2>7. Held(shut) = Held(d) BY <2>1 DEF Held
  <2> QED BY <1>7, <2>1, <2>3, <2>4, <2>5, <2>6, <2>7
<1>8. CASE r = [d |-> begun, out |-> out] /\ n \in parts /\ Cardinality(parts) \in 2..MaxParts
  <2>0. d.collectors \in Table(Nat, Collector) BY <1>1 DEF Driver
  <2>1. /\ With(d.collectors, id, c) \in Table(Nat, Collector)
        /\ DOMAIN With(d.collectors, id, c) = DOMAIN d.collectors \cup {id}
        /\ With(d.collectors, id, c)[id] = c
        /\ \A x \in DOMAIN d.collectors \ {id} : With(d.collectors, id, c)[x] = d.collectors[x]
    <3>1. With(d.collectors, id, c) \in Table(Nat, Collector) BY <1>2, <1>3, <2>0, TableWith
    <3> QED BY <3>1 DEF With
  <2>2. [id |-> id, msg |-> msg, channel |-> channel] \in [id : Nat, msg : Msg, channel : Channel]
        BY <1>2
  <2>3. /\ begun \in Driver /\ begun.current = id
        /\ begun.collectors = With(d.collectors, id, c)
        /\ begun.pendingRound = id /\ begun.myShare = mine /\ begun.pending = msg
        /\ begun.queue = d.queue /\ begun.emitted = d.emitted
        BY <1>1, <1>2, <1>4, <1>5, <2>1, <2>2 DEF Driver
  <2> HIDE DEF begun
  <2>4. \A x \in DOMAIN d.collectors : x \in Nat /\ x <= d.current
        BY <1>1, <2>0, TableFacts DEF Fit
  <2>5. Proper(n, c) BY <1>3, <1>8, EmptyTable DEF Proper
  <2>6. \A x \in DOMAIN begun.collectors :
            /\ x <= begun.current /\ Proper(n, begun.collectors[x])
            /\ \/ x \in DOMAIN d.collectors /\ begun.collectors[x] = d.collectors[x]
               \/ x > d.current /\ begun.collectors[x].shares = Empty
    <3> TAKE x \in DOMAIN begun.collectors
    <3>1. CASE x = id BY <1>1, <1>2, <1>3, <2>1, <2>3, <2>5, <3>1
    <3>2. CASE x # id
      <4>1. x \in DOMAIN d.collectors /\ begun.collectors[x] = d.collectors[x]
            BY <2>1, <2>3, <3>2
      <4>2. x <= begun.current BY <1>1, <1>2, <2>3, <2>4, <4>1
      <4> QED BY <4>1, <4>2 DEF Fit
    <3> QED BY <3>1, <3>2
  <2>7. IsFiniteSet(DOMAIN begun.collectors) BY <2>1, <2>3, FS_AddElement DEF Fit
  <2>8. Ready(begun) BY <1>3, <1>4, <2>1, <2>3 DEF Ready
  <2>9. Fit(n, begun) BY <2>3, <2>6, <2>7, <2>8 DEF Fit
  <2>10. Moves(d, begun) BY <1>1, <1>2, <2>3, <2>6 DEF Moves
  <2>11. Awake(begun) BY <2>1, <2>3 DEF Awake
  <2>12. out \subseteq Start
    <3>1. ASSUME NEW p \in parts \ {n}
          PROVE  DcRoundStart(n, p, id, channel, parts) \in Start
          BY <1>2, <1>8 DEF DcRoundStart, Start
    <3> QED BY <3>1 DEF StartsTo
  <2>13. Held(begun) \subseteq {msg} BY <1>4, <2>3 DEF Held
  <2> QED BY <1>8, <2>3, <2>9, <2>10, <2>11, <2>12, <2>13
<1>9. \/ r = [d |-> d, out |-> {}] /\ ~(n \in parts /\ Cardinality(parts) \in 2..MaxParts)
      \/ r = [d |-> shut, out |-> {}] /\ ~HasKeys(n, parts)
      \/ r = [d |-> begun, out |-> out] /\ n \in parts /\ Cardinality(parts) \in 2..MaxParts
  BY DEF Initiate, id, c, mine
<1> QED BY <1>6, <1>7, <1>8, <1>9

LEMMA Drops ==
    ASSUME NEW n, NEW d, Fit(n, d), NEW S, NEW e \in Driver,
           e.collectors = Without(d.collectors, S), e.current = d.current,
           \/ e.pendingRound = None
           \/ /\ e.pendingRound = d.pendingRound /\ d.pendingRound \notin S
              /\ e.myShare = d.myShare
    PROVE  /\ Fit(n, e) /\ Moves(d, e)
           /\ DOMAIN e.collectors = DOMAIN d.collectors \ S
<1>1. /\ d \in Driver /\ d.current \in Nat
      /\ DOMAIN e.collectors = DOMAIN d.collectors \ S
      /\ \A id \in DOMAIN e.collectors : e.collectors[id] = d.collectors[id]
  <2>1. d \in Driver /\ d.current \in Nat BY DEF Fit, Driver
  <2>2. /\ DOMAIN e.collectors = DOMAIN d.collectors \ S
        /\ \A id \in DOMAIN d.collectors \ S : e.collectors[id] = d.collectors[id]
        BY DEF Without
  <2> QED BY <2>1, <2>2
<1>2. IsFiniteSet(DOMAIN e.collectors) BY <1>1, FS_Subset DEF Fit
<1>3. Fit(n, e) BY <1>1, <1>2 DEF Fit, Ready
<1>4. Moves(d, e) BY <1>1 DEF Moves
<1> QED BY <1>1, <1>3, <1>4

LEMMA Retried ==
    ASSUME NEW n \in Node, NEW d, Fit(n, d), now \in Nat, NEW c \in Collector, Proper(n, c),
           NEW e, e = RetryPendingWith(d, n, c.channel, c.parts)
    PROVE  Fit(n, e) /\ Moves(d, e) /\ Keeps(d, e) /\ (AllKeys(n) => Awake(e))
<1>1. /\ d \in Driver /\ d.current \in Nat /\ d.pending \in Msg \cup {None}
      /\ d.retries \in 0..MaxRetries /\ MaxRetries \in Nat
      BY LimitsAssumption DEF Fit, Driver
<1>2. /\ c.channel \in Channel /\ c.parts \in SUBSET Node /\ n \in c.parts
      /\ Cardinality(c.parts) \in 2..MaxParts
      BY DEF Collector, Proper
<1> DEFINE given == [d EXCEPT !.pending = None]
           counted == [d EXCEPT !.retries = @ + 1]
           again == Initiate(counted, n, c.channel, d.pending, c.parts)
           begun == [again.d EXCEPT !.outbox = @ \cup again.out]
<1>3. CASE e = given
  <2>1. /\ given \in Driver /\ given.current = d.current /\ given.collectors = d.collectors
        /\ given.pendingRound = d.pendingRound /\ given.myShare = d.myShare
        /\ given.pending = None /\ given.queue = d.queue /\ given.emitted = d.emitted
        BY <1>1 DEF Driver
  <2>2. Keeps(d, given) BY <2>1, NodeAssumption DEF Keeps, Held
  <2> QED BY <1>1, <1>3, <2>1, <2>2 DEF Fit, Moves, Ready, Awake
<1>4. ASSUME d.retries < MaxRetries
      PROVE  /\ counted \in Driver /\ counted.current = d.current
             /\ counted.collectors = d.collectors /\ counted.pending = d.pending
             /\ counted.pendingRound = d.pendingRound /\ counted.myShare = d.myShare
             /\ Fit(n, counted) /\ Moves(d, counted) /\ Keeps(d, counted)
  <2>1. d.retries + 1 \in 0..MaxRetries BY <1>1, <1>4
  <2>2. /\ counted \in Driver /\ counted.current = d.current
        /\ counted.collectors = d.collectors /\ counted.pending = d.pending
        /\ counted.pendingRound = d.pendingRound /\ counted.myShare = d.myShare
        /\ counted.queue = d.queue /\ counted.emitted = d.emitted
        BY <1>1, <2>1 DEF Driver
  <2>3. Keeps(d, counted) BY <2>2 DEF Keeps, Held
  <2> QED BY <1>1, <2>2, <2>3 DEF Fit, Moves, Ready
<1>5. CASE e = counted /\ d.retries < MaxRetries /\ d.pending = None
  BY <1>4, <1>5 DEF Awake
<1>6. CASE e = begun /\ d.retries < MaxRetries /\ d.pending # None
  <2>1. d.pending \in Msg BY <1>1, <1>6
  <2> HIDE DEF counted
  <2>2. /\ Fit(n, again.d) /\ Moves(counted, again.d) /\ again.out \subseteq Start
        /\ AllKeys(n) => Awake(again.d)
        /\ again.d.queue = counted.queue /\ again.d.emitted = counted.emitted
        /\ Held(again.d) \subseteq Held(counted) \cup {d.pending}
        BY <1>2, <1>4, <1>6, <2>1, Initiated
  <2> HIDE DEF again
  <2>3. /\ begun \in Driver /\ begun.current = again.d.current
        /\ begun.collectors = again.d.collectors /\ begun.pending = again.d.pending
        /\ begun.pendingRound = again.d.pendingRound /\ begun.myShare = again.d.myShare
        /\ begun.retryAfter = again.d.retryAfter
        /\ begun.queue = again.d.queue /\ begun.emitted = again.d.emitted
        BY <2>2 DEF Fit, Driver
  <2> HIDE DEF begun
  <2>4. Fit(n, begun) BY <2>2, <2>3 DEF Fit, Ready
  <2>5. Moves(counted, begun) BY <2>2, <2>3 DEF Moves
  <2>6. AllKeys(n) => Awake(begun) BY <2>2, <2>3 DEF Awake
  <2>7. Keeps(d, begun)
    <3>1. d.pending \in Held(d) BY <2>1 DEF Held
    <3>2. Held(begun) = Held(again.d) BY <2>3 DEF Held
    <3> QED BY <1>4, <1>6, <2>2, <2>3, <3>1, <3>2 DEF Keeps
  <2> QED BY <1>4, <1>6, <2>4, <2>5, <2>6, <2>7, MovesOnward
<1>7. \/ e = given
      \/ e = counted /\ d.retries < MaxRetries /\ d.pending = None
      \/ e = begun /\ d.retries < MaxRetries /\ d.pending # None
  BY <1>1 DEF RetryPendingWith
<1> QED BY <1>3, <1>5, <1>6, <1>7

LEMMA Resumed ==
    ASSUME NEW n \in Node, NEW d, Fit(n, d), now \in Nat, NEW c \in Collector, Proper(n, c),
           NEW id, NEW e, e = ResumeAfterPeer(d, n, id, c)
    PROVE  /\ Fit(n, e) /\ Moves(d, e) /\ Keeps(d, e)
           /\ AllKeys(n) /\ (Awake(d) \/ d.retryAfter = id) => Awake(e)
<1>1. d \in Driver /\ d.current \in Nat BY DEF Fit, Driver
<1> DEFINE resumed == [d EXCEPT !.retryAfter = None]
<1>2. /\ resumed \in Driver /\ resumed.current = d.current
      /\ resumed.collectors = d.collectors /\ resumed.pending = d.pending
      /\ resumed.pendingRound = d.pendingRound /\ resumed.myShare = d.myShare
      /\ resumed.queue = d.queue /\ resumed.emitted = d.emitted
  BY <1>1 DEF Driver
<1> HIDE DEF resumed
<1>3. Fit(n, resumed) /\ Moves(d, resumed) /\ Keeps(d, resumed)
  BY <1>1, <1>2 DEF Fit, Moves, Ready, Keeps, Held
<1>4. CASE d.retryAfter # id /\ e = d
  BY <1>1, <1>4 DEF Moves, Keeps
<1>5. CASE e = resumed /\ d.pending = None
  BY <1>2, <1>3, <1>5 DEF Awake
<1>6. CASE e = RetryPendingWith(resumed, n, c.channel, c.parts)
  <2>1. Fit(n, e) /\ Moves(resumed, e) /\ Keeps(resumed, e) /\ (AllKeys(n) => Awake(e))
    BY <1>3, <1>6, Retried
  <2>2. Keeps(d, e) BY <1>3, <2>1, KeepsOnward
  <2> QED BY <1>3, <2>1, <2>2, MovesOnward
<1>7. \/ d.retryAfter # id /\ e = d
      \/ e = resumed /\ d.pending = None
      \/ e = RetryPendingWith(resumed, n, c.channel, c.parts)
  BY DEF ResumeAfterPeer, resumed
<1> QED BY <1>4, <1>5, <1>6, <1>7

LEMMA Aborted ==
    ASSUME NEW n \in Node, NEW d, Fit(n, d), NEW e, e = AbortPendingRound(d)
    PROVE  /\ Fit(n, e) /\ Moves(d, e) /\ Keeps(d, e) /\ e.pendingRound = None
           /\ e.current = d.current /\ e.pending = d.pending
           /\ DOMAIN e.collectors = DOMAIN d.collectors \ {d.pendingRound}
<1>1. d \in Driver /\ d.collectors \in Table(Nat, Collector) BY DEF Fit, Driver
<1>2. Without(d.collectors, {d.pendingRound}) \in Table(Nat, Collector) BY <1>1, TableWithout
<1>3. /\ e \in Driver /\ e.current = d.current /\ e.pendingRound = None
      /\ e.pending = d.pending
      /\ e.collectors = Without(d.collectors, {d.pendingRound})
      /\ e.myShare = None /\ e.queue = d.queue /\ e.emitted = d.emitted
  BY <1>1, <1>2 DEF AbortPendingRound, Driver
<1>4. Keeps(d, e) BY <1>3 DEF Keeps, Held
<1> QED BY <1>3, <1>4, Drops

LEMMA Expired ==
    ASSUME NEW n \in Node, NEW d, Fit(n, d), now \in Nat, NEW id \in DOMAIN d.collectors,
           NEW e, e = ExpireRound(d, n, id)
    PROVE  /\ Fit(n, e) /\ Moves(d, e) /\ Keeps(d, e) /\ id \notin DOMAIN e.collectors
           /\ AllKeys(n) /\ Awake(d) => Awake(e)
<1> DEFINE c == d.collectors[id]
           dropped == [d EXCEPT !.collectors = Without(@, {id})]
           aborted == AbortPendingRound(dropped)
<1>1. /\ d \in Driver /\ d.collectors \in Table(Nat, Collector) /\ d.current \in Nat
      /\ d.pendingRound \in Nat \cup {None}
      BY DEF Fit, Driver
<1>2. c \in Collector /\ Proper(n, c) /\ id \in Nat /\ id <= d.current
      BY <1>1, TableFacts DEF Fit
<1>3. Without(d.collectors, {id}) \in Table(Nat, Collector) BY <1>1, TableWithout
<1>4. /\ dropped \in Driver /\ dropped.current = d.current
      /\ dropped.collectors = Without(d.collectors, {id}) /\ dropped.pending = d.pending
      /\ dropped.pendingRound = d.pendingRound /\ dropped.myShare = d.myShare
      /\ dropped.retryAfter = d.retryAfter
      /\ dropped.queue = d.queue /\ dropped.emitted = d.emitted
      BY <1>1, <1>3 DEF Driver
<1> HIDE DEF c, dropped
<1>5. /\ Moves(d, dropped) /\ Keeps(d, dropped)
      /\ DOMAIN dropped.collectors = DOMAIN d.collectors \ {id}
      /\ d.pendingRound # id => Fit(n, dropped)
  <2>1. /\ DOMAIN dropped.collectors = DOMAIN d.collectors \ {id}
        /\ \A x \in DOMAIN dropped.collectors : dropped.collectors[x] = d.collectors[x]
        BY <1>4 DEF Without
  <2>2. Moves(d, dropped) BY <1>1, <1>4, <2>1 DEF Moves
  <2>3. Keeps(d, dropped) BY <1>4 DEF Keeps, Held
  <2> QED BY <1>4, <2>1, <2>2, <2>3, Drops
<1>6. CASE d.pendingRound = id
  <2> USE <1>6
  <2> DEFINE again == RetryPendingWith(aborted, n, c.channel, c.parts)
  <2>1. Without(Without(d.collectors, {id}), {id}) = Without(d.collectors, {id}) BY DEF Without
  <2>2. /\ aborted \in Driver /\ aborted.current = d.current /\ aborted.pendingRound = None
        /\ aborted.collectors = Without(d.collectors, {id}) /\ aborted.pending = d.pending
        /\ aborted.myShare = None /\ aborted.queue = d.queue /\ aborted.emitted = d.emitted
        BY <1>1, <1>3, <1>4, <2>1 DEF AbortPendingRound, Driver
  <2> HIDE DEF aborted
  <2>3. /\ Fit(n, aborted) /\ Moves(d, aborted) /\ Keeps(d, aborted)
        /\ DOMAIN aborted.collectors = DOMAIN d.collectors \ {id}
    <3>1. Keeps(d, aborted) BY <2>2 DEF Keeps, Held
    <3>2. aborted \in Driver /\ aborted.current = d.current
          /\ aborted.collectors = Without(d.collectors, {id})
      BY <2>2
    <3>3. \/ aborted.pendingRound = None
          \/ /\ aborted.pendingRound = d.pendingRound /\ d.pendingRound \notin {id}
             /\ aborted.myShare = d.myShare
      BY <2>2
    <3>4. Fit(n, aborted) /\ Moves(d, aborted) /\ DOMAIN aborted.collectors = DOMAIN d.collectors \ {id}
      BY <3>2, <3>3, Drops, SMTT(60)
    <3> QED BY <3>1, <3>4
  <2>4. Fit(n, again) /\ Moves(aborted, again) /\ Keeps(aborted, again) /\ (AllKeys(n) => Awake(again))
        BY <1>2, <2>3, Retried
  <2>5. e = ResumeAfterPeer(again, n, id, c) BY <1>4 DEF ExpireRound, c, dropped, aborted
  <2> HIDE DEF again
  <2>6. /\ Fit(n, e) /\ Moves(again, e) /\ Keeps(again, e)
        /\ AllKeys(n) /\ (Awake(again) \/ again.retryAfter = id) => Awake(e)
        BY <1>2, <2>4, <2>5, Resumed
  <2>7. Moves(aborted, e) BY <2>3, <2>4, <2>6, MovesOnward
  <2>8. id \notin DOMAIN e.collectors BY <1>1, <1>2, <2>2, <2>3, <2>7 DEF Moves
  <2>9. Moves(d, e) BY <2>3, <2>6, <2>7, MovesOnward
  <2>10. Keeps(d, e) BY <2>3, <2>4, <2>6, KeepsOnward
  <2> QED BY <2>4, <2>6, <2>8, <2>9, <2>10
<1>7. CASE d.pendingRound # id
  <2> USE <1>7
  <2>1. e = ResumeAfterPeer(dropped, n, id, c) BY <1>4 DEF ExpireRound, c, dropped
  <2>2. AllKeys(n) /\ Awake(d) => Awake(dropped) \/ dropped.retryAfter = id
    BY <1>4, <1>5 DEF Awake
  <2>3. /\ Fit(n, e) /\ Moves(dropped, e) /\ Keeps(dropped, e)
        /\ AllKeys(n) /\ (Awake(dropped) \/ dropped.retryAfter = id) => Awake(e)
        BY <1>2, <1>5, <2>1, Resumed
  <2>4. id \notin DOMAIN e.collectors
    <3> SUFFICES ASSUME id \in DOMAIN e.collectors PROVE FALSE OBVIOUS
    <3>1. id \notin DOMAIN dropped.collectors BY <1>5
    <3>2. id > dropped.current BY <2>3, <3>1 DEF Moves
    <3> QED BY <1>1, <1>2, <1>4, <3>2
  <2>5. Moves(d, e) BY <1>5, <2>3, MovesOnward
  <2>6. Keeps(d, e) BY <1>5, <2>3, KeepsOnward
  <2> QED BY <2>2, <2>3, <2>4, <2>5, <2>6
<1> QED BY <1>6, <1>7

LEMMA AllExpired ==
    ASSUME NEW n \in Node, NEW d, Fit(n, d), now \in Nat, NEW ids \in SUBSET DOMAIN d.collectors,
           NEW e \in ExpireRounds(d, n, ids)
    PROVE  /\ Fit(n, e) /\ Moves(d, e) /\ Keeps(d, e) /\ ids \cap DOMAIN e.collectors = {}
           /\ AllKeys(n) /\ Awake(d) => Awake(e)
<1> DEFINE plain == ids \ {d.pendingRound, d.retryAfter}
           swept == [d EXCEPT !.collectors = Without(@, plain)]
           expire(f, id) == IF id \in ids \cap DOMAIN f.collectors THEN ExpireRound(f, n, id) ELSE f
           Gone(f) == /\ Fit(n, f) /\ Moves(d, f) /\ Keeps(d, f)
                      /\ AllKeys(n) /\ Awake(d) => Awake(f)
<1>1. /\ d \in Driver /\ d.collectors \in Table(Nat, Collector) /\ d.current \in Nat
      /\ \A id \in DOMAIN d.collectors : id \in Nat /\ id <= d.current
      BY TableFacts DEF Fit, Driver
<1>2. Gone(swept) /\ DOMAIN swept.collectors = DOMAIN d.collectors \ plain
  <2>1. Without(d.collectors, plain) \in Table(Nat, Collector) BY <1>1, TableWithout
  <2>2. /\ swept \in Driver /\ swept.current = d.current
        /\ swept.collectors = Without(d.collectors, plain) /\ swept.pending = d.pending
        /\ swept.pendingRound = d.pendingRound /\ swept.myShare = d.myShare
        /\ swept.retryAfter = d.retryAfter
        /\ swept.queue = d.queue /\ swept.emitted = d.emitted
        BY <1>1, <2>1 DEF Driver
  <2> HIDE DEF swept
  <2>3. d.pendingRound \notin plain /\ d.retryAfter \notin plain OBVIOUS
  <2> HIDE DEF plain
  <2>4. Fit(n, swept) /\ Moves(d, swept) /\ DOMAIN swept.collectors = DOMAIN d.collectors \ plain
    <3>1. \/ swept.pendingRound = None
          \/ /\ swept.pendingRound = d.pendingRound /\ d.pendingRound \notin plain
             /\ swept.myShare = d.myShare
          BY <2>2, <2>3
    <3>2. swept \in Driver /\ swept.current = d.current
          /\ swept.collectors = Without(d.collectors, plain)
          BY <2>2
    <3> QED BY <3>1, <3>2, Drops
  <2>5. Awake(d) => Awake(swept) BY <2>2, <2>3, <2>4 DEF Awake
  <2>6. Keeps(d, swept) BY <2>2 DEF Keeps, Held
  <2> QED BY <2>4, <2>5, <2>6
<1>3. ASSUME NEW f, Gone(f), NEW id
      PROVE  /\ Gone(expire(f, id))
             /\ id \in ids => id \notin DOMAIN expire(f, id).collectors
             /\ \A x \in ids : x \notin DOMAIN f.collectors => x \notin DOMAIN expire(f, id).collectors
  <2>1. CASE id \in ids \cap DOMAIN f.collectors
    <3> DEFINE g == ExpireRound(f, n, id)
    <3>1. expire(f, id) = g BY <2>1
    <3>2. /\ Fit(n, g) /\ Moves(f, g) /\ Keeps(f, g) /\ id \notin DOMAIN g.collectors
          /\ AllKeys(n) /\ Awake(f) => Awake(g)
          BY <1>3, <2>1, Expired
    <3> HIDE DEF g
    <3>3. f.current \in Nat /\ d.current <= f.current BY <1>3 DEF Fit, Driver, Moves
    <3>4. \A x \in ids : x \notin DOMAIN f.collectors => x \notin DOMAIN g.collectors
          BY <1>1, <3>2, <3>3 DEF Moves
    <3>5. Moves(d, g) BY <1>3, <3>2, MovesOnward
    <3>6. Keeps(d, g) BY <1>3, <3>2, KeepsOnward
    <3> QED BY <1>3, <3>1, <3>2, <3>4, <3>5, <3>6
  <2>2. CASE id \notin ids \cap DOMAIN f.collectors
    <3>1. expire(f, id) = f BY <2>2
    <3> QED BY <1>3, <2>2, <3>1
  <2> QED BY <2>1, <2>2
<1>4. \/ e = expire(expire(swept, d.pendingRound), d.retryAfter)
      \/ e = expire(expire(swept, d.retryAfter), d.pendingRound)
  BY DEF ExpireRounds
<1>5. \A x \in plain : x \in ids /\ x \notin DOMAIN swept.collectors BY <1>2
<1>6. \A x \in ids : x \in plain \/ x = d.pendingRound \/ x = d.retryAfter OBVIOUS
<1> HIDE DEF plain, swept, expire, Gone
<1>7. ASSUME NEW a, NEW b, e = expire(expire(swept, a), b),
             \A x \in ids : x \in plain \/ x = a \/ x = b
      PROVE  Gone(e) /\ ids \cap DOMAIN e.collectors = {}
  <2>1. PICK f : f = expire(swept, a) OBVIOUS
  <2>2. /\ Gone(f)
        /\ a \in ids => a \notin DOMAIN f.collectors
        /\ \A x \in ids : x \notin DOMAIN swept.collectors => x \notin DOMAIN f.collectors
        BY <1>2, <1>3, <2>1
  <2>3. e = expire(f, b) BY <1>7, <2>1
  <2>4. /\ Gone(e)
        /\ b \in ids => b \notin DOMAIN e.collectors
        /\ \A x \in ids : x \notin DOMAIN f.collectors => x \notin DOMAIN e.collectors
        BY <1>3, <2>2, <2>3
  <2>5. ASSUME NEW x \in ids PROVE x \notin DOMAIN e.collectors
    <3>1. CASE x \in plain BY <1>5, <2>2, <2>4, <3>1
    <3>2. CASE x = a BY <2>2, <2>4, <3>2
    <3>3. CASE x = b BY <2>4, <3>3
    <3> QED BY <1>7, <3>1, <3>2, <3>3
  <2> QED BY <2>4, <2>5
<1> QED BY <1>4, <1>6, <1>7 DEF Gone

----------------------------------------------------------------------------
(* Handlers *)

LEMMA Submits ==
    ASSUME NEW c \in Collector, NEW p \in Node, NEW payload \in Payload
    PROVE  LET e == Submit(c, p, payload)
           IN  /\ e \in Collector /\ e.parts = c.parts /\ e.channel = c.channel
               /\ e.initiator = c.initiator
               /\ DOMAIN e.shares = DOMAIN c.shares \cup {p}
               /\ e.shares[p] = payload
               /\ \A q \in DOMAIN c.shares \ {p} : e.shares[q] = c.shares[q]
<1> DEFINE e == Submit(c, p, payload)
<1>1. c.shares \in Table(Node, Payload) BY DEF Collector
<1>2. With(c.shares, p, payload) \in Table(Node, Payload) BY <1>1, TableWith
<1>3. /\ e \in Collector /\ e.parts = c.parts /\ e.channel = c.channel
      /\ e.initiator = c.initiator /\ e.shares = With(c.shares, p, payload)
      BY <1>2 DEF Submit, Collector
<1> HIDE DEF e
<1>4. /\ DOMAIN e.shares = DOMAIN c.shares \cup {p}
      /\ e.shares[p] = payload
      /\ \A q \in DOMAIN c.shares \ {p} : e.shares[q] = c.shares[q]
      BY <1>3 DEF With
<1> QED BY <1>3, <1>4 DEF e

LEMMA Collecting ==
    ASSUME NEW n \in Node, NEW d, Fit(n, d), NEW c \in Collector, Proper(n, c),
           NEW id, id \in Nat, id <= d.current,
           id = d.pendingRound => c.parts = d.collectors[id].parts,
           NEW e \in Driver, e.collectors = With(d.collectors, id, c), e.current = d.current,
           e.pendingRound = d.pendingRound, e.myShare = d.myShare
    PROVE  Fit(n, e)
<1>1. /\ DOMAIN e.collectors = DOMAIN d.collectors \cup {id}
      /\ e.collectors[id] = c
      /\ \A x \in DOMAIN d.collectors \ {id} : e.collectors[x] = d.collectors[x]
      BY DEF With
<1>2. IsFiniteSet(DOMAIN e.collectors) BY <1>1, FS_AddElement DEF Fit
<1>3. \A x \in DOMAIN e.collectors : x <= e.current /\ Proper(n, e.collectors[x]) BY <1>1 DEF Fit
<1>4. e.pendingRound # None => Ready(e) BY <1>1 DEF Fit, Ready
<1> QED BY <1>1, <1>2, <1>3, <1>4 DEF Fit

LEMMA Joined ==
    ASSUME NEW n \in Node, NEW d, Fit(n, d), now \in Nat, NEW s \in Start, s.to = n,
           NEW r, r = OnStart(d, n, s)
    PROVE  /\ Fit(n, r.d) /\ d.current <= r.d.current
           /\ r.d.pendingRound \in {None, d.pendingRound} /\ Keeps(d, r.d)
           /\ \A id \in DOMAIN r.d.collectors :
                \/ id \in DOMAIN d.collectors /\ r.d.collectors[id] = d.collectors[id]
                \/ DOMAIN r.d.collectors[id].shares = {n}
           /\ \/ r.out = {}
              \/ /\ r.out = SharesTo(n, s.id, s.channel, s.channel, s.parts, XorShare(s.parts, None))
                 /\ s.id > d.current \/ s.id = d.pendingRound
                 /\ s.id <= r.d.current /\ s.id # r.d.pendingRound
           /\ AllKeys(n) /\ Awake(d) => Awake(r.d)
<1> DEFINE share == XorShare(s.parts, None)
           blank == NewCollector(s.channel, s.initiator, s.parts)
           collector == Submit(blank, n, share)
           fresh == MarkSeen(d.current, s.id, Clock(n))
           loses == d.pendingRound = s.id /\ s.initiator < n
           reached == [d EXCEPT !.current = s.id]
           aborted == AbortPendingRound(d)
           yields == [aborted EXCEPT !.retryAfter = s.id]
           seen == IF fresh THEN reached ELSE yields
           joins == [seen EXCEPT !.collectors = With(@, s.id, collector)]
           out == SharesTo(n, s.id, s.channel, s.channel, s.parts, share)
<1>1. /\ d \in Driver /\ d.collectors \in Table(Nat, Collector) /\ d.current \in Nat
      /\ d.pendingRound \in Nat \cup {None}
      /\ \A id \in DOMAIN d.collectors : id \in Nat /\ id <= d.current
      BY TableFacts DEF Fit, Driver
<1>2. /\ s.id \in Nat /\ s.channel \in Channel /\ s.initiator \in s.parts
      /\ s.parts \in SUBSET Node /\ n \in s.parts /\ s.initiator # n
      /\ Cardinality(s.parts) \in 2..MaxParts
      BY DEF Start
<1>3. collector \in Collector /\ Proper(n, collector) /\ DOMAIN collector.shares = {n}
  <2>1. /\ blank \in Collector /\ blank.parts = s.parts /\ blank.shares = Empty
        /\ blank.initiator = s.initiator
        BY <1>2, EmptyTable DEF NewCollector, Collector
  <2>2. share \in Payload /\ share.msg = None BY <1>2 DEF XorShare, Payload
  <2> HIDE DEF blank, share
  <2>3. /\ collector \in Collector /\ collector.parts = s.parts
        /\ collector.initiator = s.initiator /\ collector.shares[n] = share
        /\ DOMAIN collector.shares = DOMAIN blank.shares \cup {n}
        BY <2>1, <2>2, Submits
  <2> QED BY <1>2, <2>1, <2>2, <2>3, EmptyTable DEF Proper
<1> HIDE DEF collector, share, blank
<1>5. CASE (fresh \/ loses) /\ ~(Cardinality(DOMAIN d.collectors) >= MaxCollectors)
  <2>1. \/ r = [d |-> joins, out |-> out]
        \/ r = [d |-> seen, out |-> {}] /\ ~HasKeys(n, s.parts)
    <3>1. n \in s.parts BY <1>2
    <3> QED BY <1>5, <3>1 DEF OnStart, fresh, loses, share, collector, blank
  <2>2. /\ Fit(n, seen) /\ d.current <= seen.current /\ s.id <= seen.current
        /\ s.id # seen.pendingRound /\ seen.pendingRound \in {None, d.pendingRound}
        /\ s.id > d.current \/ s.id = d.pendingRound
        /\ \A id \in DOMAIN seen.collectors :
                id \in DOMAIN d.collectors /\ seen.collectors[id] = d.collectors[id]
        /\ seen.pending = d.pending /\ Keeps(d, seen)
        /\ \/ seen.retryAfter = s.id
           \/ /\ seen.retryAfter = d.retryAfter /\ seen.collectors = d.collectors
              /\ seen.pendingRound = d.pendingRound
    <3>1. CASE fresh
      <4>1. d.current < s.id BY <3>1 DEF MarkSeen
      <4>2. /\ reached \in Driver /\ reached.current = s.id /\ reached.collectors = d.collectors
            /\ reached.pendingRound = d.pendingRound /\ reached.myShare = d.myShare
            /\ reached.pending = d.pending /\ reached.retryAfter = d.retryAfter
            /\ reached.queue = d.queue /\ reached.emitted = d.emitted
            BY <1>1, <1>2 DEF Driver
      <4> HIDE DEF reached
      <4>3. \A id \in DOMAIN d.collectors : id <= reached.current BY <1>1, <1>2, <4>1, <4>2
      <4>4. Fit(n, reached) BY <4>2, <4>3 DEF Fit, Ready
      <4>5. d.pendingRound # s.id
        <5>1. d.pendingRound # None => d.pendingRound <= d.current BY <1>1 DEF Fit, Ready
        <5> QED BY <1>1, <1>2, <4>1, <5>1, NodeAssumption
      <4>6. seen = reached BY <3>1
      <4>7. d.current <= s.id BY <1>1, <1>2, <4>1
      <4>8. Keeps(d, reached) BY <4>2 DEF Keeps, Held
      <4> HIDE DEF seen
      <4> QED BY <1>1, <1>2, <4>1, <4>2, <4>4, <4>5, <4>6, <4>7, <4>8
    <3>2. CASE ~fresh /\ loses
      <4>1. s.id \in DOMAIN d.collectors /\ s.id <= d.current
        BY <1>1, <1>2, <3>2, NodeAssumption DEF Fit, Ready
      <4>2. /\ Fit(n, aborted) /\ Moves(d, aborted) /\ Keeps(d, aborted) /\ aborted.pendingRound = None
            /\ aborted.current = d.current /\ aborted.pending = d.pending
            /\ DOMAIN aborted.collectors = DOMAIN d.collectors \ {d.pendingRound}
            BY Aborted
      <4> HIDE DEF aborted
      <4>3. /\ yields \in Driver /\ yields.current = d.current
            /\ yields.collectors = aborted.collectors
            /\ yields.pendingRound = None /\ yields.myShare = aborted.myShare
            /\ yields.pending = aborted.pending /\ yields.retryAfter = s.id
            /\ yields.queue = aborted.queue /\ yields.emitted = aborted.emitted
            BY <1>2, <4>2 DEF Driver, Fit
      <4> HIDE DEF yields
      <4>4. Fit(n, yields) BY <4>2, <4>3 DEF Fit
      <4>5. \A id \in DOMAIN aborted.collectors :
                id \in DOMAIN d.collectors /\ aborted.collectors[id] = d.collectors[id]
        BY <1>1, <4>2 DEF Moves
      <4>6. seen = yields /\ s.id # None BY <1>2, <3>2, NodeAssumption
      <4>7. d.current <= d.current BY <1>1
      <4>8. s.id = d.pendingRound BY <3>2
      <4>9. Keeps(d, yields) BY <4>2, <4>3 DEF Keeps, Held
      <4> HIDE DEF seen
      <4> QED BY <4>1, <4>2, <4>3, <4>4, <4>5, <4>6, <4>7, <4>8, <4>9
    <3> QED BY <1>5, <3>1, <3>2
  <2> HIDE DEF seen, out
  <2>3. CASE r = [d |-> seen, out |-> {}] /\ ~HasKeys(n, s.parts)
    <3>1. ~AllKeys(n) BY <1>2, <2>3 DEF AllKeys, HasKeys
    <3> QED BY <2>2, <2>3, <3>1
  <2>4. CASE r = [d |-> joins, out |-> out]
    <3>1. seen \in Driver /\ seen.collectors \in Table(Nat, Collector) BY <2>2 DEF Fit, Driver
    <3>2. With(seen.collectors, s.id, collector) \in Table(Nat, Collector)
      BY <1>2, <1>3, <3>1, TableWith
    <3>3. /\ joins \in Driver /\ joins.current = seen.current
          /\ joins.collectors = With(seen.collectors, s.id, collector)
          /\ joins.pendingRound = seen.pendingRound /\ joins.myShare = seen.myShare
          /\ joins.pending = seen.pending /\ joins.retryAfter = seen.retryAfter
          /\ joins.queue = seen.queue /\ joins.emitted = seen.emitted
          BY <3>1, <3>2 DEF Driver
    <3> HIDE DEF joins
    <3>4. Fit(n, joins)
      <4>1. collector \in Collector /\ Proper(n, collector) /\ Fit(n, seen) /\ s.id \in Nat
            /\ s.id <= seen.current /\ s.id # seen.pendingRound
            BY <1>2, <1>3, <2>2
      <4> QED BY <3>3, <4>1, Collecting
    <3>5. /\ DOMAIN joins.collectors = DOMAIN seen.collectors \cup {s.id}
          /\ joins.collectors[s.id] = collector
          /\ \A x \in DOMAIN seen.collectors \ {s.id} : joins.collectors[x] = seen.collectors[x]
          BY <3>3 DEF With
    <3>6. Awake(d) => Awake(joins) BY <2>2, <3>3, <3>5 DEF Awake
    <3>7. \A id \in DOMAIN joins.collectors :
               \/ id \in DOMAIN d.collectors /\ joins.collectors[id] = d.collectors[id]
               \/ DOMAIN joins.collectors[id].shares = {n}
          BY <1>3, <2>2, <3>5
    <3>8. r.d = joins /\ r.out = out BY <2>4
    <3>9. /\ d.current <= joins.current /\ s.id <= joins.current /\ s.id # joins.pendingRound
          /\ joins.pendingRound \in {None, d.pendingRound}
          BY <2>2, <3>3
    <3>10. out = SharesTo(n, s.id, s.channel, s.channel, s.parts, XorShare(s.parts, None))
      BY DEF out, share
    <3>11. Keeps(d, joins) BY <2>2, <3>3 DEF Keeps, Held
    <3> HIDE DEF out
    <3> QED BY <2>2, <3>4, <3>6, <3>7, <3>8, <3>9, <3>10, <3>11
  <2> QED BY <2>1, <2>3, <2>4
<1>6. CASE ~(fresh \/ loses) \/ Cardinality(DOMAIN d.collectors) >= MaxCollectors
  <2>1. r = [d |-> d, out |-> {}] BY <1>6 DEF OnStart, fresh, loses
  <2> QED BY <1>1, <2>1 DEF Keeps
<1> QED BY <1>5, <1>6

\* What n takes out of the shares of the round of s, which it has all of.
Yields(n, d, s, shares, r) ==
    /\ r.d.queue = d.queue /\ Held(r.d) \subseteq Held(d)
    /\ \/ r.extracted = {} /\ r.d.emitted = d.emitted
       \/ /\ Extract(shares) # None /\ s.id \notin d.emitted
          /\ s.id <= r.d.current /\ s.id # r.d.pendingRound
          /\ r.d.emitted = d.emitted \cup {s.id}
          /\ r.extracted = {[node |-> n, id |-> s.id, channel |-> s.channel, msg |-> Extract(shares)]}

\* The round of the last share leaves; n may begin another.
RoundEnds(n, d, s, shares, r) ==
    /\ Fit(n, r.d) /\ Moves(d, r.d)
    /\ d.pendingRound = s.id => r.d.pendingRound # s.id
    /\ AllKeys(n) /\ Awake(d) => Awake(r.d)
    /\ Yields(n, d, s, shares, r)
    /\ d.pendingRound = s.id /\ Extract(shares) # None /\ s.id \notin d.emitted =>
            Held(r.d) = {} /\ r.extracted # {}

LEMMA Completed ==
    ASSUME NEW n \in Node, NEW d, Fit(n, d), now \in Nat, NEW s \in Share,
           s.id \in DOMAIN d.collectors,
           NEW full \in Collector, full.parts = d.collectors[s.id].parts,
           full.channel = d.collectors[s.id].channel,
           NEW kept \in Driver, kept.current = d.current, kept.pending = d.pending,
           kept.pendingRound = d.pendingRound, kept.myShare = d.myShare,
           kept.retryAfter = d.retryAfter, kept.queue = d.queue, kept.emitted = d.emitted,
           Without(kept.collectors, {s.id}) = Without(d.collectors, {s.id}),
           NEW r, r = CompleteRound(kept, n, s, full)
    PROVE  RoundEnds(n, d, s, full.shares, r)
<1> DEFINE c == d.collectors[s.id]
           msg == Extract(full.shares)
           ok == msg # None /\ s.id \notin kept.emitted
           closed == [kept EXCEPT !.collectors = Without(@, {s.id}),
                                  !.emitted = IF msg = None THEN @ ELSE @ \cup {s.id}]
           settled == Settle(closed, ok)
           own == CASE d.pendingRound # s.id -> closed
                    [] d.pendingRound = s.id /\ ok -> settled
                    [] OTHER -> RetryPendingWith(settled, n, c.channel, c.parts)
<1>1. /\ d \in Driver /\ d.collectors \in Table(Nat, Collector) /\ d.current \in Nat
      /\ d.pendingRound \in Nat \cup {None}
      BY DEF Fit, Driver
<1>2. c \in Collector /\ Proper(n, c) /\ s.id \in Nat /\ s.id <= d.current /\ s.id # None
      BY <1>1, TableFacts, NodeAssumption DEF Fit
<1>3. Without(d.collectors, {s.id}) \in Table(Nat, Collector) BY <1>1, TableWithout
<1>4. /\ closed \in Driver /\ closed.current = d.current /\ closed.pending = d.pending
      /\ closed.collectors = Without(d.collectors, {s.id})
      /\ closed.pendingRound = d.pendingRound /\ closed.myShare = d.myShare
      /\ closed.retryAfter = d.retryAfter /\ closed.queue = d.queue
      /\ closed.emitted = IF msg = None THEN d.emitted ELSE d.emitted \cup {s.id}
  <2> DEFINE f == IF msg = None THEN kept.emitted ELSE kept.emitted \cup {s.id}
  <2>1. f \in SUBSET Nat BY <1>2 DEF Driver
  <2>2. f = IF msg = None THEN d.emitted ELSE d.emitted \cup {s.id} OBVIOUS
  <2>3. closed = [kept EXCEPT !.collectors = Without(kept.collectors, {s.id}), !.emitted = f]
    OBVIOUS
  <2> HIDE DEF msg, f, closed
  <2>4. closed \in Driver BY <1>3, <2>1, <2>3 DEF Driver
  <2>5. /\ closed.current = d.current /\ closed.pending = d.pending
        /\ closed.collectors = Without(d.collectors, {s.id})
        /\ closed.pendingRound = d.pendingRound /\ closed.myShare = d.myShare
        /\ closed.retryAfter = d.retryAfter /\ closed.queue = d.queue
        /\ closed.emitted = f
    BY <2>3 DEF Driver
  <2> QED BY <2>2, <2>4, <2>5
<1> HIDE DEF closed
<1>5. /\ settled \in Driver /\ settled.current = d.current
      /\ settled.collectors = Without(d.collectors, {s.id})
      /\ settled.pendingRound = None /\ settled.myShare = None
      /\ settled.queue = d.queue /\ settled.emitted = closed.emitted
      /\ settled.pending = IF ok THEN None ELSE d.pending
  <2> HIDE DEF ok
  <2>1. PICK p : p \in Msg \cup {None} /\ (ok => p = None) /\ (~ok => p = closed.pending)
    <3>1. CASE ok BY <3>1
    <3>2. CASE ~ok BY <1>4, <3>2 DEF Driver
    <3> QED BY <3>1, <3>2
  <2>2. settled = [closed EXCEPT !.pendingRound = None, !.myShare = None, !.shareOut = FALSE,
                                 !.pending = p]
    BY <2>1 DEF Settle
  <2> HIDE DEF settled
  <2>3. p = IF ok THEN None ELSE d.pending BY <1>4, <2>1
  <2>4. settled \in Driver BY <1>4, <2>1, <2>2 DEF Driver
  <2>5. /\ settled.current = closed.current /\ settled.collectors = closed.collectors
        /\ settled.pendingRound = None /\ settled.myShare = None
        /\ settled.queue = closed.queue /\ settled.emitted = closed.emitted
        /\ settled.pending = p
    BY <1>4, <2>2 DEF Driver
  <2> QED BY <1>4, <2>3, <2>4, <2>5
<1> HIDE DEF settled, ok
<1>6. /\ r.d = ResumeAfterPeer(own, n, s.id, c)
      /\ r.extracted = IF ok THEN {[node |-> n, id |-> s.id, channel |-> s.channel, msg |-> msg]} ELSE {}
  <2>1. /\ r.d = ResumeAfterPeer(own, n, s.id, full)
        /\ r.extracted = IF ok THEN {[node |-> n, id |-> s.id, channel |-> s.channel, msg |-> msg]} ELSE {}
    BY DEF CompleteRound, closed, settled, ok, msg
  <2> HIDE DEF own
  <2> QED BY <2>1 DEF ResumeAfterPeer
<1>7. DOMAIN Without(d.collectors, {s.id}) = DOMAIN d.collectors \ {s.id} BY DEF Without
<1>8. Fit(n, settled) /\ Moves(d, settled) BY <1>5, Drops
<1>8a. /\ Held(closed) = Held(d) /\ Held(settled) \subseteq Held(d)
       /\ ok => Held(settled) = {}
  <2>1. Held(closed) = Held(d) BY <1>4 DEF Held
  <2>2. Held(settled) \subseteq Held(d) /\ (ok => Held(settled) = {})
    BY <1>5, NodeAssumption DEF Held
  <2> QED BY <2>1, <2>2
<1>9. /\ Fit(n, own) /\ Moves(d, own)
      /\ own.queue = d.queue /\ own.emitted = closed.emitted /\ Held(own) \subseteq Held(d)
      /\ d.pendingRound = s.id /\ ok => Held(own) = {}
      /\ d.pendingRound = s.id => own.pendingRound # s.id
      /\ AllKeys(n) /\ Awake(d) => Awake(own) \/ own.retryAfter = s.id
  <2>1. CASE d.pendingRound # s.id
    <3>1. own = closed BY <2>1
    <3>2. closed \in Driver /\ closed.current = d.current
          /\ closed.collectors = Without(d.collectors, {s.id})
      BY <1>4
    <3>5. \/ closed.pendingRound = None
          \/ /\ closed.pendingRound = d.pendingRound /\ d.pendingRound \notin {s.id}
             /\ closed.myShare = d.myShare
      BY <1>4, <2>1
    <3>4. Fit(n, closed) /\ Moves(d, closed) BY <3>2, <3>5, Drops
    <3>3. Awake(d) => Awake(closed) \/ closed.retryAfter = s.id BY <1>4, <1>7, <2>1 DEF Awake
    <3> QED BY <1>4, <1>8a, <2>1, <3>1, <3>3, <3>4
  <2>2. CASE d.pendingRound = s.id /\ ok
    <3>1. own = settled BY <2>2
    <3>2. Awake(settled) BY <1>5, <2>2 DEF Awake
    <3> QED BY <1>2, <1>5, <1>8, <1>8a, <2>2, <3>1, <3>2
  <2>3. CASE d.pendingRound = s.id /\ ~ok
    <3>1. own = RetryPendingWith(settled, n, c.channel, c.parts) BY <2>3
    <3> HIDE DEF own
    <3>2. Fit(n, own) /\ Moves(settled, own) /\ Keeps(settled, own) /\ (AllKeys(n) => Awake(own))
      BY <1>2, <1>8, <3>1, Retried
    <3>3. Moves(d, own) BY <1>8, <3>2, MovesOnward
    <3>4. own.pendingRound # s.id
      <4>1. own.pendingRound = None \/ own.pendingRound > d.current BY <1>5, <3>2 DEF Moves
      <4> QED BY <1>1, <1>2, <4>1
    <3>5. own.queue = d.queue /\ own.emitted = closed.emitted /\ Held(own) \subseteq Held(d)
      BY <1>5, <1>8a, <3>2 DEF Keeps
    <3> QED BY <2>3, <3>2, <3>3, <3>4, <3>5
  <2> QED BY <2>1, <2>2, <2>3
<1> HIDE DEF own
<1>10. /\ Fit(n, r.d) /\ Moves(own, r.d) /\ Keeps(own, r.d)
       /\ AllKeys(n) /\ (Awake(own) \/ own.retryAfter = s.id) => Awake(r.d)
  BY <1>2, <1>6, <1>9, Resumed
<1>11. Moves(d, r.d) BY <1>9, <1>10, MovesOnward
<1>12. d.pendingRound = s.id => r.d.pendingRound # s.id
  <2>1. d.pendingRound = s.id => \/ r.d.pendingRound = None
                                 \/ r.d.pendingRound = own.pendingRound
                                 \/ r.d.pendingRound > own.current
    BY <1>10 DEF Moves
  <2>2. own.current \in Nat /\ d.current <= own.current BY <1>9 DEF Moves, Fit, Driver
  <2> QED BY <1>1, <1>2, <1>9, <2>1, <2>2
<1>14. /\ r.d.queue = d.queue /\ r.d.emitted = closed.emitted /\ Held(r.d) \subseteq Held(d)
       /\ d.pendingRound = s.id /\ ok => Held(r.d) = {}
  BY <1>9, <1>10 DEF Keeps
<1>15. ok <=> msg # None /\ s.id \notin d.emitted BY DEF ok
<1>16. msg = Extract(full.shares) OBVIOUS
<1> HIDE DEF msg
<1>17. Yields(n, d, s, full.shares, r)
  <2>1. CASE ok
    <3>1. s.id <= r.d.current
      <4>1. r.d.current \in Nat /\ d.current <= r.d.current BY <1>10, <1>11 DEF Fit, Driver, Moves
      <4> QED BY <1>1, <1>2, <4>1
    <3>2. s.id # r.d.pendingRound
      <4>1. \/ r.d.pendingRound = None \/ r.d.pendingRound = d.pendingRound
            \/ r.d.pendingRound > d.current
        BY <1>11 DEF Moves
      <4> QED BY <1>1, <1>2, <1>12, <4>1
    <3> QED BY <1>4, <1>6, <1>14, <1>15, <1>16, <2>1, <3>1, <3>2 DEF Yields
  <2>2. CASE ~ok
    <3>1. r.extracted = {} /\ r.d.emitted = d.emitted BY <1>4, <1>6, <1>14, <1>15, <2>2
    <3> QED BY <1>14, <3>1 DEF Yields
  <2> QED BY <2>1, <2>2
<1>18. ok => r.extracted # {} BY <1>6
<1> QED BY <1>9, <1>10, <1>11, <1>12, <1>14, <1>15, <1>16, <1>17, <1>18 DEF RoundEnds

\* A share for n leaves d as r.d, with the collector got of its round if it is
\* still open; n broadcasts nothing, or its own share as the last of the round.
ShareTaken(n, d, s, got, r) ==
    /\ Fit(n, r.d) /\ d.current <= r.d.current
    /\ r.d.pendingRound \in {None, d.pendingRound} \/ r.d.pendingRound > d.current
    /\ \A id \in DOMAIN r.d.collectors :
         \/ id \in DOMAIN d.collectors /\ r.d.collectors[id] = d.collectors[id]
         \/ id = s.id /\ r.d.collectors[id] = got
         \/ r.d.collectors[id].shares = Empty
    /\ \/ r.out = {} /\ Yields(n, d, s, got.shares, r)
       \/ /\ r.out = SharesTo(n, s.id, s.channel, d.myShare.signed, got.parts, d.myShare.payload)
          /\ d.myShare # None /\ d.myShare.payload.parts = got.parts
          /\ d.pendingRound = s.id /\ Missing(got) = {n}
          /\ s.id <= r.d.current /\ s.id # r.d.pendingRound
          /\ LET full == Submit(got, n, d.myShare.payload)
             IN  /\ Yields(n, d, s, full.shares, r)
                 /\ Extract(full.shares) # None /\ s.id \notin d.emitted =>
                        Held(r.d) = {} /\ r.extracted # {}
    /\ AllKeys(n) /\ Awake(d) => Awake(r.d)

LEMMA Shared ==
    ASSUME NEW n \in Node, NEW d, Fit(n, d), now \in Nat, NEW s \in Share, s.to = n,
           Admissible(d, n, s), NEW r, r = OnShare(d, n, s),
           NEW got, got = Submit(d.collectors[s.id], s.from, s.payload)
    PROVE  ShareTaken(n, d, s, got, r)
<1> DEFINE old == d.collectors[s.id]
           c == Submit(old, s.from, s.payload)
           last == /\ d.pendingRound = s.id /\ ~d.shareOut
                   /\ AllOthersArrived(c, n) /\ d.myShare # None
           full == IF last THEN Submit(c, n, d.myShare.payload) ELSE c
           kept == [d EXCEPT !.collectors[s.id] = full, !.shareOut = @ \/ last]
           done == CompleteRound(kept, n, s, full)
<1>1. /\ d \in Driver /\ d.collectors \in Table(Nat, Collector) /\ d.current \in Nat
      /\ d.pendingRound \in Nat \cup {None} /\ s.id \in DOMAIN d.collectors
      BY DEF Fit, Driver, Admissible
<1>2. /\ old \in Collector /\ Proper(n, old) /\ s.id \in Nat /\ s.id <= d.current
      /\ s.from \in Node /\ s.from # n /\ s.payload \in Payload /\ s.from \in old.parts
      /\ s.channel \in Channel
      BY <1>1, TableFacts DEF Fit, Share, Admissible, Missing
<1>3. /\ c \in Collector /\ c.parts = old.parts /\ c.channel = old.channel
      /\ c.initiator = old.initiator /\ DOMAIN c.shares = DOMAIN old.shares \cup {s.from}
      /\ \A q \in DOMAIN old.shares \ {s.from} : c.shares[q] = old.shares[q]
      BY <1>2, Submits
<1> HIDE DEF c
<1>4. /\ full \in Collector /\ full.parts = old.parts /\ full.channel = old.channel
      /\ last => DOMAIN full.shares = DOMAIN c.shares \cup {n}
  <2>1. CASE last
    <3>1. d.myShare.payload \in Payload BY <1>1, <2>1 DEF Driver, Carrier, Payload
    <3>2. full = Submit(c, n, d.myShare.payload) BY <2>1
    <3> QED BY <1>3, <3>1, <3>2, Submits
  <2>2. CASE ~last BY <1>3, <2>2
  <2> QED BY <2>1, <2>2
<1>5. (d.shareOut \/ last) \in BOOLEAN OBVIOUS
<1>6. last => Missing(full) = {} BY <1>3, <1>4 DEF AllOthersArrived, Missing
<1>7. /\ ~last => full = c
      /\ last => full = Submit(c, n, d.myShare.payload)
  OBVIOUS
<1>8. last => /\ d.pendingRound = s.id /\ Missing(c) = {n} /\ d.myShare # None
              /\ d.myShare.payload.parts = c.parts
  BY <1>2, <1>3, NodeAssumption DEF Fit, Ready, AllOthersArrived
<1> DEFINE out == IF last
                  THEN SharesTo(n, s.id, s.channel, d.myShare.signed, c.parts, d.myShare.payload)
                  ELSE {}
<1>9. /\ r.d = IF Missing(full) = {} THEN done.d ELSE kept
      /\ r.extracted = IF Missing(full) = {} THEN done.extracted ELSE {}
      /\ r.out = out
  <2>1. c.parts = Submit(d.collectors[s.id], s.from, s.payload).parts BY DEF c
  <2> QED BY DEF OnShare, c
<1> HIDE DEF full, last
<1>10. /\ kept \in Driver /\ kept.current = d.current /\ kept.pending = d.pending
       /\ kept.pendingRound = d.pendingRound /\ kept.myShare = d.myShare
       /\ kept.retryAfter = d.retryAfter /\ kept.queue = d.queue /\ kept.emitted = d.emitted
       /\ kept.collectors = With(d.collectors, s.id, full)
  <2>1. [d.collectors EXCEPT ![s.id] = full] = With(d.collectors, s.id, full)
    BY <1>1, TableUpdate
  <2>2. With(d.collectors, s.id, full) \in Table(Nat, Collector) BY <1>1, <1>2, <1>4, TableWith
  <2>3. kept = [d EXCEPT !.collectors = With(d.collectors, s.id, full), !.shareOut = d.shareOut \/ last]
    BY <2>1
  <2> HIDE DEF kept
  <2> QED BY <1>1, <1>5, <2>2, <2>3 DEF Driver
<1> HIDE DEF kept
<1>11. CASE Missing(full) = {}
  <2>1. r.d = done.d /\ r.extracted = done.extracted BY <1>9, <1>11
  <2>2. Without(kept.collectors, {s.id}) = Without(d.collectors, {s.id})
    BY <1>10 DEF With, Without
  <2>0. /\ s.id \in DOMAIN d.collectors /\ full \in Collector /\ kept \in Driver
        /\ full.parts = d.collectors[s.id].parts /\ full.channel = d.collectors[s.id].channel
        /\ kept.current = d.current /\ kept.pending = d.pending
        /\ kept.pendingRound = d.pendingRound /\ kept.myShare = d.myShare
        /\ kept.retryAfter = d.retryAfter /\ kept.queue = d.queue /\ kept.emitted = d.emitted
        /\ done = CompleteRound(kept, n, s, full)
    BY <1>1, <1>4, <1>10
  <2> HIDE DEF done
  <2>8. RoundEnds(n, d, s, full.shares, done) BY <2>0, <2>2, Completed
  <2>3. /\ Fit(n, done.d) /\ Moves(d, done.d)
        /\ d.pendingRound = s.id => done.d.pendingRound # s.id
        /\ AllKeys(n) /\ Awake(d) => Awake(done.d)
        /\ Yields(n, d, s, full.shares, done)
        /\ d.pendingRound = s.id /\ Extract(full.shares) # None /\ s.id \notin d.emitted =>
                Held(done.d) = {} /\ done.extracted # {}
    BY <2>8 DEF RoundEnds
  <2>4. /\ d.current <= done.d.current
        /\ done.d.pendingRound \in {None, d.pendingRound} \/ done.d.pendingRound > d.current
        /\ \A id \in DOMAIN done.d.collectors :
             \/ id \in DOMAIN d.collectors /\ done.d.collectors[id] = d.collectors[id]
             \/ done.d.collectors[id].shares = Empty
        BY <2>3 DEF Moves
  <2>5. s.id <= done.d.current
    <3>1. done.d.current \in Nat BY <2>3 DEF Fit, Driver
    <3> QED BY <1>1, <1>2, <2>4, <3>1
  <2>7. Yields(n, d, s, full.shares, r) BY <2>1, <2>3 DEF Yields
  <2>6. \/ r.out = {} /\ Yields(n, d, s, c.shares, r)
        \/ /\ r.out = SharesTo(n, s.id, s.channel, d.myShare.signed, c.parts, d.myShare.payload)
           /\ d.myShare # None /\ d.myShare.payload.parts = c.parts
           /\ d.pendingRound = s.id /\ Missing(c) = {n}
           /\ s.id <= done.d.current /\ s.id # done.d.pendingRound
           /\ LET sum == Submit(c, n, d.myShare.payload)
              IN  /\ Yields(n, d, s, sum.shares, r)
                  /\ Extract(sum.shares) # None /\ s.id \notin d.emitted =>
                        Held(done.d) = {} /\ r.extracted # {}
    <3>1. CASE last BY <2>1, <1>7, <1>8, <1>9, <2>3, <2>5, <2>7, <3>1
    <3>2. CASE ~last BY <1>7, <1>9, <2>7, <3>2
    <3> QED BY <3>1, <3>2
  <2> QED BY <2>1, <2>3, <2>4, <2>6 DEF c, ShareTaken
<1>12. CASE Missing(full) # {}
  <2>1. r.d = kept /\ ~last /\ full = c /\ r.out = {} /\ r.extracted = {} BY <1>6, <1>7, <1>9, <1>12
  <2>2. Proper(n, full) BY <1>2, <1>3, <2>1 DEF Proper
  <2>3. Fit(n, kept)
    <3>1. full \in Collector /\ (s.id = d.pendingRound => full.parts = d.collectors[s.id].parts)
      BY <1>4
    <3> QED BY <1>2, <1>10, <2>2, <3>1, Collecting
  <2>4. /\ DOMAIN kept.collectors = DOMAIN d.collectors
        /\ kept.collectors[s.id] = c
        /\ \A id \in DOMAIN d.collectors : id = s.id \/ kept.collectors[id] = d.collectors[id]
        BY <1>1, <1>10, <2>1 DEF With
  <2>5. Awake(d) => Awake(kept) BY <1>10, <2>4 DEF Awake
  <2>6. d.current <= kept.current /\ kept.pendingRound \in {None, d.pendingRound}
    BY <1>1, <1>10
  <2>7. Yields(n, d, s, c.shares, r) BY <1>10, <2>1 DEF Yields, Held
  <2> QED BY <2>1, <2>3, <2>4, <2>5, <2>6, <2>7 DEF c, ShareTaken
<1> QED BY <1>11, <1>12

----------------------------------------------------------------------------
(* The invariant *)

Told(t, from, id, payload) == t.from = from /\ t.id = id /\ t.payload = payload

Shape ==
    /\ driver \in [Node -> Driver] /\ \A n \in Node : Fit(n, driver[n])
    /\ reputation \in [Node -> [strikes : [Node -> Nat], evicted : SUBSET Node]]
    /\ net \subseteq Start \cup Share
    /\ \A o \in net \cap Share : \E t \in sent : Told(t, o.from, o.id, o.payload)
    /\ now \in 0..MaxNow /\ losses \in 0..MaxLoss /\ restarts \in 0..MaxRestarts
    /\ submitted \subseteq Msg

\* What n has collected from others was for n, and they broadcast it.
Holds(n, d, S) ==
    \A id \in DOMAIN d.collectors : \A p \in DOMAIN d.collectors[id].shares \ {n} :
        /\ n \in d.collectors[id].shares[p].parts
        /\ \E t \in S : Told(t, p, id, d.collectors[id].shares[p])

\* n has sent no share in the round it has pending, and none beyond its highest.
Unspent(n, d, S) == \A t \in S : t.from = n => t.id <= d.current /\ t.id # d.pendingRound

\* With every key at hand no message is held without a wake-up.
Waking == \A n \in Node : AllKeys(n) => Awake(driver[n])

RoundInv ==
    /\ Shape /\ Waking
    /\ \A n \in Node : Holds(n, driver[n], sent)
    /\ sent \subseteq Broadcast
    /\ restarts = 0 =>
        (\A n \in Node : Unspent(n, driver[n], sent)) /\ NoSplitShare /\ CarrierLast

\* n's driver moves from d to e and broadcasts new, shares of one round.
Broadcasts(n, d, e, new) ==
    /\ d.current <= e.current
    /\ e.pendingRound \in {None, d.pendingRound} \/ e.pendingRound > d.current
    /\ Holds(n, e, sent \cup new)
    /\ new \subseteq Broadcast
    /\ \A t \in new : /\ t.from = n /\ t.id <= e.current /\ t.id # e.pendingRound
                      /\ t.id > d.current \/ t.id = d.pendingRound
    /\ \A t, u \in new : t.payload = u.payload
    /\ restarts = 0 => \A t \in new : t.payload.msg # None =>
        \A p \in t.payload.parts \ {n} :
            \E u \in sent : u.from = p /\ u.id = t.id /\ u.payload.msg = None

LEMMA HoldsMore ==
    ASSUME NEW n, NEW d, NEW S, NEW T, Holds(n, d, S), S \subseteq T
    PROVE  Holds(n, d, T)
BY DEF Holds

LEMMA BroadcastsKeep ==
    ASSUME RoundInv, Shape', Waking', NEW n \in Node, NEW e, NEW new, Broadcasts(n, driver[n], e, new),
           driver' = [driver EXCEPT ![n] = e], sent' = sent \cup new, restarts' = restarts
    PROVE  RoundInv'
<1> DEFINE d == driver[n]
<1>1. /\ d.current \in Nat /\ e.current \in Nat /\ d.pendingRound \in Nat \cup {None}
      /\ e.pendingRound \in Nat \cup {None} /\ d.current <= e.current
      /\ e.pendingRound \in {None, d.pendingRound} \/ e.pendingRound > d.current
      /\ driver'[n] = e /\ \A m \in Node \ {n} : driver'[m] = driver[m]
      BY DEF RoundInv, Shape, Driver, Broadcasts
<1>2. \A m \in Node : (Holds(m, driver[m], sent))'
  <2> TAKE m \in Node
  <2>1. CASE m = n BY <1>1, <2>1 DEF Broadcasts
  <2>2. CASE m # n
    <3>1. Holds(m, driver[m], sent) /\ sent \subseteq sent' BY DEF RoundInv
    <3>2. Holds(m, driver[m], sent') BY <3>1, HoldsMore
    <3> QED BY <1>1, <2>2, <3>2
  <2> QED BY <2>1, <2>2
<1>3. sent' \subseteq Broadcast /\ sent \subseteq Broadcast BY DEF RoundInv, Broadcasts
<1>4. ASSUME restarts = 0
      PROVE  /\ \A m \in Node : (Unspent(m, driver[m], sent))'
             /\ NoSplitShare' /\ CarrierLast'
  <2>1. (\A m \in Node : Unspent(m, driver[m], sent)) /\ NoSplitShare /\ CarrierLast
    BY <1>4 DEF RoundInv
  <2>2. /\ \A t \in new : /\ t.from = n /\ t.id <= e.current /\ t.id # e.pendingRound /\ t.id \in Nat
                          /\ t.id > d.current \/ t.id = d.pendingRound
        /\ \A t \in sent : t.id \in Nat
    BY <1>3 DEF Broadcasts, Broadcast
  <2>3. \A t \in sent : t.from = n => t.id <= d.current /\ t.id # d.pendingRound
    BY <2>1 DEF Unspent
  <2>4. \A t \in sent : t.from = n => t.id <= e.current /\ t.id # e.pendingRound
    BY <1>1, <2>2, <2>3, NodeAssumption
  <2>5. \A m \in Node : (Unspent(m, driver[m], sent))'
    <3> TAKE m \in Node
    <3>1. ASSUME NEW t \in sent', t.from = m
          PROVE  t.id <= driver'[m].current /\ t.id # driver'[m].pendingRound
      <4>1. CASE m = n BY <1>1, <2>2, <2>4, <3>1, <4>1
      <4>2. CASE m # n
        <5>1. t \in sent BY <2>2, <3>1, <4>2
        <5> QED BY <1>1, <2>1, <3>1, <4>2, <5>1 DEF Unspent
      <4> QED BY <4>1, <4>2
    <3> QED BY <3>1 DEF Unspent
  <2>6. NoSplitShare'
    <3> SUFFICES ASSUME NEW s \in sent', NEW t \in sent', s.from = t.from, s.id = t.id
                 PROVE  s.payload = t.payload
        BY DEF NoSplitShare
    <3>1. CASE s \in sent /\ t \in sent BY <2>1, <3>1 DEF NoSplitShare
    <3>2. CASE s \in new /\ t \in new BY <3>2 DEF Broadcasts
    <3>3. ASSUME NEW x \in sent, NEW y \in new, x.from = y.from, x.id = y.id PROVE FALSE
      <4>1. x.id <= d.current /\ x.id # d.pendingRound /\ x.id \in Nat BY <2>2, <2>3, <3>3
      <4>2. x.id > d.current \/ x.id = d.pendingRound BY <2>2, <3>3
      <4> QED BY <1>1, <4>1, <4>2
    <3> QED BY <3>1, <3>2, <3>3
  <2>7. CarrierLast'
    <3> SUFFICES ASSUME NEW s \in sent', s.payload.msg # None, NEW p \in s.payload.parts \ {s.from}
                 PROVE  \E t \in sent' : t.from = p /\ t.id = s.id /\ t.payload.msg = None
        BY DEF CarrierLast
    <3>1. CASE s \in sent BY <2>1, <3>1 DEF CarrierLast
    <3>2. CASE s \in new
      <4>1. p \in s.payload.parts \ {n} BY <2>2, <3>2
      <4>2. \E u \in sent : u.from = p /\ u.id = s.id /\ u.payload.msg = None
        BY <1>4, <3>2, <4>1 DEF Broadcasts
      <4> QED BY <4>2
    <3> QED BY <3>1, <3>2
  <2> QED BY <2>5, <2>6, <2>7
<1> QED BY <1>2, <1>3, <1>4 DEF RoundInv

\* n sends one share, to everyone it is for.
LEMMA SharesSent ==
    ASSUME NEW n \in Node, NEW id \in Nat, NEW channel \in Channel, NEW signed \in Channel,
           NEW payload \in Payload, Cardinality(payload.parts) \in 2..MaxParts,
           NEW starts \in SUBSET Start
    PROVE  LET out == SharesTo(n, id, channel, signed, payload.parts, payload) \cup starts
               t == [from |-> n, id |-> id, payload |-> payload, channel |-> channel, signed |-> signed]
           IN  /\ t \in Broadcast /\ SharesIn(out) \subseteq {t}
               /\ payload.parts \ {n} # {} => t \in SharesIn(out)
               /\ out \subseteq Start \cup Share
               /\ \A o \in out \cap Share : /\ t \in SharesIn(out)
                                            /\ Told(t, o.from, o.id, o.payload)
<1> DEFINE shares == SharesTo(n, id, channel, signed, payload.parts, payload)
           out == shares \cup starts
           t == [from |-> n, id |-> id, payload |-> payload, channel |-> channel, signed |-> signed]
<1>1. t \in Broadcast BY DEF Broadcast
<1>2. \A o \in starts : o.kind = "start" /\ o \notin Share BY DEF Start, Share
<1>3. ASSUME NEW o \in shares
      PROVE  /\ o \in Share /\ o.kind = "share" /\ o.from = n /\ o.id = id /\ o.payload = payload
             /\ o.channel = channel /\ o.signed = signed
  <2>1. PICK p \in payload.parts \ {n} : o = DcRoundShare(n, p, id, channel, signed, payload)
    BY DEF SharesTo
  <2>2. p \in Node BY DEF Payload
  <2> QED BY <2>1, <2>2 DEF DcRoundShare, Share
<1> HIDE DEF shares
<1>4. SharesIn(out) \subseteq {t} BY <1>2, <1>3 DEF SharesIn
<1>5. \A o \in out \cap Share : o \in shares BY <1>2
<1>6. \A o \in shares : t \in SharesIn(out) BY <1>3 DEF SharesIn
<1>7. \A o \in shares : Told(t, o.from, o.id, o.payload) BY <1>3 DEF Told
<1>8. out \subseteq Start \cup Share BY <1>3
<1>9. payload.parts \ {n} # {} => shares # {} BY DEF shares, SharesTo
<1> QED BY <1>1, <1>4, <1>5, <1>6, <1>7, <1>8, <1>9 DEF shares

LEMMA StartsSent ==
    ASSUME NEW starts \in SUBSET Start
    PROVE  SharesIn(starts) = {} /\ starts \cap Share = {}
BY DEF SharesIn, Start, Share

LEMMA InitInv == Init => RoundInv
<1> SUFFICES ASSUME Init PROVE RoundInv OBVIOUS
<1>1. /\ NewDriver \in Driver /\ NewDriver.collectors = Empty /\ NewDriver.pendingRound = None
      /\ NewDriver.pending = None /\ DOMAIN Empty = {}
  <2>1. Empty \in Table(Nat, Collector) /\ <<>> \in Seq(Msg) /\ 0 \in 0..MaxRetries
    BY EmptyTable, LimitsAssumption
  <2> QED BY <2>1, EmptyTable DEF NewDriver, Driver
<1>2. \A n \in Node : Fit(n, NewDriver) /\ Awake(NewDriver) /\ Holds(n, NewDriver, {})
  BY <1>1, FS_EmptySet DEF Fit, Awake, Holds
<1>3. \A n \in Node : driver[n] = NewDriver BY DEF Init
<1>4. Shape
  <2>1. NewReputation \in [strikes : [Node -> Nat], evicted : SUBSET Node] BY DEF NewReputation
  <2> QED BY <1>1, <1>2, <1>3, <2>1, ClockAssumption, LimitsAssumption DEF Init, Shape
<1>5. sent = {} BY DEF Init
<1> QED BY <1>2, <1>3, <1>4, <1>5 DEF RoundInv, Waking, Unspent, NoSplitShare, CarrierLast

\* A step in which no driver moves and nothing is broadcast.
LEMMA Still ==
    ASSUME RoundInv, Shape', UNCHANGED <<driver, sent, restarts>>
    PROVE  RoundInv'
<1>1. NoSplitShare' = NoSplitShare /\ CarrierLast' = CarrierLast BY DEF NoSplitShare, CarrierLast
<1>2. Waking' BY DEF Waking, RoundInv
<1> QED BY <1>1, <1>2 DEF RoundInv

LEMMA QueueInv ==
    ASSUME RoundInv, NEW n \in Node, NEW m \in Msg, QueueMessage(n, m)
    PROVE  RoundInv'
<1> DEFINE d == driver[n]
           e == [d EXCEPT !.queue = Append(@, m)]
<1>1. d \in Driver /\ Fit(n, d) /\ Holds(n, d, sent) /\ d.current \in Nat BY DEF RoundInv, Shape, Driver
<1>2. /\ e \in Driver /\ e.current = d.current /\ e.collectors = d.collectors
      /\ e.pendingRound = d.pendingRound /\ e.myShare = d.myShare /\ e.pending = d.pending
      /\ e.retryAfter = d.retryAfter
  <2>1. Append(d.queue, m) \in Seq(Msg) BY <1>1 DEF Driver
  <2> QED BY <1>1, <2>1 DEF Driver
<1>3. driver' = [driver EXCEPT ![n] = e] BY DEF QueueMessage
<1> HIDE DEF e
<1>4. Fit(n, e) BY <1>1, <1>2 DEF Fit, Ready
<1>5. Shape'
  <2>1. /\ driver' \in [Node -> Driver]
        /\ \A x \in Node : driver'[x] = driver[x] \/ (x = n /\ driver'[x] = e)
        BY <1>2, <1>3 DEF RoundInv, Shape
  <2>2. submitted' \subseteq Msg /\ UNCHANGED <<reputation, net, now, losses, restarts, sent>>
    BY DEF RoundInv, Shape, QueueMessage
  <2> QED BY <1>4, <2>1, <2>2 DEF RoundInv, Shape
<1>6. Broadcasts(n, d, e, {}) BY <1>1, <1>2 DEF Broadcasts, Holds
<1>7. Waking' BY <1>2, <1>3 DEF RoundInv, Shape, Waking, Awake
<1>8. sent' = sent \cup {} /\ restarts' = restarts BY DEF QueueMessage
<1> QED BY <1>3, <1>5, <1>6, <1>7, <1>8, BroadcastsKeep

LEMMA ReinstateInv ==
    ASSUME RoundInv, NEW n \in Node, NEW p \in Node, Reinstate(n, p)
    PROVE  RoundInv'
<1>1. reputation' \in [Node -> [strikes : [Node -> Nat], evicted : SUBSET Node]]
  <2>1. reputation[n] \in [strikes : [Node -> Nat], evicted : SUBSET Node] BY DEF RoundInv, Shape
  <2> DEFINE rep == [reputation[n] EXCEPT !.evicted = @ \ {p}, !.strikes[p] = 0]
  <2>2. rep \in [strikes : [Node -> Nat], evicted : SUBSET Node] BY <2>1
  <2>3. reputation' = [reputation EXCEPT ![n] = rep] BY <2>1 DEF Reinstate, RoundInv, Shape
  <2> QED BY <2>2, <2>3 DEF RoundInv, Shape
<1>2. Shape' BY <1>1 DEF RoundInv, Shape, Reinstate
<1> QED BY <1>2, Still DEF Reinstate

LEMMA LoseInv ==
    ASSUME RoundInv, Lose
    PROVE  RoundInv'
<1>1. losses' \in 0..MaxLoss BY LimitsAssumption DEF RoundInv, Shape, Lose
<1>2. net' \subseteq net BY DEF Lose
<1>3. Shape' BY <1>1, <1>2 DEF RoundInv, Shape, Lose
<1> QED BY <1>3, Still DEF Lose

LEMMA ClockInv ==
    ASSUME RoundInv, AdvanceClock
    PROVE  RoundInv'
<1>1. now' \in 0..MaxNow BY ClockAssumption DEF RoundInv, Shape, AdvanceClock
<1>2. Shape' BY <1>1 DEF RoundInv, Shape, AdvanceClock
<1> QED BY <1>2, Still DEF AdvanceClock

LEMMA RestartInv ==
    ASSUME RoundInv, NEW n \in Node, Restart(n)
    PROVE  RoundInv'
<1> DEFINE e == [NewDriver EXCEPT !.log = driver[n].log]
<1>1. /\ e \in Driver /\ e.collectors = Empty /\ e.pendingRound = None
      /\ e.pending = None /\ DOMAIN Empty = {}
  <2>1. Empty \in Table(Nat, Collector) /\ <<>> \in Seq(Msg) /\ 0 \in 0..MaxRetries
    BY EmptyTable, LimitsAssumption
  <2>2. driver[n].log \in SUBSET [id : Nat, msg : Msg, channel : Channel]
    BY DEF RoundInv, Shape, Driver
  <2> QED BY <2>1, <2>2, EmptyTable DEF NewDriver, Driver
<1>2. driver' = [driver EXCEPT ![n] = e] BY DEF Restart
<1> HIDE DEF e
<1>3. Fit(n, e) /\ Awake(e) /\ \A S : Holds(n, e, S) BY <1>1, FS_EmptySet DEF Fit, Awake, Holds
<1>4. /\ driver' \in [Node -> Driver]
      /\ \A m \in Node : (driver'[m] = e /\ m = n) \/ driver'[m] = driver[m]
  BY <1>1, <1>2 DEF RoundInv, Shape
<1>5. /\ now' \in 0..MaxNow /\ restarts' \in 0..MaxRestarts /\ restarts' # 0
      /\ net' \subseteq net /\ sent' = sent /\ UNCHANGED <<losses, submitted>>
  BY ClockAssumption, LimitsAssumption DEF RoundInv, Shape, Restart
<1>6. reputation' \in [Node -> [strikes : [Node -> Nat], evicted : SUBSET Node]]
  <2>1. NewReputation \in [strikes : [Node -> Nat], evicted : SUBSET Node] BY DEF NewReputation
  <2> QED BY <2>1 DEF RoundInv, Shape, Restart
<1>7. Shape' BY <1>3, <1>4, <1>5, <1>6 DEF RoundInv, Shape
<1>8. Waking' BY <1>3, <1>4 DEF RoundInv, Waking
<1>9. (\A m \in Node : Holds(m, driver[m], sent))' BY <1>3, <1>4, <1>5 DEF RoundInv
<1> QED BY <1>5, <1>7, <1>8, <1>9 DEF RoundInv

LEMMA QueueHead ==
    ASSUME NEW n \in Node, NEW d, Fit(n, d), now \in Nat, NEW parts \in SUBSET Node,
           NEW r, r = InitiateNext(d, n, parts)
    PROVE  /\ Fit(n, r.d) /\ Moves(d, r.d) /\ r.out \subseteq Start
           /\ Awake(d) => Awake(r.d)
           /\ r.d.emitted = d.emitted
           /\ \/ r.d.queue = d.queue /\ Held(r.d) \subseteq Held(d)
              \/ /\ d.queue # <<>> /\ r.d.queue = Tail(d.queue)
                 /\ Held(r.d) \subseteq Held(d) \cup {Head(d.queue)}
<1>1. d \in Driver /\ d.current \in Nat /\ d.queue \in Seq(Msg) BY DEF Fit, Driver
<1>2. CASE d.queue = <<>>
  <2>1. r = [d |-> d, out |-> {}] BY <1>2 DEF InitiateNext
  <2> QED BY <1>1, <2>1 DEF Moves
<1>3. CASE d.queue # <<>>
  <2> DEFINE msg == Head(d.queue)
             popped == [d EXCEPT !.queue = Tail(@)]
  <2>0. msg = Head(d.queue) OBVIOUS
  <2>1. msg \in Msg /\ Tail(d.queue) \in Seq(Msg) BY <1>1, <1>3
  <2>2. /\ popped \in Driver /\ popped.current = d.current
        /\ popped.collectors = d.collectors /\ popped.pending = d.pending
        /\ popped.pendingRound = d.pendingRound /\ popped.myShare = d.myShare
        /\ popped.retryAfter = d.retryAfter
        /\ popped.queue = Tail(d.queue) /\ popped.emitted = d.emitted
        BY <1>1, <2>1 DEF Driver
  <2>3. r = Initiate(popped, n, ChannelOf[msg], msg, parts) BY <1>3 DEF InitiateNext
  <2> HIDE DEF popped, msg
  <2>4. Fit(n, popped) /\ Moves(d, popped) /\ (Awake(d) => Awake(popped))
    BY <1>1, <2>2 DEF Fit, Ready, Moves, Awake
  <2>5. ChannelOf[msg] \in Channel BY <2>1 DEF Channel
  <2>6. /\ Fit(n, r.d) /\ Moves(popped, r.d) /\ r.out \subseteq Start /\ (Awake(popped) => Awake(r.d))
        /\ r.d.queue = popped.queue /\ r.d.emitted = popped.emitted
        /\ Held(r.d) \subseteq Held(popped) \cup {msg}
    BY <2>1, <2>3, <2>4, <2>5, Initiated
  <2>7. Moves(d, r.d) BY <2>4, <2>6, MovesOnward
  <2>9. Held(popped) = Held(d) BY <2>2 DEF Held
  <2> QED BY <1>3, <2>2, <2>4, <2>6, <2>7, <2>0, <2>9
<1> QED BY <1>2, <1>3

\* Moving keeps what a driver holds, and broadcasts nothing.
LEMMA MovesBroadcast ==
    ASSUME NEW n \in Node, NEW d, NEW e, Fit(n, d), Moves(d, e), Holds(n, d, sent)
    PROVE  Broadcasts(n, d, e, {})
<1>1. \A id \in DOMAIN e.collectors :
        \/ id \in DOMAIN d.collectors /\ e.collectors[id] = d.collectors[id]
        \/ DOMAIN e.collectors[id].shares = {}
  BY EmptyTable DEF Moves
<1>2. Holds(n, e, sent) BY <1>1 DEF Holds
<1> QED BY <1>2 DEF Broadcasts, Moves

\* The step of a tick, and what the properties need of it.
LEMMA TickStep ==
    ASSUME RoundInv, NEW n \in Node, Tick(n)
    PROVE  /\ RoundInv'
           /\ \A m \in Node \ {n} : reputation'[m] = reputation[m]
           /\ \A p \in Node : reputation'[n].strikes[p] > reputation[n].strikes[p] =>
                \E id \in DOMAIN driver[n].collectors \ DOMAIN driver'[n].collectors :
                    p \in Blamed(n, driver[n].collectors[id])
<1> DEFINE d == driver[n]
<1>1. PICK expired \in SUBSET Expirable(n) : \E after \in ExpireRounds(d, n, expired) :
        LET blame == [p \in Node |->
                Cardinality({id \in expired : p \in Blamed(n, d.collectors[id])})]
            rep == Penalize(reputation[n], blame)
            parts == Participants(n, rep.evicted)
            next == IF Cardinality(parts) >= 2 THEN InitiateNext(after, n, parts)
                    ELSE [d |-> after, out |-> {}]
        IN  /\ driver' = [driver EXCEPT ![n] = next.d]
            /\ reputation' = [reputation EXCEPT ![n] = rep]
            /\ net' = net \cup Sendable(n, next.out)
  BY DEF Tick
<1> DEFINE blame == [p \in Node |-> Cardinality({id \in expired : p \in Blamed(n, d.collectors[id])})]
           rep == Penalize(reputation[n], blame)
           parts == Participants(n, rep.evicted)
           Next1(a) == IF Cardinality(parts) >= 2 THEN InitiateNext(a, n, parts)
                       ELSE [d |-> a, out |-> {}]
<1>2. PICK after \in ExpireRounds(d, n, expired) :
        /\ driver' = [driver EXCEPT ![n] = Next1(after).d]
        /\ reputation' = [reputation EXCEPT ![n] = rep]
        /\ net' = net \cup Sendable(n, Next1(after).out)
  BY <1>1
<1> DEFINE next == Next1(after)
           e == next.d
<1>3. /\ Fit(n, d) /\ Holds(n, d, sent) /\ now \in Nat /\ d \in Driver
      /\ d.current \in Nat /\ IsFiniteSet(DOMAIN d.collectors)
      /\ expired \in SUBSET DOMAIN d.collectors /\ IsFiniteSet(expired)
      /\ reputation[n] \in [strikes : [Node -> Nat], evicted : SUBSET Node]
  <2>1. /\ Fit(n, d) /\ Holds(n, d, sent) /\ now \in Nat /\ d \in Driver
        /\ d.current \in Nat /\ IsFiniteSet(DOMAIN d.collectors)
        /\ reputation[n] \in [strikes : [Node -> Nat], evicted : SUBSET Node]
    BY ClockAssumption DEF RoundInv, Shape, Fit, Driver
  <2>2. expired \in SUBSET DOMAIN d.collectors BY DEF Expirable
  <2> QED BY <2>1, <2>2, FS_Subset
<1>4. \A p \in Node : blame[p] \in Nat /\
        (blame[p] > 0 => \E id \in expired : p \in Blamed(n, d.collectors[id]))
  <2> TAKE p \in Node
  <2> DEFINE B == {id \in expired : p \in Blamed(n, d.collectors[id])}
  <2>1. B \in SUBSET expired OBVIOUS
  <2>2. IsFiniteSet(B) BY <1>3, <2>1, FS_Subset
  <2>3. Cardinality(B) \in Nat /\ (Cardinality(B) > 0 => B # {}) BY <2>2, FS_EmptySet, FS_CardinalityType
  <2>4. blame[p] = Cardinality(B) OBVIOUS
  <2> QED BY <2>3, <2>4
<1>5. blame \in [Node -> Nat] BY <1>4
<1> HIDE DEF blame
<1>6. /\ rep \in [strikes : [Node -> Nat], evicted : SUBSET Node]
      /\ \A p \in Node : rep.strikes[p] = reputation[n].strikes[p] + blame[p]
  BY <1>3, <1>5 DEF Penalize
<1> HIDE DEF rep
<1>7. parts \in SUBSET Node BY LinkAssumption DEF Participants
<1> HIDE DEF parts
<1>8. /\ Fit(n, after) /\ Moves(d, after) /\ expired \cap DOMAIN after.collectors = {}
      /\ AllKeys(n) /\ Awake(d) => Awake(after)
  BY <1>3, AllExpired
<1>9. /\ Fit(n, e) /\ Moves(after, e) /\ next.out \subseteq Start /\ (Awake(after) => Awake(e))
  <2>1. CASE next = InitiateNext(after, n, parts) BY <1>3, <1>7, <1>8, <2>1, QueueHead
  <2>2. CASE next = [d |-> after, out |-> {}]
    <3>1. after.current \in Nat BY <1>8 DEF Fit, Driver
    <3> QED BY <1>8, <2>2, <3>1 DEF Moves
  <2> QED BY <2>1, <2>2
<1>10. Moves(d, e) BY <1>3, <1>8, <1>9, MovesOnward
<1>11. /\ driver' = [driver EXCEPT ![n] = e] /\ reputation' = [reputation EXCEPT ![n] = rep]
       /\ net' = net \cup Sendable(n, next.out)
  BY <1>2
<1> HIDE DEF e
<1>12. /\ driver' \in [Node -> Driver] /\ driver'[n] = e
       /\ \A m \in Node : m = n \/ driver'[m] = driver[m]
  <2>1. e \in Driver BY <1>9 DEF Fit
  <2> QED BY <1>11, <2>1 DEF RoundInv, Shape
<1>13. /\ reputation' \in [Node -> [strikes : [Node -> Nat], evicted : SUBSET Node]]
       /\ reputation'[n] = rep /\ \A m \in Node \ {n} : reputation'[m] = reputation[m]
  BY <1>6, <1>11 DEF RoundInv, Shape
<1>14. net' \subseteq Start \cup Share /\ net' \cap Share \subseteq net
  <2>1. Sendable(n, next.out) \in SUBSET Start BY <1>9 DEF Sendable
  <2>2. Sendable(n, next.out) \cap Share = {} BY <2>1, StartsSent
  <2> QED BY <1>11, <2>1, <2>2 DEF RoundInv, Shape
<1>15. UNCHANGED <<now, submitted, losses, restarts, sent>> BY DEF Tick
<1>16. Shape' BY <1>9, <1>12, <1>13, <1>14, <1>15 DEF RoundInv, Shape
<1>17. Waking' BY <1>8, <1>9, <1>12 DEF RoundInv, Waking
<1>18. Broadcasts(n, d, e, {}) BY <1>3, <1>10, MovesBroadcast
<1>19. RoundInv'
  <2>1. sent' = sent \cup {} /\ restarts' = restarts BY <1>15
  <2> QED BY <1>11, <1>16, <1>17, <1>18, <2>1, BroadcastsKeep
<1>20. ASSUME NEW p \in Node, reputation'[n].strikes[p] > reputation[n].strikes[p]
       PROVE  \E id \in DOMAIN d.collectors \ DOMAIN driver'[n].collectors : p \in Blamed(n, d.collectors[id])
  <2>1. blame[p] > 0
    <3>1. reputation[n].strikes[p] \in Nat /\ blame[p] \in Nat BY <1>3, <1>5
    <3> QED BY <1>6, <1>13, <1>20, <3>1
  <2>2. PICK id \in expired : p \in Blamed(n, d.collectors[id]) BY <1>4, <2>1
  <2>3. id \notin DOMAIN e.collectors
    <3>1. id \notin DOMAIN after.collectors BY <1>8
    <3>2. id \in DOMAIN e.collectors => id > after.current BY <1>9, <3>1 DEF Moves
    <3>3. id \in Nat /\ id <= d.current /\ d.current <= after.current /\ after.current \in Nat
      BY <1>3, <1>8, TableFacts DEF Fit, Driver, Moves
    <3> QED BY <1>3, <3>2, <3>3
  <2> QED BY <1>3, <1>12, <2>2, <2>3
<1> QED BY <1>13, <1>19, <1>20

\* The end of both handlers: the outbox is drained with what the driver sends.
LEMMA Handled ==
    ASSUME RoundInv, NEW n \in Node, NEW d, NEW s, NEW shares, NEW out, out = shares \cup d.outbox,
           Fit(n, d), AllKeys(n) => Awake(d), Broadcasts(n, driver[n], d, SharesIn(out)),
           out \subseteq Start \cup Share,
           \A o \in out \cap Share : \E t \in SharesIn(out) : Told(t, o.from, o.id, o.payload),
           driver' = [driver EXCEPT ![n] = [d EXCEPT !.outbox = {}]],
           net' = (net \ {s}) \cup Sendable(n, out), sent' = sent \cup SharesIn(out),
           reputation' \in [Node -> [strikes : [Node -> Nat], evicted : SUBSET Node]],
           UNCHANGED <<now, submitted, losses, restarts>>
    PROVE  RoundInv'
<1> DEFINE e == [d EXCEPT !.outbox = {}]
<1>1. /\ e \in Driver /\ e.current = d.current /\ e.collectors = d.collectors
      /\ e.pendingRound = d.pendingRound /\ e.myShare = d.myShare /\ e.pending = d.pending
      /\ e.retryAfter = d.retryAfter
      BY DEF Fit, Driver
<1>2. driver' = [driver EXCEPT ![n] = e] OBVIOUS
<1> HIDE DEF e
<1>3. Fit(n, e) /\ (AllKeys(n) => Awake(e)) BY <1>1 DEF Fit, Ready, Awake
<1>4. Broadcasts(n, driver[n], e, SharesIn(out)) BY <1>1 DEF Broadcasts, Holds
<1>5. /\ driver' \in [Node -> Driver]
      /\ \A m \in Node : driver'[m] = driver[m] \/ (m = n /\ driver'[m] = e)
  BY <1>1, <1>2 DEF RoundInv, Shape
<1>6. \A o \in net' : o \in net \/ o \in out BY DEF Sendable
<1>7. \A o \in net' \cap Share : \E t \in sent' : Told(t, o.from, o.id, o.payload)
  BY <1>6 DEF RoundInv, Shape
<1>8. Shape' BY <1>3, <1>5, <1>6, <1>7 DEF RoundInv, Shape
<1>9. Waking' BY <1>3, <1>5 DEF RoundInv, Waking
<1> QED BY <1>2, <1>4, <1>8, <1>9, BroadcastsKeep

LEMMA StartInv ==
    ASSUME RoundInv, NEW n \in Node, HandleStart(n)
    PROVE  RoundInv'
<1> DEFINE d == driver[n]
<1>1. PICK s \in {o \in net : o.kind = "start" /\ o.to = n} :
        LET r == OnStart(d, n, s)
            out == r.out \cup r.d.outbox
        IN  /\ driver' = [driver EXCEPT ![n] = [r.d EXCEPT !.outbox = {}]]
            /\ net' = (net \ {s}) \cup Sendable(n, out)
            /\ sent' = sent \cup SharesIn(out)
            /\ UNCHANGED <<reputation, now, submitted, losses, restarts, delivered>>
  BY DEF HandleStart
<1> DEFINE r == OnStart(d, n, s)
           out == r.out \cup r.d.outbox
           share == XorShare(s.parts, None)
<1>2. /\ Fit(n, d) /\ Holds(n, d, sent) /\ now \in Nat /\ d.current \in Nat
      /\ AllKeys(n) => Awake(d)
      BY ClockAssumption DEF RoundInv, Shape, Waking, Driver
<1>3. s \in Start /\ s.to = n
  <2>1. s \in Start \cup Share /\ s.kind = "start" /\ s.to = n BY DEF RoundInv, Shape
  <2> QED BY <2>1 DEF Share
<1>4. /\ Fit(n, r.d) /\ d.current <= r.d.current
      /\ r.d.pendingRound \in {None, d.pendingRound}
      /\ \A id \in DOMAIN r.d.collectors :
           \/ id \in DOMAIN d.collectors /\ r.d.collectors[id] = d.collectors[id]
           \/ DOMAIN r.d.collectors[id].shares = {n}
      /\ \/ r.out = {}
         \/ /\ r.out = SharesTo(n, s.id, s.channel, s.channel, s.parts, share)
            /\ s.id > d.current \/ s.id = d.pendingRound
            /\ s.id <= r.d.current /\ s.id # r.d.pendingRound
      /\ AllKeys(n) /\ Awake(d) => Awake(r.d)
  BY <1>2, <1>3, Joined
<1>5. /\ driver' = [driver EXCEPT ![n] = [r.d EXCEPT !.outbox = {}]]
      /\ net' = (net \ {s}) \cup Sendable(n, out) /\ sent' = sent \cup SharesIn(out)
      /\ UNCHANGED <<reputation, now, submitted, losses, restarts>>
  BY <1>1
<1> HIDE DEF r
<1>6. \A T : Holds(n, r.d, sent \cup T) BY <1>2, <1>4 DEF Holds
<1>7. r.d.outbox \in SUBSET Start BY <1>4 DEF Fit, Driver
<1>8. /\ Broadcasts(n, d, r.d, SharesIn(out)) /\ out \subseteq Start \cup Share
      /\ \A o \in out \cap Share : \E t \in SharesIn(out) : Told(t, o.from, o.id, o.payload)
  <2>1. CASE r.out = {}
    <3>1. out = r.d.outbox BY <2>1
    <3>2. SharesIn(out) = {} /\ out \cap Share = {} BY <1>7, <3>1, StartsSent
    <3> QED BY <1>4, <1>6, <1>7, <3>1, <3>2 DEF Broadcasts
  <2>2. CASE /\ r.out = SharesTo(n, s.id, s.channel, s.channel, s.parts, share)
             /\ s.id > d.current \/ s.id = d.pendingRound
             /\ s.id <= r.d.current /\ s.id # r.d.pendingRound
    <3> DEFINE t == [from |-> n, id |-> s.id, payload |-> share, channel |-> s.channel, signed |-> s.channel]
    <3>1. /\ share \in Payload /\ share.parts = s.parts /\ share.msg = None
          /\ s.id \in Nat /\ s.channel \in Channel /\ Cardinality(share.parts) \in 2..MaxParts
      BY <1>3 DEF Start, XorShare, Payload
    <3> HIDE DEF share
    <3>2. out = SharesTo(n, s.id, s.channel, s.channel, share.parts, share) \cup r.d.outbox
      BY <2>2, <3>1
    <3> HIDE DEF out
    <3>3. /\ t \in Broadcast /\ SharesIn(out) \subseteq {t} /\ out \subseteq Start \cup Share
          /\ \A o \in out \cap Share : t \in SharesIn(out) /\ Told(t, o.from, o.id, o.payload)
      BY <1>7, <3>1, <3>2, SharesSent
    <3>4. t.from = n /\ t.id = s.id /\ t.payload = share OBVIOUS
    <3> HIDE DEF t
    <3>5. Broadcasts(n, d, r.d, SharesIn(out)) BY <1>4, <1>6, <2>2, <3>1, <3>3, <3>4 DEF Broadcasts
    <3> QED BY <3>3, <3>5
  <2> QED BY <1>4, <2>1, <2>2
<1>9. reputation' \in [Node -> [strikes : [Node -> Nat], evicted : SUBSET Node]]
  BY <1>5 DEF RoundInv, Shape
<1>10. AllKeys(n) => Awake(r.d) BY <1>2, <1>4
<1> QED BY <1>4, <1>5, <1>8, <1>9, <1>10, Handled

\* The collector got of the round of s, once it has the share s.
Collected(n, d, s, got) ==
    /\ got \in Collector /\ Proper(n, got) /\ s.from \in got.parts \ {n}
    /\ \A p \in DOMAIN got.shares \ {n} :
        n \in got.shares[p].parts /\ \E t \in sent : Told(t, p, s.id, got.shares[p])

LEMMA Collects ==
    ASSUME NEW n \in Node, NEW d, Fit(n, d), Holds(n, d, sent), NEW s \in Share, s.to = n,
           \E t \in sent : Told(t, s.from, s.id, s.payload), Admissible(d, n, s),
           NEW got, got = Submit(d.collectors[s.id], s.from, s.payload)
    PROVE  Collected(n, d, s, got)
<1> DEFINE old == d.collectors[s.id]
<1>1. s.id \in DOMAIN d.collectors /\ s.from \in old.parts BY DEF Admissible, Missing
<1>2. old \in Collector /\ Proper(n, old)
  <2>1. d.collectors \in Table(Nat, Collector) BY DEF Fit, Driver
  <2> QED BY <1>1, <2>1, TableFacts DEF Fit
<1>3. s.from \in Node \ {n} /\ s.payload \in Payload /\ n \in s.payload.parts BY DEF Share
<1> HIDE DEF old
<1>4. /\ got \in Collector /\ got.parts = old.parts /\ got.initiator = old.initiator
      /\ DOMAIN got.shares = DOMAIN old.shares \cup {s.from} /\ got.shares[s.from] = s.payload
      /\ \A p \in DOMAIN old.shares \ {s.from} : got.shares[p] = old.shares[p]
  <2>1. got = Submit(old, s.from, s.payload) BY DEF old
  <2> QED BY <1>2, <1>3, <2>1, Submits
<1>5. Proper(n, got)
  <2>1. DOMAIN got.shares \subseteq got.parts BY <1>1, <1>2, <1>4 DEF Proper, old
  <2>2. n \in DOMAIN got.shares => n \in DOMAIN old.shares /\ got.shares[n] = old.shares[n]
    BY <1>3, <1>4
  <2> QED BY <1>2, <1>4, <2>1, <2>2 DEF Proper
<1>6. ASSUME NEW p \in DOMAIN got.shares \ {n}
      PROVE  n \in got.shares[p].parts /\ \E t \in sent : Told(t, p, s.id, got.shares[p])
  <2>1. CASE p = s.from BY <1>3, <1>4, <2>1
  <2>2. CASE p # s.from BY <1>1, <1>4, <1>6, <2>2 DEF Holds, old
  <2> QED BY <2>1, <2>2
<1> QED BY <1>1, <1>3, <1>4, <1>5, <1>6 DEF Collected, old

LEMMA ShareInv ==
    ASSUME RoundInv, NEW n \in Node, HandleShare(n)
    PROVE  RoundInv'
<1> DEFINE d == driver[n]
           On(s) == IF Admissible(d, n, s) THEN OnShare(d, n, s)
                    ELSE [d |-> d, out |-> {}, extracted |-> {}, completed |-> {}]
<1>1. PICK s \in {o \in net : o.kind = "share" /\ o.to = n} :
        LET out == On(s).out \cup On(s).d.outbox
        IN  /\ driver' = [driver EXCEPT ![n] = [On(s).d EXCEPT !.outbox = {}]]
            /\ reputation' = [reputation EXCEPT ![n] = Reward(@, On(s).completed)]
            /\ net' = (net \ {s}) \cup Sendable(n, out)
            /\ sent' = sent \cup SharesIn(out)
            /\ UNCHANGED <<now, submitted, losses, restarts>>
  BY DEF HandleShare
<1> DEFINE r == On(s)
           out == r.out \cup r.d.outbox
           old == d.collectors[s.id]
           c == Submit(old, s.from, s.payload)
<1>2. /\ Fit(n, d) /\ Holds(n, d, sent) /\ now \in Nat /\ d.current \in Nat /\ d \in Driver
      /\ AllKeys(n) => Awake(d)
      BY ClockAssumption DEF RoundInv, Shape, Waking, Driver
<1>3. s \in Share /\ s.to = n /\ \E t \in sent : Told(t, s.from, s.id, s.payload)
  <2>1. s \in Start \cup Share /\ s.kind = "share" /\ s.to = n /\ s \in net BY DEF RoundInv, Shape
  <2>2. s \in Share BY <2>1 DEF Start
  <2> QED BY <2>1, <2>2 DEF RoundInv, Shape
<1>4. /\ driver' = [driver EXCEPT ![n] = [r.d EXCEPT !.outbox = {}]]
      /\ reputation' = [reputation EXCEPT ![n] = Reward(@, r.completed)]
      /\ net' = (net \ {s}) \cup Sendable(n, out) /\ sent' = sent \cup SharesIn(out)
      /\ UNCHANGED <<now, submitted, losses, restarts>>
  BY <1>1
<1>5. reputation' \in [Node -> [strikes : [Node -> Nat], evicted : SUBSET Node]]
  <2>1. reputation[n] \in [strikes : [Node -> Nat], evicted : SUBSET Node] BY DEF RoundInv, Shape
  <2>2. Reward(reputation[n], r.completed) \in [strikes : [Node -> Nat], evicted : SUBSET Node]
    <3> HIDE DEF r
    <3> QED BY <2>1 DEF Reward
  <2> HIDE DEF r
  <2> QED BY <1>4, <2>2 DEF RoundInv, Shape
<1>8. /\ driver' = [driver EXCEPT ![n] = [r.d EXCEPT !.outbox = {}]]
      /\ net' = (net \ {s}) \cup Sendable(n, out) /\ sent' = sent \cup SharesIn(out)
      /\ UNCHANGED <<now, submitted, losses, restarts>>
  BY <1>4
<1>6. CASE ~Admissible(d, n, s)
  <2>1. r.d = d /\ r.out = {} BY <1>6
  <2> HIDE DEF r
  <2>2. d.outbox \in SUBSET Start BY <1>2 DEF Driver
  <2>3. SharesIn(out) = {} /\ out \cap Share = {} /\ out \subseteq Start \cup Share
    BY <2>1, <2>2, StartsSent
  <2>4. Broadcasts(n, d, d, {})
    <3>1. Moves(d, d) BY <1>2 DEF Moves
    <3> QED BY <1>2, <3>1, MovesBroadcast
  <2>5. /\ Broadcasts(n, d, r.d, SharesIn(out)) /\ Fit(n, r.d) /\ (AllKeys(n) => Awake(r.d))
        /\ \A o \in out \cap Share : \E t \in SharesIn(out) : Told(t, o.from, o.id, o.payload)
    BY <1>2, <2>1, <2>3, <2>4
  <2> QED BY <1>5, <1>8, <2>3, <2>5, Handled
<1>7. CASE Admissible(d, n, s)
  <2>1. r = OnShare(d, n, s) BY <1>7
  <2> HIDE DEF r
  <2>2. /\ Fit(n, r.d) /\ d.current <= r.d.current
        /\ r.d.pendingRound \in {None, d.pendingRound} \/ r.d.pendingRound > d.current
        /\ \A id \in DOMAIN r.d.collectors :
             \/ id \in DOMAIN d.collectors /\ r.d.collectors[id] = d.collectors[id]
             \/ id = s.id /\ r.d.collectors[id] = c
             \/ r.d.collectors[id].shares = Empty
        /\ \/ r.out = {}
           \/ /\ r.out = SharesTo(n, s.id, s.channel, d.myShare.signed, c.parts, d.myShare.payload)
              /\ d.myShare # None /\ d.myShare.payload.parts = c.parts
              /\ d.pendingRound = s.id /\ Missing(c) = {n}
              /\ s.id <= r.d.current /\ s.id # r.d.pendingRound
        /\ AllKeys(n) /\ Awake(d) => Awake(r.d)
    <3>1. ShareTaken(n, d, s, c, r) BY <1>2, <1>3, <1>7, <2>1, Shared
    <3> QED BY <3>1 DEF ShareTaken
  \* What c holds of the others is for n, and they broadcast it.
  <2>3. Collected(n, d, s, c) BY <1>2, <1>3, <1>7, Collects
  <2>4. \A p \in DOMAIN c.shares \ {n} :
            n \in c.shares[p].parts /\ \E t \in sent : Told(t, p, s.id, c.shares[p])
    BY <2>3 DEF Collected
  <2> HIDE DEF c
  <2>5. \A T : Holds(n, r.d, sent \cup T)
    <3> TAKE T
    <3> SUFFICES ASSUME NEW id \in DOMAIN r.d.collectors,
                        NEW p \in DOMAIN r.d.collectors[id].shares \ {n}
                 PROVE  /\ n \in r.d.collectors[id].shares[p].parts
                        /\ \E t \in sent \cup T : Told(t, p, id, r.d.collectors[id].shares[p])
        BY DEF Holds
    <3>1. CASE id \in DOMAIN d.collectors /\ r.d.collectors[id] = d.collectors[id]
      BY <1>2, <3>1 DEF Holds
    <3>2. CASE id = s.id /\ r.d.collectors[id] = c BY <2>4, <3>2
    <3>3. CASE r.d.collectors[id].shares = Empty BY <3>3, EmptyTable
    <3> QED BY <2>2, <3>1, <3>2, <3>3
  <2>6. r.d.outbox \in SUBSET Start BY <2>2 DEF Fit, Driver
  <2>7. /\ Broadcasts(n, d, r.d, SharesIn(out)) /\ out \subseteq Start \cup Share
        /\ \A o \in out \cap Share : \E t \in SharesIn(out) : Told(t, o.from, o.id, o.payload)
    <3>1. CASE r.out = {}
      <4>1. out = r.d.outbox BY <3>1
      <4>2. SharesIn(out) = {} /\ out \cap Share = {} BY <2>6, <4>1, StartsSent
      <4> QED BY <2>2, <2>5, <2>6, <4>1, <4>2 DEF Broadcasts
    <3>2. CASE /\ r.out = SharesTo(n, s.id, s.channel, d.myShare.signed, c.parts, d.myShare.payload)
               /\ d.myShare # None /\ d.myShare.payload.parts = c.parts
               /\ d.pendingRound = s.id /\ Missing(c) = {n}
               /\ s.id <= r.d.current /\ s.id # r.d.pendingRound
      <4> DEFINE share == d.myShare.payload
                 signed == d.myShare.signed
                 t == [from |-> n, id |-> s.id, payload |-> share, channel |-> s.channel, signed |-> signed]
      <4>1. /\ share \in Payload /\ signed \in Channel
            /\ Cardinality(share.parts) \in 2..MaxParts
        <5>1. Proper(n, c) BY <2>3 DEF Collected
        <5> QED BY <1>2, <3>2, <5>1 DEF Driver, Carrier, Payload, Proper
      <4>2. s.id \in Nat /\ s.channel \in Channel BY <1>3 DEF Share
      <4>3. out = SharesTo(n, s.id, s.channel, signed, share.parts, share) \cup r.d.outbox
        BY <3>2
      <4>4. share.parts = c.parts BY <3>2
      <4> HIDE DEF share, signed, out
      <4>5. /\ t \in Broadcast /\ SharesIn(out) \subseteq {t} /\ out \subseteq Start \cup Share
            /\ \A o \in out \cap Share : t \in SharesIn(out) /\ Told(t, o.from, o.id, o.payload)
        <5> DEFINE u == SharesTo(n, s.id, s.channel, signed, share.parts, share) \cup r.d.outbox
        <5>1. u \subseteq Start \cup Share BY <2>6, <4>1, <4>2, SharesSent
        <5>2. t \in Broadcast BY <2>6, <4>1, <4>2, SharesSent
        <5>3. SharesIn(u) \subseteq {t}
          <6> DEFINE starts == r.d.outbox
                     id == s.id
                     channel == s.channel
          <6>1. id \in Nat /\ channel \in Channel /\ starts \in SUBSET Start BY <2>6, <4>2
          <6> HIDE DEF starts, id, channel
          <6>2. SharesIn(SharesTo(n, id, channel, signed, share.parts, share) \cup starts) \subseteq
                    {[from |-> n, id |-> id, payload |-> share, channel |-> channel, signed |-> signed]}
            BY <4>1, <6>1, SharesSent
          <6> QED BY <6>2 DEF starts, id, channel
        <5>4. \A o \in u \cap Share : t \in SharesIn(u) /\ Told(t, o.from, o.id, o.payload)
          BY <2>6, <4>1, <4>2, SharesSent
        <5> QED BY <4>3, <5>1, <5>2, <5>3, <5>4
      <4>6. t.from = n /\ t.id = s.id /\ t.payload = share OBVIOUS
      <4> HIDE DEF t
      <4>7. ASSUME restarts = 0, NEW p \in c.parts \ {n}
            PROVE  \E u \in sent : u.from = p /\ u.id = s.id /\ u.payload.msg = None
        <5>1. p \in DOMAIN c.shares BY <3>2, <4>7 DEF Missing
        <5>2. PICK u \in sent : Told(u, p, s.id, c.shares[p]) BY <2>4, <4>7, <5>1
        <5>3. u.from = p /\ u.id = s.id /\ n \in u.payload.parts BY <2>4, <4>7, <5>1, <5>2 DEF Told
        <5>4. u.payload.msg = None
          <6> SUFFICES ASSUME u.payload.msg # None PROVE FALSE OBVIOUS
          <6>1. CarrierLast /\ Unspent(n, d, sent) BY <4>7 DEF RoundInv
          <6>2. n \in u.payload.parts \ {u.from} BY <4>7, <5>3
          <6>3. PICK v \in sent : v.from = n /\ v.id = u.id BY <6>1, <6>2 DEF CarrierLast
          <6>4. v.id # d.pendingRound BY <6>1, <6>3 DEF Unspent
          <6> QED BY <3>2, <5>3, <6>3, <6>4
        <5> QED BY <5>3, <5>4
      <4>8. Broadcasts(n, d, r.d, SharesIn(out))
        BY <2>2, <2>5, <3>2, <4>4, <4>5, <4>6, <4>7 DEF Broadcasts
      <4> QED BY <4>5, <4>8
    <3> QED BY <2>2, <3>1, <3>2
  <2>8. AllKeys(n) => Awake(r.d) BY <1>2, <2>2
  <2>9. Fit(n, r.d) BY <2>2
  <2> QED BY <1>5, <1>8, <2>7, <2>8, <2>9, Handled
<1> QED BY <1>6, <1>7

LEMMA StepInv == RoundInv /\ [Next]_vars => RoundInv'
<1> SUFFICES ASSUME RoundInv, [Next]_vars PROVE RoundInv' OBVIOUS
<1>1. ASSUME NEW n \in Node, NEW m \in Msg, QueueMessage(n, m) PROVE RoundInv' BY <1>1, QueueInv
<1>2. ASSUME NEW n \in Node, Tick(n) PROVE RoundInv' BY <1>2, TickStep
<1>3. ASSUME NEW n \in Node, HandleStart(n) PROVE RoundInv' BY <1>3, StartInv
<1>4. ASSUME NEW n \in Node, HandleShare(n) PROVE RoundInv' BY <1>4, ShareInv
<1>5. ASSUME NEW n \in Node, Restart(n) PROVE RoundInv' BY <1>5, RestartInv
<1>6. ASSUME NEW n \in Node, NEW p \in Node, Reinstate(n, p) PROVE RoundInv' BY <1>6, ReinstateInv
<1>7. CASE Lose BY <1>7, LoseInv
<1>8. CASE AdvanceClock BY <1>8, ClockInv
<1>9. CASE UNCHANGED vars
  <2>1. Shape' BY <1>9 DEF RoundInv, Shape, vars
  <2> QED BY <1>9, <2>1, Still DEF vars
<1> QED BY <1>1, <1>2, <1>3, <1>4, <1>5, <1>6, <1>7, <1>8, <1>9 DEF Next

LEMMA RoundAlways == Spec => []RoundInv
BY InitInv, StepInv, PTL DEF Spec

----------------------------------------------------------------------------
(* A message is extracted once *)

\* Nodes that share a round id chose the same participants.  Two nodes always do.
Agreed == \A s, t \in sent : s.id = t.id => s.payload.parts = t.payload.parts

\* What n holds and has queued are different messages of its own, and a round
\* it has extracted from is behind it.
Keeper(n, d) ==
    /\ \A m \in Held(d) \cup Queued(d) : m \in submitted /\ AuthorOf[m] = n
    /\ \A i, j \in DOMAIN d.queue : d.queue[i] = d.queue[j] => i = j
    /\ Held(d) \cap Queued(d) = {}
    /\ \A id \in d.emitted : id <= d.current /\ id # d.pendingRound

\* n has not yet sent what it holds or has queued.
Unsent(n, d, S) == \A t \in S : t.from = n => t.payload.msg \notin Held(d) \cup Queued(d)

\* A message is carried in one round only.
OneRound(S) ==
    \A s, t \in S : s.payload.msg # None /\ s.payload.msg = t.payload.msg => s.id = t.id

\* What was extracted was sent, in a round its node is done with.
Drawn(x) ==
    /\ x.node \in Node /\ x.msg # None /\ x.id \in driver[x.node].emitted
    /\ \E t \in sent : t.id = x.id /\ t.payload.msg = x.msg

Once ==
    /\ \A n \in Node : Keeper(n, driver[n])
    /\ \A t \in sent : t.payload.msg # None =>
        AuthorOf[t.payload.msg] = t.from /\ t.payload.msg \in submitted
    /\ \A x \in delivered : Drawn(x)
    /\ \A x, y \in delivered : x.node = y.node /\ x.id = y.id => x = y
    /\ Agreed => (\A n \in Node : Unsent(n, driver[n], sent)) /\ OneRound(sent)

LEMMA QueuePopped ==
    ASSUME NEW q \in Seq(Msg), q # <<>>, \A i, j \in DOMAIN q : q[i] = q[j] => i = j
    PROVE  LET left == {Tail(q)[i] : i \in DOMAIN Tail(q)}
           IN  /\ \A i, j \in DOMAIN Tail(q) : Tail(q)[i] = Tail(q)[j] => i = j
               /\ left \subseteq {q[i] : i \in DOMAIN q} \ {Head(q)}
               /\ Head(q) \in {q[i] : i \in DOMAIN q}
<1>1. /\ Len(q) \in Nat /\ Len(q) > 0 /\ DOMAIN q = 1..Len(q) /\ Head(q) = q[1]
      /\ DOMAIN Tail(q) = 1..(Len(q) - 1)
      /\ \A i \in 1..(Len(q) - 1) : Tail(q)[i] = q[i + 1]
  OBVIOUS
<1>2. \A i \in DOMAIN Tail(q) : i \in Nat /\ i + 1 \in DOMAIN q /\ Tail(q)[i] = q[i + 1] /\ i + 1 # 1
  BY <1>1
<1>3. 1 \in DOMAIN q BY <1>1
<1>4. \A i \in DOMAIN Tail(q) : Tail(q)[i] # Head(q) BY <1>1, <1>2, <1>3
<1>5. \A i, j \in DOMAIN Tail(q) : Tail(q)[i] = Tail(q)[j] => i = j
  <2> SUFFICES ASSUME NEW i \in DOMAIN Tail(q), NEW j \in DOMAIN Tail(q), Tail(q)[i] = Tail(q)[j]
               PROVE  i = j
      OBVIOUS
  <2>1. i + 1 = j + 1 BY <1>2
  <2> QED BY <1>2, <2>1
<1> QED BY <1>1, <1>2, <1>3, <1>4, <1>5

\* A driver that takes nothing up but the head of its queue stays a keeper.
LEMMA KeeperKept ==
    ASSUME NEW n \in Node, NEW d, NEW e, Fit(n, d), Fit(n, e), Keeper(n, d), d.current <= e.current,
           e.pendingRound \in {None, d.pendingRound} \/ e.pendingRound > d.current,
           \A id \in e.emitted \ d.emitted : id <= e.current /\ id # e.pendingRound,
           \/ e.queue = d.queue /\ Held(e) \subseteq Held(d)
           \/ /\ d.queue # <<>> /\ e.queue = Tail(d.queue)
              /\ Held(e) \subseteq Held(d) \cup {Head(d.queue)}
    PROVE  Keeper(n, e) /\ Held(e) \cup Queued(e) \subseteq Held(d) \cup Queued(d)
<1>1. /\ d \in Driver /\ d.current \in Nat /\ e.current \in Nat /\ d.queue \in Seq(Msg)
      /\ d.emitted \in SUBSET Nat
      BY DEF Fit, Driver
<1>2. \A id \in e.emitted : id <= e.current /\ id # e.pendingRound
  <2> SUFFICES ASSUME NEW id \in d.emitted PROVE id <= e.current /\ id # e.pendingRound OBVIOUS
  <2>1. id \in Nat /\ id <= d.current /\ id # d.pendingRound BY <1>1 DEF Keeper
  <2> QED BY <1>1, <2>1, NodeAssumption
<1>3. CASE e.queue = d.queue /\ Held(e) \subseteq Held(d)
  <2>1. Queued(e) = Queued(d) BY <1>3 DEF Queued
  <2> QED BY <1>2, <1>3, <2>1 DEF Keeper
<1>4. CASE /\ d.queue # <<>> /\ e.queue = Tail(d.queue)
           /\ Held(e) \subseteq Held(d) \cup {Head(d.queue)}
  <2>1. \A i, j \in DOMAIN d.queue : d.queue[i] = d.queue[j] => i = j BY DEF Keeper
  <2>2. /\ \A i, j \in DOMAIN e.queue : e.queue[i] = e.queue[j] => i = j
        /\ Queued(e) \subseteq Queued(d) \ {Head(d.queue)} /\ Head(d.queue) \in Queued(d)
    <3> DEFINE q == d.queue
    <3>1. q \in Seq(Msg) /\ q # <<>> /\ \A i, j \in DOMAIN q : q[i] = q[j] => i = j
      BY <1>1, <1>4, <2>1
    <3>2. /\ \A i, j \in DOMAIN Tail(q) : Tail(q)[i] = Tail(q)[j] => i = j
          /\ {Tail(q)[i] : i \in DOMAIN Tail(q)} \subseteq {q[i] : i \in DOMAIN q} \ {Head(q)}
          /\ Head(q) \in {q[i] : i \in DOMAIN q}
      <4> HIDE DEF q
      <4> QED BY <3>1, QueuePopped
    <3>3. e.queue = Tail(q) BY <1>4
    <3> QED BY <3>2, <3>3 DEF Queued
  <2> QED BY <1>2, <1>4, <2>2 DEF Keeper
<1> QED BY <1>3, <1>4

\* A step in which n's driver moves from d to e sends shares of one round: neutral
\* ones, or one that carries a message n lets go of.
Sends(n, d, e) ==
    /\ sent \subseteq sent'
    /\ \A t, u \in sent' \ sent : t.id = u.id
    /\ \A t \in sent' \ sent : t.payload.msg # None =>
        /\ t.from = n /\ t.payload.msg \in Held(d)
        /\ Agreed' => t.payload.msg \notin Held(e) \cup Queued(e)

\* It extracts at most one message, from a round that n is done with.
Draws(n, d, e) ==
    /\ delivered \subseteq delivered' /\ d.emitted \subseteq e.emitted
    /\ \A x \in delivered' \ delivered :
        /\ x.node = n /\ x.msg # None /\ x.id \in e.emitted \ d.emitted
        /\ \E t \in sent' : t.id = x.id /\ t.payload.msg = x.msg
    /\ \A x, y \in delivered' \ delivered : x = y

LEMMA OnceKept ==
    ASSUME RoundInv, Once, NEW n \in Node, NEW e, driver' = [driver EXCEPT ![n] = e],
           UNCHANGED submitted, Keeper(n, e),
           Held(e) \cup Queued(e) \subseteq Held(driver[n]) \cup Queued(driver[n]),
           Sends(n, driver[n], e), Draws(n, driver[n], e)
    PROVE  Once'
<1> DEFINE d == driver[n]
<1>1. driver'[n] = e /\ \A m \in Node \ {n} : driver'[m] = driver[m]
  BY DEF RoundInv, Shape
<1> DEFINE new == sent' \ sent
           gained == delivered' \ delivered
<1>1a. /\ sent' = sent \cup new
       /\ \A t, u \in new : t.id = u.id
       /\ \A t \in new : t.payload.msg # None =>
             /\ t.from = n /\ t.payload.msg \in Held(d)
             /\ Agreed' => t.payload.msg \notin Held(e) \cup Queued(e)
  BY DEF Sends
<1>1b. /\ delivered' = delivered \cup gained /\ d.emitted \subseteq e.emitted
       /\ \A x \in gained :
             /\ x.node = n /\ x.msg # None /\ x.id \in e.emitted \ d.emitted
             /\ \E t \in sent' : t.id = x.id /\ t.payload.msg = x.msg
       /\ \A x, y \in gained : x = y
  BY DEF Draws
<1> HIDE DEF new, gained
<1>2. ASSUME NEW m \in Node PROVE Keeper(m, driver[m])'
  <2>1. Keeper(m, driver'[m]) BY <1>1 DEF Once
  <2> QED BY <2>1 DEF Keeper
<1>3. \A t \in sent' : t.payload.msg # None =>
        AuthorOf[t.payload.msg] = t.from /\ t.payload.msg \in submitted'
  <2>1. \A m \in Held(d) : m \in submitted /\ AuthorOf[m] = n BY DEF Once, Keeper
  <2> QED BY <1>1a, <2>1 DEF Once
<1>4. ASSUME NEW x \in delivered' PROVE Drawn(x)'
  <2>1. CASE x \in delivered
    <3>1. Drawn(x) BY <2>1 DEF Once
    <3>2. x.id \in driver'[x.node].emitted BY <1>1, <1>1b, <3>1 DEF Drawn
    <3> QED BY <1>1a, <3>1, <3>2 DEF Drawn
  <2>2. CASE x \in gained BY <1>1, <1>1b, <2>2 DEF Drawn
  <2> QED BY <1>1b, <2>1, <2>2
<1>5. ASSUME NEW x \in delivered', NEW y \in delivered', x.node = y.node, x.id = y.id PROVE x = y
  <2>1. CASE x \in delivered /\ y \in delivered BY <1>5, <2>1 DEF Once
  <2>2. CASE x \in gained /\ y \in gained BY <1>1b, <2>2
  <2>3. ASSUME NEW v \in delivered, NEW w \in gained, v.node = w.node, v.id = w.id PROVE FALSE
    <3>1. v.id \in d.emitted BY <1>1b, <2>3 DEF Once, Drawn
    <3> QED BY <1>1b, <2>3, <3>1
  <2> QED BY <1>5, <1>1b, <2>1, <2>2, <2>3
<1>6. ASSUME Agreed'
      PROVE  (\A m \in Node : Unsent(m, driver[m], sent))' /\ OneRound(sent)'
  <2>1. (\A m \in Node : Unsent(m, driver[m], sent)) /\ OneRound(sent)
    <3>1. Agreed BY <1>6, <1>1a DEF Agreed
    <3> QED BY <3>1 DEF Once
  <2>2. ASSUME NEW m \in Node, NEW t \in sent', t.from = m
        PROVE  t.payload.msg \notin Held(driver'[m]) \cup Queued(driver'[m])
    <3>1. CASE t \in sent
      <4>1. t.payload.msg \notin Held(driver[m]) \cup Queued(driver[m]) BY <2>1, <2>2, <3>1 DEF Unsent
      <4> QED BY <1>1, <4>1
    <3>2. CASE t \in new /\ t.payload.msg # None BY <1>1, <1>6, <1>1a, <2>2, <3>2
    <3>3. CASE t.payload.msg = None
      <4>1. None \notin submitted' BY NodeAssumption DEF RoundInv, Shape
      <4> QED BY <1>2, <3>3, <4>1 DEF Keeper
    <3> QED BY <1>1a, <2>2, <3>1, <3>2, <3>3
  <2>3. ASSUME NEW t \in sent, NEW u \in new, u.payload.msg # None, t.payload.msg = u.payload.msg
        PROVE  FALSE
    <3>1. u.payload.msg \in Held(d) BY <1>1a, <2>3
    <3>2. AuthorOf[u.payload.msg] = n BY <3>1 DEF Once, Keeper
    <3>3. t.from = n BY <2>3, <3>2 DEF Once
    <3> QED BY <2>1, <2>3, <3>1, <3>3 DEF Unsent
  <2>4. OneRound(sent)' BY <1>1a, <2>1, <2>3 DEF OneRound
  <2> QED BY <2>2, <2>4 DEF Unsent
<1> QED BY <1>2, <1>3, <1>4, <1>5, <1>6 DEF Once

\* A step in which nothing is queued, held, sent or extracted.
LEMMA OnceStill ==
    ASSUME Once, UNCHANGED <<driver, submitted, sent, delivered>>
    PROVE  Once'
<1>1. Agreed' = Agreed BY DEF Agreed
<1>2. \A n \in Node : Keeper(n, driver[n])' BY DEF Once, Keeper
<1>3. \A x \in delivered' : Drawn(x)' BY DEF Once, Drawn
<1> QED BY <1>1, <1>2, <1>3 DEF Once

LEMMA QueueOnce ==
    ASSUME RoundInv, Once, NEW n \in Node, NEW m \in Msg, QueueMessage(n, m)
    PROVE  Once'
<1> DEFINE d == driver[n]
           e == [d EXCEPT !.queue = Append(@, m)]
<1>1. d \in Driver /\ d.queue \in Seq(Msg) BY DEF RoundInv, Shape, Driver
<1>2. /\ m \notin submitted /\ AuthorOf[m] = n /\ submitted' = submitted \cup {m}
      /\ driver' = [driver EXCEPT ![n] = e] /\ UNCHANGED <<sent, delivered>>
  BY DEF QueueMessage
<1>3. e.queue = Append(d.queue, m) /\ e.emitted = d.emitted /\ e.current = d.current
      /\ e.pendingRound = d.pendingRound /\ Held(e) = Held(d)
  BY <1>1 DEF Driver, Held
<1> HIDE DEF e
<1>4. /\ DOMAIN d.queue = 1..Len(d.queue) /\ Len(d.queue) \in Nat
      /\ DOMAIN e.queue = 1..(Len(d.queue) + 1) /\ e.queue[Len(d.queue) + 1] = m
      /\ \A i \in DOMAIN d.queue : e.queue[i] = d.queue[i]
  BY <1>1, <1>3
<1>5. \A i \in DOMAIN e.queue : i \in DOMAIN d.queue \/ i = Len(d.queue) + 1 BY <1>4
<1>6. Queued(e) = Queued(d) \cup {m}
  <2>1. DOMAIN d.queue \subseteq DOMAIN e.queue /\ Len(d.queue) + 1 \in DOMAIN e.queue BY <1>4
  <2> QED BY <1>4, <1>5, <2>1 DEF Queued
<1>7. Keeper(n, d) /\ m \notin Held(d) \cup Queued(d) BY <1>2 DEF Once, Keeper
<1>8. \A i, j \in DOMAIN e.queue : e.queue[i] = e.queue[j] => i = j
  <2>1. \A i \in DOMAIN d.queue : e.queue[i] # m BY <1>4, <1>7 DEF Queued
  <2> QED BY <1>4, <1>5, <1>7, <2>1 DEF Keeper
<1>9. driver'[n] = e /\ \A x \in Node \ {n} : driver'[x] = driver[x]
  BY <1>2 DEF RoundInv, Shape
<1>10. ASSUME NEW x \in Node PROVE Keeper(x, driver[x])'
  <2>1. CASE x = n
    <3>1. /\ \A y \in Held(e) \cup Queued(e) : y \in submitted' /\ AuthorOf[y] = n
          /\ Held(e) \cap Queued(e) = {}
          /\ \A id \in e.emitted : id <= e.current /\ id # e.pendingRound
      BY <1>2, <1>3, <1>6, <1>7 DEF Keeper
    <3> QED BY <1>8, <1>9, <2>1, <3>1 DEF Keeper
  <2>2. CASE x # n
    <3>1. Keeper(x, driver[x]) BY DEF Once
    <3> QED BY <1>2, <1>9, <2>2, <3>1 DEF Keeper
  <2> QED BY <2>1, <2>2
<1>11. \A x \in delivered' : Drawn(x)'
  <2>1. \A x \in Node : driver'[x].emitted = driver[x].emitted BY <1>3, <1>9
  <2> QED BY <1>2, <2>1 DEF Once, Drawn
<1>12. ASSUME Agreed' PROVE (\A x \in Node : Unsent(x, driver[x], sent))' /\ OneRound(sent)'
  <2>1. (\A x \in Node : Unsent(x, driver[x], sent)) /\ OneRound(sent)
    BY <1>2, <1>12 DEF Once, Agreed
  <2>2. \A t \in sent : t.payload.msg # m BY <1>2, NodeAssumption DEF Once
  <2>3. ASSUME NEW x \in Node PROVE Unsent(x, driver'[x], sent')
    <3>1. Held(driver'[x]) \cup Queued(driver'[x]) \subseteq Held(driver[x]) \cup Queued(driver[x]) \cup {m}
      BY <1>3, <1>6, <1>9
    <3> QED BY <1>2, <2>1, <2>2, <3>1 DEF Unsent
  <2> QED BY <1>2, <2>1, <2>3 DEF Unsent
<1>13. /\ \A t \in sent' : t.payload.msg # None =>
            AuthorOf[t.payload.msg] = t.from /\ t.payload.msg \in submitted'
       /\ \A x, y \in delivered' : x.node = y.node /\ x.id = y.id => x = y
  BY <1>2 DEF Once
<1> QED BY <1>10, <1>11, <1>12, <1>13 DEF Once

LEMMA TickOnce ==
    ASSUME RoundInv, RoundInv', Once, NEW n \in Node, Tick(n)
    PROVE  Once'
<1> DEFINE d == driver[n]
<1>1. PICK expired \in SUBSET Expirable(n) : \E after \in ExpireRounds(d, n, expired), parts \in SUBSET Node :
        driver' = [driver EXCEPT ![n] = (IF Cardinality(parts) >= 2 THEN InitiateNext(after, n, parts)
                                         ELSE [d |-> after, out |-> {}]).d]
  <2>1. PICK expired \in SUBSET Expirable(n) : \E after \in ExpireRounds(d, n, expired) :
        LET blame == [p \in Node |->
                Cardinality({id \in expired : p \in Blamed(n, d.collectors[id])})]
            rep == Penalize(reputation[n], blame)
            parts == Participants(n, rep.evicted)
            next == IF Cardinality(parts) >= 2 THEN InitiateNext(after, n, parts)
                    ELSE [d |-> after, out |-> {}]
        IN  driver' = [driver EXCEPT ![n] = next.d]
    BY DEF Tick
  <2>2. PICK S : \E after \in ExpireRounds(d, n, expired) :
        driver' = [driver EXCEPT ![n] =
            (IF Cardinality(Participants(n, S)) >= 2 THEN InitiateNext(after, n, Participants(n, S))
             ELSE [d |-> after, out |-> {}]).d]
    BY <2>1
  <2>3. Participants(n, S) \in SUBSET Node BY LinkAssumption DEF Participants
  <2> QED BY <2>2, <2>3
<1>2. PICK after \in ExpireRounds(d, n, expired), parts \in SUBSET Node :
        driver' = [driver EXCEPT ![n] = (IF Cardinality(parts) >= 2 THEN InitiateNext(after, n, parts)
                                         ELSE [d |-> after, out |-> {}]).d]
  BY <1>1
<1> DEFINE e == driver'[n]
<1>3. /\ Fit(n, d) /\ now \in Nat /\ Keeper(n, d) /\ d \in Driver /\ d.current \in Nat
      /\ expired \in SUBSET DOMAIN d.collectors
      /\ Fit(n, e)
  <2>1. Fit(n, d) /\ now \in Nat /\ Keeper(n, d) /\ d \in Driver /\ d.current \in Nat
    <3>1. Fit(n, d) /\ now \in Nat BY ClockAssumption DEF RoundInv, Shape
    <3>2. Keeper(n, d) BY DEF Once
    <3> QED BY <3>1, <3>2 DEF Fit, Driver
  <2> QED BY <2>1 DEF RoundInv, Shape, Expirable
<1>4. Fit(n, after) /\ Moves(d, after) /\ Keeps(d, after) BY <1>3, AllExpired
<1>5. e = (IF Cardinality(parts) >= 2 THEN InitiateNext(after, n, parts) ELSE [d |-> after, out |-> {}]).d
  BY <1>2 DEF RoundInv, Shape
<1>6. driver' = [driver EXCEPT ![n] = e] BY <1>2, <1>5
<1> HIDE DEF e
<1>7. /\ Moves(after, e) /\ e.emitted = after.emitted
      /\ \/ e.queue = after.queue /\ Held(e) \subseteq Held(after)
         \/ /\ after.queue # <<>> /\ e.queue = Tail(after.queue)
            /\ Held(e) \subseteq Held(after) \cup {Head(after.queue)}
  <2>1. CASE Cardinality(parts) >= 2
    <3>1. e = InitiateNext(after, n, parts).d BY <1>5, <2>1
    <3> QED BY <1>3, <1>4, <3>1, QueueHead
  <2>2. CASE ~(Cardinality(parts) >= 2)
    <3>1. e = after BY <1>5, <2>2
    <3>2. after.current \in Nat BY <1>4 DEF Fit, Driver
    <3> QED BY <3>1, <3>2 DEF Moves
  <2> QED BY <2>1, <2>2
<1>8. Moves(d, e) BY <1>3, <1>4, <1>7, MovesOnward
<1>9. /\ e.emitted = d.emitted
      /\ \/ e.queue = d.queue /\ Held(e) \subseteq Held(d)
         \/ /\ d.queue # <<>> /\ e.queue = Tail(d.queue)
            /\ Held(e) \subseteq Held(d) \cup {Head(d.queue)}
  BY <1>4, <1>7 DEF Keeps
<1>10. Keeper(n, e) /\ Held(e) \cup Queued(e) \subseteq Held(d) \cup Queued(d)
  <2>1. d.current <= e.current /\ (e.pendingRound \in {None, d.pendingRound} \/ e.pendingRound > d.current)
    BY <1>8 DEF Moves
  <2>2. \A id \in e.emitted \ d.emitted : id <= e.current /\ id # e.pendingRound BY <1>9
  <2> QED BY <1>3, <1>9, <2>1, <2>2, KeeperKept
<1>11. UNCHANGED <<submitted, sent, delivered>> BY DEF Tick
<1>12. Sends(n, d, e) /\ Draws(n, d, e) BY <1>9, <1>11 DEF Sends, Draws
<1> QED BY <1>6, <1>10, <1>11, <1>12, OnceKept

\* n broadcasts t, which carries what it held and comes out at n at once where the
\* nodes of the round agree.
Carries(n, t) ==
    /\ sent' = sent \cup {t} /\ t.from = n /\ n \in t.payload.parts
    /\ t.payload.msg \in Held(driver[n])
    /\ Agreed' => \E x \in delivered' \ delivered : x.id = t.id /\ x.msg = t.payload.msg

\* A handler leaves n with the driver e. It broadcasts neutral shares, or a carrier.
Effect(n, e) ==
    /\ Fit(n, e) /\ driver' = [driver EXCEPT ![n] = [e EXCEPT !.outbox = {}]]
    /\ UNCHANGED submitted
    /\ driver[n].current <= e.current
    /\ e.pendingRound \in {None, driver[n].pendingRound} \/ e.pendingRound > driver[n].current
    /\ \A id \in e.emitted \ driver[n].emitted : id <= e.current /\ id # e.pendingRound
    /\ e.queue = driver[n].queue /\ Held(e) \subseteq Held(driver[n])
    /\ Sends(n, driver[n], e) /\ Draws(n, driver[n], e)
    /\ \/ \A t \in sent' \ sent : t.payload.msg = None
       \/ \E t : Carries(n, t)

\* The end of both handlers, for what a driver holds.
LEMMA OnceHandled ==
    ASSUME RoundInv, Once, NEW n \in Node, NEW d, Effect(n, d)
    PROVE  Once'
<1>0. /\ Fit(n, d) /\ driver' = [driver EXCEPT ![n] = [d EXCEPT !.outbox = {}]]
      /\ UNCHANGED submitted /\ driver[n].current <= d.current
      /\ d.pendingRound \in {None, driver[n].pendingRound} \/ d.pendingRound > driver[n].current
      /\ \A id \in d.emitted \ driver[n].emitted : id <= d.current /\ id # d.pendingRound
      /\ d.queue = driver[n].queue /\ Held(d) \subseteq Held(driver[n])
      /\ Sends(n, driver[n], d) /\ Draws(n, driver[n], d)
  BY DEF Effect
<1> DEFINE e == [d EXCEPT !.outbox = {}]
<1>1. /\ e \in Driver /\ e.current = d.current /\ e.collectors = d.collectors
      /\ e.pendingRound = d.pendingRound /\ e.myShare = d.myShare
      /\ e.emitted = d.emitted /\ e.queue = d.queue /\ Held(e) = Held(d)
  BY <1>0 DEF Fit, Driver, Held
<1>2. driver' = [driver EXCEPT ![n] = e] BY <1>0
<1> HIDE DEF e
<1>3. Fit(n, e) BY <1>0, <1>1 DEF Fit, Ready
<1>4. Fit(n, driver[n]) /\ Keeper(n, driver[n]) BY DEF RoundInv, Shape, Once
<1>5. Keeper(n, e) /\ Held(e) \cup Queued(e) \subseteq Held(driver[n]) \cup Queued(driver[n])
  BY <1>0, <1>1, <1>3, <1>4, KeeperKept
<1>6. Sends(n, driver[n], e) /\ Draws(n, driver[n], e) BY <1>0, <1>1 DEF Sends, Draws, Queued
<1> QED BY <1>0, <1>2, <1>5, <1>6, OnceKept

\* Joining a round broadcasts a neutral share at most.
LEMMA StartEffect ==
    ASSUME RoundInv, NEW n \in Node, HandleStart(n)
    PROVE  \E e : Effect(n, e)
<1> DEFINE d == driver[n]
<1>1. PICK s \in {o \in net : o.kind = "start" /\ o.to = n} :
        LET r == OnStart(d, n, s)
            out == r.out \cup r.d.outbox
        IN  /\ driver' = [driver EXCEPT ![n] = [r.d EXCEPT !.outbox = {}]]
            /\ sent' = sent \cup SharesIn(out)
            /\ UNCHANGED <<submitted, delivered>>
  BY DEF HandleStart
<1> DEFINE r == OnStart(d, n, s)
           out == r.out \cup r.d.outbox
           share == XorShare(s.parts, None)
<1>2. /\ driver' = [driver EXCEPT ![n] = [r.d EXCEPT !.outbox = {}]]
      /\ sent' = sent \cup SharesIn(out) /\ UNCHANGED <<submitted, delivered>>
  BY <1>1
<1>3. Fit(n, d) /\ now \in Nat BY ClockAssumption DEF RoundInv, Shape
<1>4. s \in Start /\ s.to = n
  <2>1. s \in Start \cup Share /\ s.kind = "start" /\ s.to = n BY DEF RoundInv, Shape
  <2> QED BY <2>1 DEF Share
<1>5. /\ Fit(n, r.d) /\ d.current <= r.d.current /\ r.d.pendingRound \in {None, d.pendingRound}
      /\ Keeps(d, r.d)
      /\ r.out = {} \/ r.out = SharesTo(n, s.id, s.channel, s.channel, s.parts, share)
  BY <1>3, <1>4, Joined
<1> HIDE DEF r
<1>6. r.d.outbox \in SUBSET Start BY <1>5 DEF Fit, Driver
<1>7. \A t \in SharesIn(out) : t.id = s.id /\ t.payload.msg = None
  <2>1. CASE r.out = {}
    <3>1. out = r.d.outbox BY <2>1
    <3> QED BY <1>6, <3>1, StartsSent
  <2>2. CASE r.out = SharesTo(n, s.id, s.channel, s.channel, s.parts, share)
    <3> DEFINE t == [from |-> n, id |-> s.id, payload |-> share, channel |-> s.channel, signed |-> s.channel]
    <3>1. /\ share \in Payload /\ share.parts = s.parts /\ share.msg = None
          /\ s.id \in Nat /\ s.channel \in Channel /\ Cardinality(share.parts) \in 2..MaxParts
      BY <1>4 DEF Start, XorShare, Payload
    <3> HIDE DEF share
    <3>2. out = SharesTo(n, s.id, s.channel, s.channel, share.parts, share) \cup r.d.outbox
      BY <2>2, <3>1
    <3> HIDE DEF out
    <3>3. SharesIn(out) \subseteq {t} BY <1>6, <3>1, <3>2, SharesSent
    <3>4. t.id = s.id /\ t.payload = share OBVIOUS
    <3> HIDE DEF t
    <3> QED BY <3>1, <3>3, <3>4
  <2> QED BY <1>5, <2>1, <2>2
<1> HIDE DEF out
<1>9. r.d.queue = d.queue /\ r.d.emitted = d.emitted /\ Held(r.d) \subseteq Held(d) BY <1>5 DEF Keeps
<1>10. Sends(n, d, r.d) /\ Draws(n, d, r.d) BY <1>2, <1>7, <1>9 DEF Sends, Draws
<1>11. \A t \in sent' \ sent : t.payload.msg = None BY <1>2, <1>7
<1>12. Effect(n, r.d) BY <1>2, <1>5, <1>9, <1>10, <1>11 DEF Effect
<1> QED BY <1>12

\* What comes out of a set of shares was in one of them.
LEMMA ExtractedIsShared ==
    ASSUME NEW shares, Extract(shares) # None
    PROVE  \E a \in DOMAIN shares : shares[a].msg = Extract(shares)
<1>1. /\ Cardinality(Carriers(shares)) = 1
      /\ Extract(shares) = shares[CHOOSE a \in Carriers(shares) : TRUE].msg
  BY DEF Extract, UnpadMessage
<1>2. Carriers(shares) # {} BY <1>1, FS_EmptySet
<1>3. (CHOOSE a \in Carriers(shares) : TRUE) \in Carriers(shares) BY <1>2
<1> QED BY <1>1, <1>3 DEF Carriers

\* Shares of the same participants cancel out to the message of the only carrier.
LEMMA CarrierExtracted ==
    ASSUME NEW shares, NEW n \in DOMAIN shares, shares[n].msg # None,
           \A a \in DOMAIN shares : shares[a].parts = DOMAIN shares,
           \A a \in DOMAIN shares \ {n} : shares[a].msg = None
    PROVE  Extract(shares) = shares[n].msg
<1>1. PadsCancel(shares) BY DEF PadsCancel
<1>2. Carriers(shares) = {n} BY DEF Carriers
<1>3. Cardinality({n}) = 1 BY FS_Singleton
<1>4. (CHOOSE a \in {n} : TRUE) = n OBVIOUS
<1> QED BY <1>1, <1>2, <1>3, <1>4 DEF Extract, UnpadMessage

\* A share collected broadcasts nothing, or our own, and may complete the round.
LEMMA ShareEffect ==
    ASSUME RoundInv, RoundInv', restarts = 0, restarts' = 0, Once, NEW n \in Node, HandleShare(n)
    PROVE  \E e : Effect(n, e)
<1> DEFINE d == driver[n]
           On(s) == IF Admissible(d, n, s) THEN OnShare(d, n, s)
                    ELSE [d |-> d, out |-> {}, extracted |-> {}, completed |-> {}]
<1>1. PICK s \in {o \in net : o.kind = "share" /\ o.to = n} :
        LET out == On(s).out \cup On(s).d.outbox
        IN  /\ driver' = [driver EXCEPT ![n] = [On(s).d EXCEPT !.outbox = {}]]
            /\ sent' = sent \cup SharesIn(out)
            /\ delivered' = delivered \cup On(s).extracted
            /\ UNCHANGED submitted
  BY DEF HandleShare
<1> DEFINE r == On(s)
           out == r.out \cup r.d.outbox
           got == Submit(d.collectors[s.id], s.from, s.payload)
<1>2. /\ Fit(n, d) /\ Holds(n, d, sent) /\ now \in Nat /\ d.current \in Nat /\ d \in Driver
      /\ Keeper(n, d)
  <2>1. Fit(n, d) /\ now \in Nat BY ClockAssumption DEF RoundInv, Shape
  <2>2. Holds(n, d, sent) BY DEF RoundInv
  <2>3. Keeper(n, d) BY DEF Once
  <2> QED BY <2>1, <2>2, <2>3 DEF Fit, Driver
<1>3. s \in Share /\ s.to = n /\ \E t \in sent : Told(t, s.from, s.id, s.payload)
  <2>1. s \in Start \cup Share /\ s.kind = "share" /\ s.to = n /\ s \in net BY DEF RoundInv, Shape
  <2>2. s \in Share BY <2>1 DEF Start
  <2> QED BY <2>1, <2>2 DEF RoundInv, Shape
<1>4. /\ driver' = [driver EXCEPT ![n] = [r.d EXCEPT !.outbox = {}]] /\ UNCHANGED submitted
      /\ sent' = sent \cup SharesIn(out) /\ delivered' = delivered \cup r.extracted
  BY <1>1
<1>5. CASE ~Admissible(d, n, s)
  <2>1. r.d = d /\ r.out = {} /\ r.extracted = {} BY <1>5
  <2> HIDE DEF r
  <2>2. SharesIn(out) = {} BY <1>2, <2>1, StartsSent DEF Driver
  <2>3. Sends(n, d, r.d) /\ Draws(n, d, r.d) BY <1>4, <2>1, <2>2 DEF Sends, Draws
  <2>4. /\ Fit(n, r.d) /\ d.current <= r.d.current /\ r.d.pendingRound \in {None, d.pendingRound}
        /\ r.d.queue = d.queue /\ Held(r.d) \subseteq Held(d)
        /\ \A id \in r.d.emitted \ d.emitted : id <= r.d.current /\ id # r.d.pendingRound
    BY <1>2, <2>1
  <2>5. \A t \in sent' \ sent : t.payload.msg = None BY <1>4, <2>2
  <2>6. Effect(n, r.d) BY <1>4, <2>3, <2>4, <2>5 DEF Effect
  <2> QED BY <2>6
<1>6. CASE Admissible(d, n, s)
  <2>1. r = OnShare(d, n, s) BY <1>6
  <2> HIDE DEF r
  <2>2. ShareTaken(n, d, s, got, r) BY <1>2, <1>3, <1>6, <2>1, Shared
  <2>3. Collected(n, d, s, got) BY <1>2, <1>3, <1>6, Collects
  <2> HIDE DEF got
  <2>4. /\ Fit(n, r.d) /\ d.current <= r.d.current
        /\ r.d.pendingRound \in {None, d.pendingRound} \/ r.d.pendingRound > d.current
        /\ r.d.outbox \in SUBSET Start
    BY <2>2 DEF ShareTaken, Fit, Driver
  \* Whatever shares n takes a message out of, someone sent it.
  <2>5. ASSUME NEW shares, Yields(n, d, s, shares, r),
               \A a \in DOMAIN shares : shares[a].msg # None =>
                    \E t \in sent' : t.id = s.id /\ t.payload.msg = shares[a].msg
        PROVE  /\ Draws(n, d, r.d) /\ r.d.queue = d.queue /\ Held(r.d) \subseteq Held(d)
               /\ \A id \in r.d.emitted \ d.emitted : id <= r.d.current /\ id # r.d.pendingRound
    <3>1. CASE r.extracted = {} /\ r.d.emitted = d.emitted
      BY <1>4, <2>5, <3>1 DEF Yields, Draws
    <3>2. CASE /\ Extract(shares) # None /\ s.id \notin d.emitted
               /\ s.id <= r.d.current /\ s.id # r.d.pendingRound
               /\ r.d.emitted = d.emitted \cup {s.id}
               /\ r.extracted = {[node |-> n, id |-> s.id, channel |-> s.channel, msg |-> Extract(shares)]}
      <4>1. \E t \in sent' : t.id = s.id /\ t.payload.msg = Extract(shares)
        BY <2>5, <3>2, ExtractedIsShared
      <4>2. Draws(n, d, r.d) BY <1>4, <3>2, <4>1 DEF Draws
      <4> QED BY <2>5, <3>2, <4>2 DEF Yields
    <3> QED BY <2>5, <3>1, <3>2 DEF Yields
  <2>6. \A a \in DOMAIN got.shares : got.shares[a].msg # None =>
            a # n /\ \E t \in sent : Told(t, a, s.id, got.shares[a])
    BY <2>3 DEF Collected, Proper
  <2>7. CASE r.out = {} /\ Yields(n, d, s, got.shares, r)
    <3>1. out = r.d.outbox BY <2>7
    <3>2. SharesIn(out) = {} BY <2>4, <3>1, StartsSent
    <3>3. Sends(n, d, r.d) BY <1>4, <3>2 DEF Sends
    <3>4. \A a \in DOMAIN got.shares : got.shares[a].msg # None =>
                \E t \in sent' : t.id = s.id /\ t.payload.msg = got.shares[a].msg
      BY <1>4, <2>6 DEF Told
    <3>5. /\ Draws(n, d, r.d) /\ r.d.queue = d.queue /\ Held(r.d) \subseteq Held(d)
          /\ \A id \in r.d.emitted \ d.emitted : id <= r.d.current /\ id # r.d.pendingRound
      BY <2>5, <2>7, <3>4
    <3>6. \A u \in sent' \ sent : u.payload.msg = None BY <1>4, <3>2
    <3>7. Effect(n, r.d) BY <1>4, <2>4, <3>3, <3>5, <3>6 DEF Effect
    <3> QED BY <3>7
  <2> DEFINE share == d.myShare.payload
             signed == d.myShare.signed
             full == Submit(got, n, share)
             t == [from |-> n, id |-> s.id, payload |-> share, channel |-> s.channel, signed |-> signed]
  <2>8. CASE /\ r.out = SharesTo(n, s.id, s.channel, signed, got.parts, share)
             /\ d.myShare # None /\ share.parts = got.parts
             /\ d.pendingRound = s.id /\ Missing(got) = {n}
             /\ Yields(n, d, s, full.shares, r)
             /\ Extract(full.shares) # None /\ s.id \notin d.emitted =>
                    Held(r.d) = {} /\ r.extracted # {}
    <3>1. /\ share \in Payload /\ share.msg \in Msg /\ signed \in Channel
          /\ Cardinality(share.parts) \in 2..MaxParts /\ share.parts \ {n} # {}
          /\ s.id \in Nat /\ s.channel \in Channel
      <4>1. share \in Carrier /\ signed \in Channel BY <1>2, <2>8 DEF Driver
      <4>2. /\ Proper(n, got) /\ s.from \in got.parts \ {n} BY <2>3 DEF Collected
      <4> QED BY <1>3, <2>8, <4>1, <4>2 DEF Carrier, Payload, Proper, Share
    <3>2. out = SharesTo(n, s.id, s.channel, signed, share.parts, share) \cup r.d.outbox
      BY <2>8
    <3>3. share.msg \in Held(d) /\ share.msg # None BY <2>8, <3>1, NodeAssumption DEF Held
    <3>4. /\ full.shares[n] = share /\ DOMAIN full.shares = got.parts
          /\ \A a \in DOMAIN full.shares \ {n} :
                a \in DOMAIN got.shares /\ full.shares[a] = got.shares[a]
          /\ n \in got.parts
      <4>1. got \in Collector /\ Proper(n, got) BY <2>3 DEF Collected
      <4>2. /\ DOMAIN full.shares = DOMAIN got.shares \cup {n} /\ full.shares[n] = share
            /\ \A a \in DOMAIN got.shares \ {n} : full.shares[a] = got.shares[a]
        BY <3>1, <4>1, Submits
      <4>3. DOMAIN got.shares \cup {n} = got.parts BY <2>8, <4>1 DEF Missing, Proper
      <4> QED BY <4>1, <4>2, <4>3 DEF Proper
    <3> HIDE DEF share, signed, full, out
    <3>5. SharesIn(out) = {t}
      <4> DEFINE starts == r.d.outbox
                 id == s.id
                 channel == s.channel
      <4>1. id \in Nat /\ channel \in Channel /\ starts \in SUBSET Start BY <2>4, <3>1
      <4>2. out = SharesTo(n, id, channel, signed, share.parts, share) \cup starts BY <3>2
      <4> HIDE DEF starts, id, channel
      <4>3. LET u == [from |-> n, id |-> id, payload |-> share, channel |-> channel, signed |-> signed]
                sending == SharesTo(n, id, channel, signed, share.parts, share) \cup starts
            IN  SharesIn(sending) \subseteq {u} /\ u \in SharesIn(sending)
        BY <3>1, <4>1, SharesSent
      <4> QED BY <4>2, <4>3 DEF id, channel
    <3>6. t.from = n /\ t.id = s.id /\ t.payload = share OBVIOUS
    <3> HIDE DEF t
    <3>7. t \in sent' /\ sent \subseteq sent' /\ sent' \ sent \subseteq {t} BY <1>4, <3>5
    <3>8. ASSUME NEW a \in DOMAIN full.shares \ {n}
          PROVE  \E u \in sent : Told(u, a, s.id, full.shares[a])
      BY <2>3, <3>4, <3>8 DEF Collected
    \* Nobody else carries a message in the round.
    <3>9. ASSUME NEW a \in DOMAIN full.shares \ {n} PROVE full.shares[a].msg = None
      <4>1. NoSplitShare' /\ CarrierLast' BY DEF RoundInv
      <4>2. a \in t.payload.parts \ {t.from} BY <2>8, <3>4, <3>6, <3>9
      <4>3. PICK u \in sent' : u.from = a /\ u.id = s.id /\ u.payload.msg = None
        BY <3>3, <3>6, <3>7, <4>1, <4>2 DEF CarrierLast
      <4>4. PICK v \in sent : Told(v, a, s.id, full.shares[a]) BY <3>8
      <4>5. v.payload = u.payload BY <3>7, <4>1, <4>3, <4>4 DEF NoSplitShare, Told
      <4> QED BY <4>3, <4>4, <4>5 DEF Told
    <3>10. ASSUME Agreed'
           PROVE  /\ Held(r.d) = {}
                  /\ \E x \in delivered' \ delivered : x.id = s.id /\ x.msg = share.msg
      <4>1. ASSUME NEW a \in DOMAIN full.shares PROVE full.shares[a].parts = DOMAIN full.shares
        <5>1. CASE a = n BY <2>8, <3>4, <5>1
        <5>2. CASE a # n
          <6>1. PICK u \in sent : Told(u, a, s.id, full.shares[a]) BY <3>8, <5>2
          <6>2. u.payload.parts = t.payload.parts BY <3>6, <3>7, <3>10, <6>1 DEF Agreed, Told
          <6> QED BY <2>8, <3>4, <3>6, <6>1, <6>2 DEF Told
        <5> QED BY <5>1, <5>2
      <4>2. n \in DOMAIN full.shares /\ full.shares[n].msg # None BY <3>3, <3>4
      <4>3. Extract(full.shares) # None BY <3>9, <4>1, <4>2, CarrierExtracted
      <4>4. s.id \notin d.emitted BY <1>2, <2>8 DEF Keeper
      <4>5. r.extracted # {} BY <2>8, <4>3, <4>4
      <4>6. PICK x \in r.extracted : x.id = s.id /\ x.msg = Extract(full.shares) /\ x.node = n
        BY <2>8, <4>5 DEF Yields
      <4>7. x \notin delivered
        <5>1. x \in delivered => x.id \in d.emitted BY <4>6 DEF Once, Drawn
        <5> QED BY <4>4, <4>6, <5>1
      <4>8. Extract(full.shares) = share.msg BY <3>4, <3>9, <4>1, <4>2, CarrierExtracted
      <4> QED BY <1>4, <2>8, <4>3, <4>4, <4>6, <4>7, <4>8
    <3>11. \A a \in DOMAIN full.shares : full.shares[a].msg # None =>
                \E u \in sent' : u.id = s.id /\ u.payload.msg = full.shares[a].msg
      BY <3>4, <3>6, <3>7, <3>9
    <3>12. /\ Draws(n, d, r.d) /\ r.d.queue = d.queue /\ Held(r.d) \subseteq Held(d)
           /\ \A id \in r.d.emitted \ d.emitted : id <= r.d.current /\ id # r.d.pendingRound
      BY <2>5, <2>8, <3>11
    <3>13. Sends(n, d, r.d)
      <4>1. share.msg \notin Queued(r.d) BY <1>2, <3>3, <3>12 DEF Keeper, Queued
      <4>2. Agreed' => share.msg \notin Held(r.d) \cup Queued(r.d) BY <3>10, <4>1
      <4> QED BY <3>3, <3>6, <3>7, <4>2 DEF Sends
    <3>14. Carries(n, t)
      <4>1. n \in share.parts BY <2>8, <3>4
      <4>2. sent' = sent \cup {t} BY <1>4, <3>5
      <4> QED BY <3>3, <3>6, <3>10, <4>1, <4>2 DEF Carries
    <3>15. Effect(n, r.d) BY <1>4, <2>4, <3>12, <3>13, <3>14 DEF Effect
    <3> QED BY <3>15
  <2> QED BY <2>2, <2>7, <2>8 DEF ShareTaken
<1> QED BY <1>5, <1>6

LEMMA InitOnce == Init => Once
<1> SUFFICES ASSUME Init PROVE Once OBVIOUS
<1>1. \A n \in Node : driver[n] = NewDriver BY DEF Init
<1>2. Held(NewDriver) = {} BY NodeAssumption DEF NewDriver, Held
<1>3. NewDriver.queue = <<>> /\ DOMAIN NewDriver.queue = {} /\ NewDriver.emitted = {}
  BY DEF NewDriver
<1>4. Queued(NewDriver) = {} BY <1>3 DEF Queued
<1>5. \A n \in Node : Keeper(n, driver[n]) BY <1>1, <1>2, <1>3, <1>4 DEF Keeper
<1>6. sent = {} /\ delivered = {} BY DEF Init
<1> QED BY <1>5, <1>6 DEF Once, Unsent, OneRound

LEMMA StepOnce ==
    RoundInv /\ RoundInv' /\ (restarts = 0 => Once) /\ [Next]_vars => (restarts = 0 => Once)'
<1> SUFFICES ASSUME RoundInv, RoundInv', restarts = 0 => Once, [Next]_vars, restarts' = 0
             PROVE  Once'
    OBVIOUS
<1>1. restarts \in Nat BY LimitsAssumption DEF RoundInv, Shape
<1>2. ASSUME NEW n \in Node, Restart(n) PROVE FALSE BY <1>1, <1>2 DEF Restart
<1>3. UNCHANGED restarts
  <2>1. \A n \in Node, m \in Msg : QueueMessage(n, m) => UNCHANGED restarts BY DEF QueueMessage
  <2>2. \A n \in Node : Tick(n) => UNCHANGED restarts BY DEF Tick
  <2>3. \A n \in Node : HandleStart(n) => UNCHANGED restarts BY DEF HandleStart
  <2>4. \A n \in Node : HandleShare(n) => UNCHANGED restarts BY DEF HandleShare
  <2>5. \A n, p \in Node : Reinstate(n, p) => UNCHANGED restarts BY DEF Reinstate
  <2>6. (Lose \/ AdvanceClock \/ UNCHANGED vars) => UNCHANGED restarts
    BY DEF Lose, AdvanceClock, vars
  <2> QED BY <1>2, <2>1, <2>2, <2>3, <2>4, <2>5, <2>6 DEF Next
<1>4. restarts = 0 /\ Once BY <1>3
<1>5. ASSUME NEW n \in Node, NEW m \in Msg, QueueMessage(n, m) PROVE Once' BY <1>4, <1>5, QueueOnce
<1>6. ASSUME NEW n \in Node, Tick(n) PROVE Once' BY <1>4, <1>6, TickOnce
<1>7. ASSUME NEW n \in Node, HandleStart(n) PROVE Once'
  BY <1>4, <1>7, StartEffect, OnceHandled
<1>8. ASSUME NEW n \in Node, HandleShare(n) PROVE Once'
  BY <1>1, <1>3, <1>4, <1>8, ShareEffect, OnceHandled
<1>9. ASSUME NEW n \in Node, NEW p \in Node, Reinstate(n, p) PROVE Once'
  BY <1>4, <1>9, OnceStill DEF Reinstate
<1>10. CASE Lose \/ AdvanceClock \/ UNCHANGED vars
  BY <1>4, <1>10, OnceStill DEF Lose, AdvanceClock, vars
<1> QED BY <1>2, <1>5, <1>6, <1>7, <1>8, <1>9, <1>10 DEF Next

LEMMA OnceAlways == Spec => [](restarts = 0 => Once)
<1>1. Init => (restarts = 0 => Once) BY InitOnce
<1> QED BY <1>1, StepOnce, RoundAlways, PTL DEF Spec

----------------------------------------------------------------------------
(* No message is lost *)

\* The sessions of n that the scheduler may pick lead to peers it has keys of.
KeysStored == \A n \in Node : Link[n] \cap Trusted[n] \subseteq Known[n]

\* The more elements of a finite set lie below.
LEMMA RankGrows ==
    ASSUME NEW S, S \subseteq Int, IsFiniteSet(S), NEW p \in S
    PROVE  /\ Cardinality({x \in S : x < p}) \in Nat
           /\ \A q \in S : p < q => Cardinality({x \in S : x < p}) < Cardinality({x \in S : x < q})
<1> DEFINE Below(q) == {x \in S : x < q}
<1>1. \A q \in S : IsFiniteSet(Below(q)) /\ Cardinality(Below(q)) \in Nat
  <2> TAKE q \in S
  <2>1. Below(q) \in SUBSET S OBVIOUS
  <2> HIDE DEF Below
  <2> QED BY <2>1, FS_Subset, FS_CardinalityType
<1>2. ASSUME NEW q \in S, p < q
      PROVE  Cardinality(Below(p)) < Cardinality(Below(q))
  <2>1. Below(p) \in SUBSET Below(q) /\ p \in Below(q) /\ p \notin Below(p)
    <3>1. p \in Int /\ q \in Int /\ ~(p < p) OBVIOUS
    <3>2. \A x \in S : x < p => x < q BY <1>2, <3>1
    <3> QED BY <1>2, <3>1, <3>2, Zenon
  <2> HIDE DEF Below
  <2>2. /\ Cardinality(Below(p)) <= Cardinality(Below(q))
        /\ Cardinality(Below(q)) = Cardinality(Below(p)) => Below(q) = Below(p)
    BY <1>1, <2>1, FS_Subset
  <2> QED BY <1>1, <2>1, <2>2
<1> QED BY <1>1, <1>2

\* Fewer than k elements of S are below an element of T: T has at most k elements.
LEMMA LowRanks ==
    ASSUME NEW S, S \subseteq Int, IsFiniteSet(S), NEW T \in SUBSET S, NEW k \in Nat,
           \A p \in T : Cardinality({q \in S : q < p}) < k
    PROVE  IsFiniteSet(T) /\ Cardinality(T) <= k
<1> DEFINE Below(p) == {q \in S : q < p}
           rank == [p \in T |-> Cardinality(Below(p))]
<1>1. \A p \in S : Cardinality(Below(p)) \in Nat BY RankGrows
<1>2. ASSUME NEW p \in S, NEW q \in S, p < q
      PROVE  Cardinality(Below(p)) < Cardinality(Below(q))
  BY <1>2, RankGrows
<1>3. ASSUME NEW p \in T, NEW q \in T, rank[p] = rank[q] PROVE p = q
  <2>1. p \in Int /\ q \in Int /\ Cardinality(Below(p)) = Cardinality(Below(q)) BY <1>3
  <2>2. Cardinality(Below(p)) \in Nat BY <1>1
  <2> HIDE DEF Below
  <2> QED BY <1>2, <2>1, <2>2
<1>4. rank \in [T -> 0..(k - 1)]
  <2>1. ASSUME NEW p \in T PROVE Cardinality(Below(p)) \in 0..(k - 1)
    <3>1. Cardinality(Below(p)) < k OBVIOUS
    <3>2. Cardinality(Below(p)) \in Nat BY <1>1
    <3> HIDE DEF Below
    <3> QED BY <3>1, <3>2
  <2> QED BY <2>1
<1> HIDE DEF rank
<1>5. rank \in Injection(T, 0..(k - 1)) BY <1>3, <1>4 DEF Injection, IsInjective
<1>6. IsFiniteSet(0..(k - 1)) /\ Cardinality(0..(k - 1)) = k BY FS_Interval
<1> QED BY <1>5, <1>6, FS_Injection

\* The scheduler's choice: a round that has two participants can be started.
LEMMA Chosen ==
    ASSUME NEW n \in Node, NEW evicted, NEW parts, parts = Participants(n, evicted)
    PROVE  /\ parts \in SUBSET Node /\ n \in parts
           /\ Cardinality(parts) >= 2 => Cardinality(parts) \in 2..MaxParts
           /\ KeysStored => HasKeys(n, parts)
<1> DEFINE all == {n} \cup ((Link[n] \ evicted) \cap Trusted[n])
           Rank(p) == Cardinality({q \in all : q < p})
           low == {p \in all : Rank(p) < MaxParts}
           rest == {p \in low : \E q \in low : p < q}
<1>1. parts = IF n \in low THEN low ELSE rest \cup {n} BY DEF Participants
<1>2. all \in SUBSET Node /\ n \in all /\ all \subseteq Int BY LinkAssumption, NodeAssumption
<1>3. parts \subseteq all /\ n \in parts BY <1>1, <1>2
<1>4. IsFiniteSet(all) /\ MaxParts \in Nat BY <1>2, SizeAssumption, FS_Subset
<1>5. KeysStored => HasKeys(n, parts) BY <1>3 DEF KeysStored, HasKeys
<1> HIDE DEF all
<1>6. IsFiniteSet(low) /\ Cardinality(low) <= MaxParts BY <1>2, <1>4, LowRanks
<1>7. CASE n \in low
  <2>1. Cardinality(parts) \in Nat /\ Cardinality(parts) <= MaxParts
    BY <1>1, <1>6, <1>7, FS_CardinalityType
  <2>2. Cardinality(parts) >= 2 => Cardinality(parts) \in 2..MaxParts BY <2>1
  <2> QED BY <1>2, <1>3, <1>5, <2>2
<1>8. CASE n \notin low
  <2>1. ASSUME NEW p \in all, NEW q \in all, p < q PROVE Rank(p) < Rank(q)
    BY <1>2, <1>4, <2>1, RankGrows
  <2>2. \A p \in all : Rank(p) \in Nat BY <1>2, <1>4, RankGrows
  <2>3. Cardinality(rest) \in Nat /\ IsFiniteSet(rest) /\ (rest = {} \/ Cardinality(rest) <= MaxParts - 1)
    <3>0. rest \in SUBSET low OBVIOUS
    <3>1. IsFiniteSet(rest) BY <1>6, <3>0, FS_Subset
    <3>2. Cardinality(rest) \in Nat BY <3>1, FS_CardinalityType
    <3>3. ASSUME rest # {} PROVE Cardinality(rest) <= MaxParts - 1
      <4>1. ASSUME NEW p \in rest PROVE Rank(p) < MaxParts - 1 /\ MaxParts - 1 \in Nat
        <5>1. PICK q \in low : p < q OBVIOUS
        <5>2. p \in all /\ q \in all /\ Rank(q) < MaxParts BY <5>1
        <5>3. Rank(p) \in Nat /\ Rank(q) \in Nat /\ Rank(p) < Rank(q) BY <2>1, <2>2, <5>1, <5>2
        <5> HIDE DEF Rank
        <5> QED BY <1>4, <5>2, <5>3
      <4>2. MaxParts - 1 \in Nat BY <3>3, <4>1
      <4>3. \A p \in rest : Cardinality({q \in all : q < p}) < MaxParts - 1 BY <4>1
      <4>4. rest \in SUBSET all OBVIOUS
      <4> HIDE DEF rest
      <4> QED BY <1>2, <1>4, <4>2, <4>3, <4>4, LowRanks
    <3> QED BY <3>1, <3>2, <3>3
  <2>4. parts = rest \cup {n} /\ n \notin rest BY <1>1, <1>8
  <2> HIDE DEF rest
  <2>5. Cardinality(parts) = Cardinality(rest) + 1 BY <2>3, <2>4, FS_AddElement
  <2>6. rest = {} => Cardinality(rest) = 0 BY FS_EmptySet
  <2>7. Cardinality(parts) >= 2 => Cardinality(parts) \in 2..MaxParts BY <1>4, <2>3, <2>5, <2>6
  <2> QED BY <1>2, <1>3, <1>5, <2>7
<1> QED BY <1>7, <1>8

\* What n has queued goes out one message at a time: a message in the queue finds
\* nothing pending, a pending round waits to send the pending message, which has
\* been started, and a message that lost its round has not used up its retries.
Sole(n, d) ==
    /\ IsFiniteSet(d.log)
    /\ d.queue # <<>> => d.pending = None /\ Len(d.queue) = 1
    /\ d.pendingRound # None =>
        /\ d.pending # None /\ d.retryAfter = None
        /\ d.myShare.payload.msg = d.pending
        /\ n \notin DOMAIN d.collectors[d.pendingRound].shares
    /\ d.retryAfter # None => d.pending # None
    /\ d.pendingRound # None \/ d.retryAfter # None => d.retries = 0
    /\ d.pending # None => \E e \in d.log : e.msg = d.pending

\* From d to e no message is lost, unless none is ever retried.
Retains(d, e) ==
    /\ e.queue = d.queue /\ d.log \subseteq e.log
    /\ e.pending = d.pending \/ (e.pending = None /\ MaxRetries = 0)

\* One step after the other.
LEMMA RetainsOnward ==
    ASSUME NEW d, NEW e, NEW f, Retains(d, e), Retains(e, f)
    PROVE  Retains(d, f)
BY DEF Retains

\* A driver without a round of its own to wait for.
LEMMA SoleIdle ==
    ASSUME NEW n, NEW e, IsFiniteSet(e.log), e.queue = <<>> \/ (e.pending = None /\ Len(e.queue) = 1),
           e.pendingRound = None, e.retryAfter = None,
           e.pending # None => \E x \in e.log : x.msg = e.pending
    PROVE  Sole(n, e)
BY DEF Sole

\* Sole is about the fields of the message in hand and the round it waits for.
LEMMA SoleSame ==
    ASSUME NEW n, NEW d, Sole(n, d), NEW e, e.log = d.log, e.queue = d.queue, e.pending = d.pending,
           e.pendingRound = d.pendingRound, e.retryAfter = d.retryAfter, e.myShare = d.myShare,
           e.retries = d.retries,
           d.pendingRound # None =>
                n \notin DOMAIN e.collectors[d.pendingRound].shares
    PROVE  Sole(n, e) /\ Retains(d, e)
BY DEF Sole, Retains

\* A round that can be started holds the message it is started with.
LEMMA SoleInitiated ==
    ASSUME NEW n \in Node, NEW d \in Driver, NEW channel \in Channel, NEW msg \in Msg,
           NEW parts, n \in parts, Cardinality(parts) \in 2..MaxParts,
           IsFiniteSet(d.log), d.queue = <<>>, d.pendingRound = None, d.retryAfter = None,
           HasKeys(n, parts) \/ (d.pending = msg /\ \E x \in d.log : x.msg = msg),
           NEW r, r = Initiate(d, n, channel, msg, parts)
    PROVE  /\ Sole(n, r.d) /\ r.d.queue = <<>> /\ r.d.pending = msg
           /\ d.log \subseteq r.d.log /\ r.d.outbox = d.outbox
<1> DEFINE id == NextRound(d.current, Clock(n))
           c == NewCollector(channel, n, parts)
           mine == [payload |-> XorShare(parts, msg), signed |-> channel]
           entry == [id |-> id, msg |-> msg, channel |-> channel]
           shut == [d EXCEPT !.current = id]
           begun == [shut EXCEPT
               !.collectors = With(@, id, c), !.pending = msg, !.pendingRound = id,
               !.myShare = mine, !.shareOut = FALSE, !.retries = 0,
               !.log = @ \cup {entry}]
           out == IF channel \in ValidChannel THEN StartsTo(n, id, channel, parts) ELSE {}
<1>1. \/ r = [d |-> shut, out |-> {}] /\ ~HasKeys(n, parts)
      \/ r = [d |-> begun, out |-> out]
  BY DEF Initiate
<1>2. c.shares = Empty /\ mine.payload.msg = msg /\ entry.msg = msg
  BY DEF NewCollector, XorShare
<1> HIDE DEF id, c, mine, entry
<1>3. CASE r = [d |-> shut, out |-> {}] /\ ~HasKeys(n, parts)
  <2>1. /\ shut.log = d.log /\ shut.queue = d.queue /\ shut.pending = d.pending
        /\ shut.pendingRound = d.pendingRound /\ shut.retryAfter = d.retryAfter
        /\ shut.outbox = d.outbox
    BY DEF Driver
  <2> HIDE DEF shut
  <2>2. Sole(n, shut) BY <1>3, <2>1, SoleIdle
  <2> QED BY <1>3, <2>1, <2>2
<1>4. CASE r = [d |-> begun, out |-> out]
  <2>1. /\ begun.log = d.log \cup {entry} /\ begun.queue = <<>> /\ begun.pending = msg
        /\ begun.pendingRound = id /\ begun.retryAfter = None /\ begun.retries = 0
        /\ begun.myShare = mine /\ begun.collectors = With(d.collectors, id, c)
        /\ begun.outbox = d.outbox
    BY DEF Driver
  <2> HIDE DEF begun
  <2>2. begun.collectors[id] = c BY <2>1 DEF With
  <2>3. IsFiniteSet(begun.log)
    <3>1. IsFiniteSet(d.log \cup {entry}) BY FS_AddElement
    <3> QED BY <2>1, <3>1
  <2>4. msg # None BY NodeAssumption
  <2>5. \E x \in begun.log : x.msg = msg BY <1>2, <2>1
  <2>6. n \notin DOMAIN begun.collectors[id].shares BY <1>2, <2>2, EmptyTable
  <2>7. Sole(n, begun) BY <1>2, <2>1, <2>3, <2>4, <2>5, <2>6 DEF Sole
  <2> QED BY <1>4, <2>1, <2>7
<1> QED BY <1>1, <1>3, <1>4

\* A retry takes the message up again under a new round id.
LEMMA SoleRetried ==
    ASSUME NEW n \in Node, NEW d, Fit(n, d), Sole(n, d), now \in Nat,
           NEW c \in Collector, Proper(n, c), d.pendingRound = None, d.retryAfter = None, d.retries = 0, d.pending # None,
           NEW e, e = RetryPendingWith(d, n, c.channel, c.parts)
    PROVE  Sole(n, e) /\ Retains(d, e)
<1>1. d \in Driver /\ d.pending \in Msg /\ d.retries = 0 /\ MaxRetries \in Nat
  BY LimitsAssumption DEF Fit, Driver
<1>2. /\ c.channel \in Channel /\ c.parts \in SUBSET Node /\ n \in c.parts
      /\ Cardinality(c.parts) \in 2..MaxParts
  BY DEF Collector, Proper
<1> DEFINE given == [d EXCEPT !.pending = None]
           counted == [d EXCEPT !.retries = @ + 1]
           again == Initiate(counted, n, c.channel, d.pending, c.parts)
           begun == [again.d EXCEPT !.outbox = @ \cup again.out]
<1>3. CASE e = given /\ MaxRetries = 0
  <2>1. /\ given.pending = None /\ given.queue = d.queue /\ given.log = d.log
        /\ given.pendingRound = None /\ given.retryAfter = None
    BY <1>1 DEF Driver
  <2> HIDE DEF given
  <2>2. given.queue = <<>> BY <2>1 DEF Sole
  <2>3. Sole(n, given) BY <2>1, <2>2, SoleIdle DEF Sole
  <2> QED BY <1>3, <2>1, <2>3 DEF Retains
<1>4. CASE e = begun /\ MaxRetries > 0
  <2>1. /\ counted \in Driver /\ counted.log = d.log /\ counted.queue = d.queue
        /\ counted.pending = d.pending /\ counted.pendingRound = None
        /\ counted.retryAfter = None /\ counted.collectors = d.collectors
        /\ counted.current = d.current
    <3>1. d.retries + 1 \in 0..MaxRetries BY <1>1, <1>4
    <3> QED BY <1>1, <3>1 DEF Driver
  <2> HIDE DEF counted
  <2>2. /\ Sole(n, again.d) /\ again.d.queue = <<>> /\ again.d.pending = d.pending
        /\ counted.log \subseteq again.d.log
    <3>1. d.queue = <<>> /\ IsFiniteSet(d.log) /\ \E x \in d.log : x.msg = d.pending BY DEF Sole
    <3> QED BY <1>1, <1>2, <2>1, <3>1, SoleInitiated
  <2>3. again.d \in Driver
    <3>1. Fit(n, counted) BY <2>1 DEF Fit
    <3>2. Fit(n, again.d) BY <1>1, <1>2, <3>1, Initiated
    <3> QED BY <3>2 DEF Fit
  <2> HIDE DEF again
  <2>4. /\ begun.log = again.d.log /\ begun.queue = again.d.queue /\ begun.pending = again.d.pending
        /\ begun.pendingRound = again.d.pendingRound /\ begun.retryAfter = again.d.retryAfter
        /\ begun.myShare = again.d.myShare /\ begun.retries = again.d.retries
        /\ begun.collectors = again.d.collectors
    BY <2>3 DEF Driver
  <2> HIDE DEF begun
  <2>5. Sole(n, begun) BY <2>2, <2>4 DEF Sole
  <2>6. d.queue = <<>> BY DEF Sole
  <2> QED BY <1>4, <2>1, <2>2, <2>4, <2>5, <2>6 DEF Retains
<1>5. \/ e = given /\ d.retries >= MaxRetries
      \/ e = begun /\ d.retries < MaxRetries
  BY <1>1 DEF RetryPendingWith
<1> QED BY <1>1, <1>3, <1>4, <1>5

\* The end of the round that beat ours.
LEMMA SoleResumed ==
    ASSUME NEW n \in Node, NEW d, Fit(n, d), Sole(n, d), now \in Nat,
           NEW c \in Collector, Proper(n, c), NEW id \in Nat,
           NEW e, e = ResumeAfterPeer(d, n, id, c)
    PROVE  Sole(n, e) /\ Retains(d, e)
<1> DEFINE resumed == [d EXCEPT !.retryAfter = None]
<1>1. CASE d.retryAfter # id /\ e = d BY <1>1 DEF Retains
<1>2. CASE d.retryAfter = id /\ e # d
  <2>1. d.pendingRound = None /\ d.pending # None /\ d.retries = 0 /\ d.queue = <<>>
    BY <1>2, NodeAssumption DEF Sole
  <2>2. /\ resumed \in Driver /\ resumed.log = d.log /\ resumed.queue = d.queue
        /\ resumed.pending = d.pending /\ resumed.pendingRound = None
        /\ resumed.retryAfter = None /\ resumed.retries = 0
        /\ resumed.collectors = d.collectors /\ resumed.current = d.current
    BY <2>1 DEF Fit, Driver
  <2>3. e = RetryPendingWith(resumed, n, c.channel, c.parts)
    BY <1>2, <2>1, <2>2 DEF ResumeAfterPeer
  <2> HIDE DEF resumed
  <2>4. Fit(n, resumed) BY <2>2 DEF Fit
  <2>5. Sole(n, resumed)
    <3>1. IsFiniteSet(resumed.log) /\ \E x \in resumed.log : x.msg = resumed.pending
      BY <2>1, <2>2 DEF Sole
    <3> QED BY <2>1, <2>2, <3>1, SoleIdle
  <2>6. Sole(n, e) /\ Retains(resumed, e) BY <2>1, <2>2, <2>3, <2>4, <2>5, SoleRetried
  <2> QED BY <2>2, <2>6 DEF Retains
<1>3. d.retryAfter # id => e = d BY DEF ResumeAfterPeer
<1>4. CASE e = d BY <1>4 DEF Retains
<1> QED BY <1>1, <1>2, <1>3, <1>4

\* The round that lost the tie-break goes, its message stays.
LEMMA SoleAborted ==
    ASSUME NEW n \in Node, NEW d \in Driver, Sole(n, d), d.pendingRound # None,
           NEW e, e = AbortPendingRound(d)
    PROVE  /\ Sole(n, e) /\ Retains(d, e)
           /\ e.pendingRound = None /\ e.retryAfter = None /\ e.retries = 0 /\ e.pending # None
<1>1. /\ e.pendingRound = None /\ e.retryAfter = d.retryAfter /\ e.retries = d.retries
      /\ e.pending = d.pending /\ e.queue = d.queue /\ e.log = d.log
  BY DEF AbortPendingRound, Driver
<1>2. d.retryAfter = None /\ d.retries = 0 /\ d.pending # None /\ d.queue = <<>> BY DEF Sole
<1>3. Sole(n, e)
  <2>1. IsFiniteSet(e.log) /\ \E x \in e.log : x.msg = e.pending BY <1>1, <1>2 DEF Sole
  <2> QED BY <1>1, <1>2, <2>1, SoleIdle
<1> QED BY <1>1, <1>2, <1>3 DEF Retains

\* One expired collector, and the retries it causes.
LEMMA SoleExpired ==
    ASSUME NEW n \in Node, NEW d, Fit(n, d), Sole(n, d), now \in Nat, NEW id \in DOMAIN d.collectors,
           NEW e, e = ExpireRound(d, n, id)
    PROVE  Sole(n, e) /\ Retains(d, e)
<1> DEFINE c == d.collectors[id]
           dropped == [d EXCEPT !.collectors = Without(@, {id})]
           aborted == AbortPendingRound(dropped)
<1>1. d \in Driver /\ d.collectors \in Table(Nat, Collector) BY DEF Fit, Driver
<1>2. c \in Collector /\ Proper(n, c) /\ id \in Nat /\ id # None
      BY <1>1, TableFacts, NodeAssumption DEF Fit
<1>3. Without(d.collectors, {id}) \in Table(Nat, Collector) BY <1>1, TableWithout
<1>4. /\ dropped \in Driver /\ dropped.current = d.current
      /\ dropped.collectors = Without(d.collectors, {id}) /\ dropped.pending = d.pending
      /\ dropped.pendingRound = d.pendingRound /\ dropped.myShare = d.myShare
      /\ dropped.retryAfter = d.retryAfter /\ dropped.retries = d.retries
      /\ dropped.queue = d.queue /\ dropped.log = d.log
      BY <1>1, <1>3 DEF Driver
<1> HIDE DEF c, dropped
<1>5. CASE d.pendingRound = id
  <2> DEFINE again == RetryPendingWith(aborted, n, c.channel, c.parts)
  <2>1. d.retryAfter = None /\ d.retries = 0 /\ d.pending # None /\ d.queue = <<>>
    BY <1>2, <1>5 DEF Sole
  <2>2. /\ aborted \in Driver /\ aborted.current = d.current /\ aborted.pendingRound = None
        /\ aborted.collectors = Without(d.collectors, {id}) /\ aborted.pending = d.pending
        /\ aborted.retryAfter = None /\ aborted.retries = 0 /\ aborted.queue = d.queue
        /\ aborted.log = d.log
    <3>1. Without(Without(d.collectors, {id}), {id}) = Without(d.collectors, {id}) BY DEF Without
    <3> DEFINE left == Without(d.collectors, {id})
    <3>2. aborted = [dropped EXCEPT !.collectors = left, !.pendingRound = None,
                                    !.myShare = None, !.shareOut = FALSE]
      BY <1>4, <1>5, <3>1 DEF AbortPendingRound
    <3>3. left \in Table(Nat, Collector) BY <1>3
    <3> HIDE DEF aborted, left
    <3>4. aborted \in Driver BY <1>4, <3>2, <3>3 DEF Driver
    <3>5. /\ aborted.current = dropped.current /\ aborted.pendingRound = None
          /\ aborted.collectors = left /\ aborted.pending = dropped.pending
          /\ aborted.retryAfter = dropped.retryAfter /\ aborted.retries = dropped.retries
          /\ aborted.queue = dropped.queue /\ aborted.log = dropped.log
      BY <1>4, <3>2 DEF Driver
    <3> QED BY <1>4, <2>1, <3>4, <3>5 DEF left
  <2> HIDE DEF aborted
  <2>3. Fit(n, aborted) BY <2>2, Drops
  <2>4. Sole(n, aborted)
    <3>1. IsFiniteSet(aborted.log) /\ \E x \in aborted.log : x.msg = aborted.pending
      BY <2>1, <2>2 DEF Sole
    <3> QED BY <2>1, <2>2, <3>1, SoleIdle
  <2>5. Sole(n, again) /\ Retains(aborted, again)
    BY <1>2, <2>1, <2>2, <2>3, <2>4, SoleRetried
  <2>6. Fit(n, again) BY <1>2, <2>3, Retried
  <2>7. e = ResumeAfterPeer(again, n, id, c)
    BY <1>4, <1>5 DEF ExpireRound, c, dropped, aborted
  <2> HIDE DEF again
  <2>8. Sole(n, e) /\ Retains(again, e) BY <1>2, <2>5, <2>6, <2>7, SoleResumed
  <2> QED BY <2>2, <2>5, <2>8 DEF Retains
<1>6. CASE d.pendingRound # id
  <2>1. e = ResumeAfterPeer(dropped, n, id, c) BY <1>4, <1>6 DEF ExpireRound, c, dropped
  <2>2. Fit(n, dropped)
    <3>1. d.pendingRound \notin {id} BY <1>6
    <3> QED BY <1>4, <3>1, Drops
  <2>3. Sole(n, dropped)
    <3>1. d.pendingRound # None => n \notin DOMAIN dropped.collectors[d.pendingRound].shares
      <4>1. d.pendingRound # None => dropped.collectors[d.pendingRound] = d.collectors[d.pendingRound]
        BY <1>4, <1>6 DEF Without, Fit, Ready
      <4> QED BY <4>1 DEF Sole
    <3> QED BY <1>4, <3>1, SoleSame
  <2>4. Sole(n, e) /\ Retains(dropped, e) BY <1>2, <2>1, <2>2, <2>3, SoleResumed
  <2> QED BY <1>4, <2>4 DEF Retains
<1> QED BY <1>5, <1>6

\* All that a tick finds expired, in either order of the two that matter.
LEMMA SoleAllExpired ==
    ASSUME NEW n \in Node, NEW d, Fit(n, d), Sole(n, d), now \in Nat,
           NEW ids \in SUBSET DOMAIN d.collectors, NEW e \in ExpireRounds(d, n, ids)
    PROVE  Sole(n, e) /\ Retains(d, e)
<1> DEFINE plain == ids \ {d.pendingRound, d.retryAfter}
           swept == [d EXCEPT !.collectors = Without(@, plain)]
           expire(f, id) == IF id \in ids \cap DOMAIN f.collectors THEN ExpireRound(f, n, id) ELSE f
           Good(f) == Fit(n, f) /\ Sole(n, f) /\ Retains(d, f)
<1>1. d \in Driver /\ d.collectors \in Table(Nat, Collector) BY DEF Fit, Driver
<1>2. Good(swept)
  <2>1. Without(d.collectors, plain) \in Table(Nat, Collector) BY <1>1, TableWithout
  <2>2. /\ swept \in Driver /\ swept.current = d.current
        /\ swept.collectors = Without(d.collectors, plain) /\ swept.pending = d.pending
        /\ swept.pendingRound = d.pendingRound /\ swept.myShare = d.myShare
        /\ swept.retryAfter = d.retryAfter /\ swept.retries = d.retries
        /\ swept.queue = d.queue /\ swept.log = d.log
    BY <1>1, <2>1 DEF Driver
  <2> HIDE DEF swept
  <2>3. d.pendingRound \notin plain OBVIOUS
  <2> HIDE DEF plain
  <2>4. Fit(n, swept) BY <2>2, <2>3, Drops
  <2>5. d.pendingRound # None => n \notin DOMAIN swept.collectors[d.pendingRound].shares
    <3>1. d.pendingRound # None => swept.collectors[d.pendingRound] = d.collectors[d.pendingRound]
      BY <2>2, <2>3 DEF Without, Fit, Ready
    <3> QED BY <3>1 DEF Sole
  <2>6. Sole(n, swept) /\ Retains(d, swept) BY <2>2, <2>5, SoleSame
  <2> QED BY <2>4, <2>6
<1>3. ASSUME NEW f, Good(f), NEW id PROVE Good(expire(f, id))
  <2>1. CASE id \in ids \cap DOMAIN f.collectors
    <3> DEFINE g == ExpireRound(f, n, id)
    <3>1. expire(f, id) = g BY <2>1
    <3>2. Fit(n, g) BY <1>3, <2>1, Expired
    <3>3. Sole(n, g) /\ Retains(f, g) BY <1>3, <2>1, SoleExpired
    <3> HIDE DEF g
    <3> QED BY <1>3, <3>1, <3>2, <3>3, RetainsOnward
  <2>2. CASE id \notin ids \cap DOMAIN f.collectors BY <1>3, <2>2
  <2> QED BY <2>1, <2>2
<1>4. \/ e = expire(expire(swept, d.pendingRound), d.retryAfter)
      \/ e = expire(expire(swept, d.retryAfter), d.pendingRound)
  BY DEF ExpireRounds
<1> HIDE DEF swept, expire, Good
<1>5. Good(e) BY <1>2, <1>3, <1>4
<1> QED BY <1>5 DEF Good

\* The message at the head of the queue is the only one, and its round begins.
LEMMA SoleNext ==
    ASSUME NEW n \in Node, NEW d, Fit(n, d), Sole(n, d), d.queue # <<>>,
           NEW parts, n \in parts, Cardinality(parts) \in 2..MaxParts, HasKeys(n, parts),
           NEW r, r = InitiateNext(d, n, parts)
    PROVE  /\ Sole(n, r.d) /\ d.pending = None /\ Range(d.queue) = {r.d.pending}
           /\ d.log \subseteq r.d.log
<1> DEFINE msg == Head(d.queue)
           popped == [d EXCEPT !.queue = Tail(@)]
<1>1. /\ d \in Driver /\ d.queue \in Seq(Msg) /\ Len(d.queue) = 1 /\ d.pending = None
      /\ d.pendingRound = None /\ d.retryAfter = None /\ IsFiniteSet(d.log)
  BY DEF Sole, Fit, Driver
<1>2. msg \in Msg /\ Tail(d.queue) = <<>> /\ Range(d.queue) = {msg}
  <2>1. msg \in Msg /\ msg = d.queue[1] /\ DOMAIN d.queue = {1} BY <1>1
  <2>2. Tail(d.queue) = <<>>
    <3>1. d.queue # <<>> OBVIOUS
    <3>2. Tail(d.queue) \in Seq(Msg) /\ Len(Tail(d.queue)) = 0 BY <1>1, <3>1
    <3> QED BY <3>2, EmptySeq
  <2>3. Range(d.queue) = {d.queue[1]} BY <2>1 DEF Range
  <2> QED BY <2>1, <2>2, <2>3
<1>3. r = Initiate(popped, n, ChannelOf[msg], msg, parts) BY DEF InitiateNext
<1>4. /\ popped \in Driver /\ popped.queue = <<>> /\ popped.pendingRound = None
      /\ popped.retryAfter = None /\ popped.log = d.log
  <2>1. Tail(d.queue) \in Seq(Msg) BY <1>1
  <2> QED BY <1>1, <1>2, <2>1 DEF Driver
<1>5. ChannelOf[msg] \in Channel BY <1>2 DEF Channel
<1> HIDE DEF msg, popped
<1>6. Sole(n, r.d) /\ r.d.pending = msg /\ popped.log \subseteq r.d.log
  BY <1>1, <1>2, <1>3, <1>4, <1>5, SoleInitiated
<1> QED BY <1>1, <1>2, <1>4, <1>6

\* Joining the round of another, or yielding to it.
LEMMA SoleJoined ==
    ASSUME NEW n \in Node, NEW d, Fit(n, d), Sole(n, d), NEW s \in Start, s.to = n,
           NEW r, r = OnStart(d, n, s)
    PROVE  Sole(n, r.d) /\ Retains(d, r.d)
<1> DEFINE share == XorShare(s.parts, None)
           collector == Submit(NewCollector(s.channel, s.initiator, s.parts), n, share)
           fresh == MarkSeen(d.current, s.id, Clock(n))
           loses == d.pendingRound = s.id /\ s.initiator < n
           reached == [d EXCEPT !.current = s.id]
           aborted == AbortPendingRound(d)
           yields == [aborted EXCEPT !.retryAfter = s.id]
           seen == IF fresh THEN reached ELSE yields
           joins == [seen EXCEPT !.collectors = With(@, s.id, collector)]
           out == SharesTo(n, s.id, s.channel, s.channel, s.parts, share)
<1>1. /\ d \in Driver /\ d.current \in Nat /\ d.pendingRound \in Nat \cup {None}
      /\ s.id \in Nat /\ s.id # None
  BY NodeAssumption DEF Fit, Driver, Start
<1> HIDE DEF collector, share
<1>2. CASE r = [d |-> d, out |-> {}] BY <1>2 DEF Retains
<1>3. CASE (fresh \/ loses) /\ (r = [d |-> joins, out |-> out] \/ r = [d |-> seen, out |-> {}])
  <2>1. /\ seen \in Driver /\ Sole(n, seen) /\ Retains(d, seen) /\ s.id # seen.pendingRound
        /\ seen.pendingRound # None =>
            /\ seen.pendingRound \in DOMAIN seen.collectors
            /\ n \notin DOMAIN seen.collectors[seen.pendingRound].shares
    <3>1. CASE fresh
      <4>1. /\ reached \in Driver /\ reached.collectors = d.collectors
            /\ reached.pendingRound = d.pendingRound /\ reached.myShare = d.myShare
            /\ reached.pending = d.pending /\ reached.retryAfter = d.retryAfter
            /\ reached.queue = d.queue /\ reached.log = d.log /\ reached.retries = d.retries
        BY <1>1 DEF Driver
      <4>2. s.id # d.pendingRound
        <5>1. d.current < s.id BY <3>1 DEF MarkSeen
        <5>2. d.pendingRound # None => d.pendingRound <= d.current BY DEF Fit, Ready
        <5> QED BY <1>1, <5>1, <5>2
      <4>3. d.pendingRound # None =>
                /\ d.pendingRound \in DOMAIN d.collectors
                /\ n \notin DOMAIN d.collectors[d.pendingRound].shares
        BY DEF Sole, Fit, Ready
      <4>4. seen = reached BY <3>1
      <4> HIDE DEF reached, seen
      <4>5. Sole(n, reached) /\ Retains(d, reached) BY <4>1, <4>3, SoleSame
      <4> QED BY <4>1, <4>2, <4>3, <4>4, <4>5
    <3>2. CASE ~fresh /\ loses
      <4>1. /\ Sole(n, aborted) /\ Retains(d, aborted) /\ aborted.pendingRound = None
            /\ aborted.retries = 0 /\ aborted.pending # None
        BY <1>1, <3>2, SoleAborted
      <4>2. aborted \in Driver BY Aborted DEF Fit
      <4> HIDE DEF aborted
      <4>3. /\ yields \in Driver /\ yields.pendingRound = None /\ yields.retryAfter = s.id
            /\ yields.pending = aborted.pending /\ yields.queue = aborted.queue
            /\ yields.log = aborted.log /\ yields.retries = 0
        BY <1>1, <4>1, <4>2 DEF Driver
      <4>4. seen = yields BY <3>2
      <4> HIDE DEF yields, seen
      <4>5. Sole(n, yields) BY <4>1, <4>3 DEF Sole
      <4>6. Retains(d, yields) BY <4>1, <4>3 DEF Retains
      <4> QED BY <1>1, <4>3, <4>4, <4>5, <4>6
    <3> QED BY <1>3, <3>1, <3>2
  <2> HIDE DEF seen
  <2>2. /\ joins.pendingRound = seen.pendingRound /\ joins.myShare = seen.myShare
        /\ joins.pending = seen.pending /\ joins.retryAfter = seen.retryAfter
        /\ joins.queue = seen.queue /\ joins.log = seen.log /\ joins.retries = seen.retries
        /\ joins.collectors = With(seen.collectors, s.id, collector)
    BY <2>1 DEF Driver
  <2> HIDE DEF joins
  <2>3. seen.pendingRound # None => n \notin DOMAIN joins.collectors[seen.pendingRound].shares
    <3>1. seen.pendingRound # None =>
            joins.collectors[seen.pendingRound] = seen.collectors[seen.pendingRound]
      BY <2>1, <2>2 DEF With
    <3> QED BY <2>1, <3>1
  <2>4. Sole(n, joins) /\ Retains(seen, joins) BY <2>1, <2>2, <2>3, SoleSame
  <2>5. r.d = joins \/ r.d = seen BY <1>3
  <2> QED BY <2>1, <2>4, <2>5, RetainsOnward
<1>4. \/ r = [d |-> d, out |-> {}]
      \/ (fresh \/ loses) /\ (r = [d |-> joins, out |-> out] \/ r = [d |-> seen, out |-> {}])
  BY DEF OnStart, fresh, loses, share, collector
<1> QED BY <1>2, <1>3, <1>4

\* What comes out of a round is what a carrier put in.
LEMMA OnlyCarrier ==
    ASSUME NEW shares, IsFiniteSet(DOMAIN shares), NEW n \in DOMAIN shares, shares[n].msg # None,
           Extract(shares) # None
    PROVE  Extract(shares) = shares[n].msg
<1>1. /\ Cardinality(Carriers(shares)) = 1
      /\ Extract(shares) = shares[CHOOSE a \in Carriers(shares) : TRUE].msg
  BY DEF Extract, UnpadMessage
<1>2. n \in Carriers(shares) /\ Carriers(shares) \in SUBSET DOMAIN shares BY DEF Carriers
<1>3. IsFiniteSet(Carriers(shares)) BY <1>2, FS_Subset
<1>4. Carriers(shares) = {n} BY <1>1, <1>2, <1>3, FS_Singleton
<1>5. (CHOOSE a \in {n} : TRUE) = n OBVIOUS
<1> QED BY <1>1, <1>4, <1>5

\* r keeps what d held, or n has extracted what it had pending.
Spares(n, d, r) ==
    /\ r.d.queue = d.queue /\ d.log \subseteq r.d.log
    /\ Retains(d, r.d) \/ \E x \in r.extracted : x.node = n /\ x.msg = d.pending

\* The last share of a round: ours is settled when its message came out, else retried.
LEMMA SoleCompleted ==
    ASSUME NEW n \in Node, NEW d, Fit(n, d), Sole(n, d), now \in Nat,
           NEW s \in Share, s.id \in DOMAIN d.collectors,
           NEW full \in Collector, full.parts = d.collectors[s.id].parts,
           full.channel = d.collectors[s.id].channel,
           d.pendingRound = s.id => n \in DOMAIN full.shares /\ full.shares[n].msg = d.pending,
           NEW kept \in Driver, kept.current = d.current, kept.pending = d.pending,
           kept.pendingRound = d.pendingRound, kept.myShare = d.myShare,
           kept.retryAfter = d.retryAfter, kept.queue = d.queue, kept.retries = d.retries,
           kept.log = d.log,
           Without(kept.collectors, {s.id}) = Without(d.collectors, {s.id}),
           NEW r, r = CompleteRound(kept, n, s, full)
    PROVE  Sole(n, r.d) /\ Spares(n, d, r)
<1> DEFINE c == d.collectors[s.id]
           msg == Extract(full.shares)
           ok == msg # None /\ s.id \notin kept.emitted
           emitted == IF msg = None THEN kept.emitted ELSE kept.emitted \cup {s.id}
           closed == [kept EXCEPT !.collectors = Without(@, {s.id}),
                                  !.emitted = IF msg = None THEN @ ELSE @ \cup {s.id}]
           settled == Settle(closed, ok)
           own == CASE d.pendingRound # s.id -> closed
                    [] d.pendingRound = s.id /\ ok -> settled
                    [] OTHER -> RetryPendingWith(settled, n, c.channel, c.parts)
<1>1. /\ d \in Driver /\ d.collectors \in Table(Nat, Collector) /\ d.current \in Nat
      /\ d.pendingRound \in Nat \cup {None}
      BY DEF Fit, Driver
<1>2. c \in Collector /\ Proper(n, c) /\ s.id \in Nat /\ s.id # None
      BY <1>1, TableFacts, NodeAssumption DEF Fit
<1>3. Without(d.collectors, {s.id}) \in Table(Nat, Collector) BY <1>1, TableWithout
<1>4. /\ closed \in Driver /\ closed.current = d.current /\ closed.pending = d.pending
      /\ closed.collectors = Without(d.collectors, {s.id})
      /\ closed.pendingRound = d.pendingRound /\ closed.myShare = d.myShare
      /\ closed.retryAfter = d.retryAfter /\ closed.queue = d.queue
      /\ closed.retries = d.retries /\ closed.log = d.log
  <2>1. emitted \in SUBSET Nat BY <1>2 DEF Driver
  <2>2. closed = [kept EXCEPT !.collectors = Without(kept.collectors, {s.id}), !.emitted = emitted]
    OBVIOUS
  <2> HIDE DEF msg, emitted, closed
  <2> QED BY <1>3, <2>1, <2>2 DEF Driver
<1>5. /\ r.d = ResumeAfterPeer(own, n, s.id, c)
      /\ r.extracted = IF ok THEN {[node |-> n, id |-> s.id, channel |-> s.channel, msg |-> msg]} ELSE {}
  <2>1. /\ r.d = ResumeAfterPeer(own, n, s.id, full)
        /\ r.extracted = IF ok THEN {[node |-> n, id |-> s.id, channel |-> s.channel, msg |-> msg]} ELSE {}
    BY DEF CompleteRound
  <2> HIDE DEF own
  <2> QED BY <2>1 DEF ResumeAfterPeer
<1> HIDE DEF closed
<1>6. /\ settled.current = d.current /\ settled.pendingRound = None
      /\ settled.collectors = Without(d.collectors, {s.id})
      /\ settled.retryAfter = d.retryAfter /\ settled.queue = d.queue
      /\ settled.retries = d.retries /\ settled.log = d.log
      /\ settled.pending = IF ok THEN None ELSE d.pending
      /\ settled \in Driver
  <2> HIDE DEF ok
  <2>1. PICK p : p \in Msg \cup {None} /\ (ok => p = None) /\ (~ok => p = d.pending)
    <3>1. d.pending \in Msg \cup {None} BY <1>1 DEF Driver
    <3>2. CASE ok BY <3>2
    <3>3. CASE ~ok BY <3>1, <3>3
    <3> QED BY <3>2, <3>3
  <2>2. settled = [closed EXCEPT !.pendingRound = None, !.myShare = None, !.shareOut = FALSE,
                                 !.pending = p]
    BY <1>4, <2>1 DEF Settle
  <2>3. p = IF ok THEN None ELSE d.pending BY <2>1
  <2> HIDE DEF settled
  <2>4. settled \in Driver BY <1>4, <2>1, <2>2 DEF Driver
  <2>5. /\ settled.current = closed.current /\ settled.collectors = closed.collectors
        /\ settled.pendingRound = None /\ settled.retryAfter = closed.retryAfter
        /\ settled.queue = closed.queue /\ settled.retries = closed.retries
        /\ settled.log = closed.log /\ settled.pending = p
    BY <1>4, <2>2 DEF Driver
  <2> QED BY <1>4, <2>3, <2>4, <2>5
<1> HIDE DEF settled
<1>7. /\ Fit(n, own) /\ Sole(n, own) /\ own.queue = d.queue /\ d.log \subseteq own.log
      /\ Retains(d, own) \/ (d.pendingRound = s.id /\ ok)
  <2>1. CASE d.pendingRound # s.id
    <3>1. own = closed BY <2>1
    <3> HIDE DEF own, ok, msg, c
    <3>2. Fit(n, closed)
      <4> DEFINE S == {s.id}
      <4>1. \/ closed.pendingRound = None
            \/ /\ closed.pendingRound = d.pendingRound /\ d.pendingRound \notin S
               /\ closed.myShare = d.myShare
        BY <1>4, <2>1
      <4>2. closed \in Driver BY <1>4
      <4>3. closed.collectors = Without(d.collectors, S) /\ closed.current = d.current BY <1>4
      <4> HIDE DEF S
      <4> QED BY <4>1, <4>2, <4>3, Drops
    <3>3. d.pendingRound # None => n \notin DOMAIN closed.collectors[d.pendingRound].shares
      <4>1. d.pendingRound # None => closed.collectors[d.pendingRound] = d.collectors[d.pendingRound]
        BY <1>4, <2>1 DEF Without, Fit, Ready
      <4> QED BY <4>1 DEF Sole
    <3>4. Sole(n, closed) /\ Retains(d, closed) BY <1>4, <3>3, SoleSame
    <3> QED BY <1>4, <3>1, <3>2, <3>4
  <2>2. CASE d.pendingRound = s.id
    <3>1. /\ d.retryAfter = None /\ d.retries = 0 /\ d.pending # None /\ d.queue = <<>>
          /\ IsFiniteSet(d.log) /\ \E x \in d.log : x.msg = d.pending
      BY <1>2, <2>2 DEF Sole
    <3>2. Fit(n, settled) BY <1>6, Drops
    <3>3. Sole(n, settled)
      <4>1. settled.pending = d.pending \/ settled.pending = None BY <1>6
      <4> QED BY <1>6, <3>1, <4>1, SoleIdle
    <3>4. CASE ok
      <4>1. own = settled BY <2>2, <3>4
      <4> QED BY <1>6, <2>2, <3>2, <3>3, <3>4, <4>1
    <3>5. CASE ~ok
      <4>1. own = RetryPendingWith(settled, n, c.channel, c.parts) BY <2>2, <3>5
      <4>2. settled.pending = d.pending BY <1>6, <3>5
      <4> HIDE DEF own, c, ok
      <4>3. Sole(n, own) /\ Retains(settled, own)
        BY <1>2, <1>6, <3>1, <3>2, <3>3, <4>1, <4>2, SoleRetried
      <4>4. Fit(n, own) BY <1>2, <3>2, <4>1, Retried
      <4>5. Retains(d, own) BY <1>6, <4>2, <4>3 DEF Retains
      <4> QED BY <4>3, <4>4, <4>5 DEF Retains
    <3> QED BY <3>4, <3>5
  <2> QED BY <2>1, <2>2
<1> HIDE DEF own, c, ok, msg
<1>8. Sole(n, r.d) /\ Retains(own, r.d) BY <1>2, <1>5, <1>7, SoleResumed
<1>9. CASE Retains(d, own)
  <2>1. Retains(d, r.d) BY <1>8, <1>9, RetainsOnward
  <2> QED BY <1>8, <2>1 DEF Spares, Retains
<1>10. CASE d.pendingRound = s.id /\ ok
  <2>1. IsFiniteSet(DOMAIN full.shares)
    <3>1. DOMAIN full.shares \in SUBSET Node BY TableFacts DEF Collector
    <3> QED BY <3>1, SizeAssumption, FS_Subset
  <2>2. d.pending # None BY <1>2, <1>10 DEF Sole
  <2>3. msg = d.pending BY <1>10, <2>1, <2>2, OnlyCarrier DEF ok, msg
  <2>4. r.extracted = {[node |-> n, id |-> s.id, channel |-> s.channel, msg |-> d.pending]}
    BY <1>5, <1>10, <2>3
  <2>5. \E x \in r.extracted : x.node = n /\ x.msg = d.pending BY <2>4
  <2> QED BY <1>7, <1>8, <2>5 DEF Spares, Retains
<1> QED BY <1>7, <1>9, <1>10

\* A share collected; when it is the last but ours, ours goes out with it.
LEMMA SoleShared ==
    ASSUME NEW n \in Node, NEW d, Fit(n, d), Sole(n, d), now \in Nat,
           NEW s \in Share, s.to = n, Admissible(d, n, s), NEW r, r = OnShare(d, n, s)
    PROVE  Sole(n, r.d) /\ Spares(n, d, r)
<1> DEFINE old == d.collectors[s.id]
           c == Submit(old, s.from, s.payload)
           last == /\ d.pendingRound = s.id /\ ~d.shareOut
                   /\ AllOthersArrived(c, n) /\ d.myShare # None
           full == IF last THEN Submit(c, n, d.myShare.payload) ELSE c
           kept == [d EXCEPT !.collectors[s.id] = full, !.shareOut = @ \/ last]
           done == CompleteRound(kept, n, s, full)
<1>1. /\ d \in Driver /\ d.collectors \in Table(Nat, Collector) /\ d.current \in Nat
      /\ d.pendingRound \in Nat \cup {None} /\ s.id \in DOMAIN d.collectors
      BY DEF Fit, Driver, Admissible
<1>2. /\ old \in Collector /\ Proper(n, old) /\ s.id \in Nat
      /\ s.from \in Node /\ s.from # n /\ s.payload \in Payload
      BY <1>1, TableFacts DEF Fit, Share
<1>2a. s.id # None BY <1>2, NodeAssumption
<1>3. /\ c \in Collector /\ c.parts = old.parts /\ c.channel = old.channel
      /\ DOMAIN c.shares = DOMAIN old.shares \cup {s.from}
      BY <1>2, Submits
<1> HIDE DEF c
<1>4. /\ full \in Collector /\ full.parts = old.parts /\ full.channel = old.channel
      /\ last => DOMAIN full.shares = DOMAIN c.shares \cup {n} /\ full.shares[n] = d.myShare.payload
  <2>1. CASE last
    <3>1. d.myShare.payload \in Payload BY <1>1, <2>1 DEF Driver, Carrier, Payload
    <3>2. full = Submit(c, n, d.myShare.payload) BY <2>1
    <3> QED BY <1>3, <3>1, <3>2, Submits
  <2>2. CASE ~last BY <1>3, <2>2
  <2> QED BY <2>1, <2>2
<1>5. (d.shareOut \/ last) \in BOOLEAN OBVIOUS
<1>6. last => Missing(full) = {} /\ d.pendingRound = s.id
  BY <1>3, <1>4 DEF AllOthersArrived, Missing
<1>7. ~last => full = c OBVIOUS
<1>8. /\ r.d = IF Missing(full) = {} THEN done.d ELSE kept
      /\ r.extracted = IF Missing(full) = {} THEN done.extracted ELSE {}
  BY DEF OnShare, c
<1> HIDE DEF full, last
<1>9. d.pendingRound = s.id =>
        /\ n \notin DOMAIN c.shares /\ n \in c.parts /\ d.myShare.payload.msg = d.pending
  BY <1>2, <1>2a, <1>3 DEF Sole, Proper
<1>10. /\ kept \in Driver /\ kept.current = d.current /\ kept.pending = d.pending
       /\ kept.pendingRound = d.pendingRound /\ kept.myShare = d.myShare
       /\ kept.retryAfter = d.retryAfter /\ kept.queue = d.queue
       /\ kept.retries = d.retries /\ kept.log = d.log
       /\ kept.collectors = With(d.collectors, s.id, full)
  <2>1. [d.collectors EXCEPT ![s.id] = full] = With(d.collectors, s.id, full)
    BY <1>1, TableUpdate
  <2>2. With(d.collectors, s.id, full) \in Table(Nat, Collector) BY <1>1, <1>2, <1>4, TableWith
  <2>3. kept = [d EXCEPT !.collectors = With(d.collectors, s.id, full), !.shareOut = d.shareOut \/ last]
    BY <2>1
  <2> HIDE DEF kept
  <2> QED BY <1>1, <1>5, <2>2, <2>3 DEF Driver
<1> HIDE DEF kept
<1>11. CASE Missing(full) = {}
  <2>1. r.d = done.d /\ r.extracted = done.extracted BY <1>8, <1>11
  <2>2. Without(kept.collectors, {s.id}) = Without(d.collectors, {s.id})
    BY <1>10 DEF With, Without
  <2>3. d.pendingRound = s.id => n \in DOMAIN full.shares /\ full.shares[n].msg = d.pending
    <3>1. d.pendingRound = s.id => last BY <1>7, <1>9, <1>11 DEF Missing
    <3> QED BY <1>4, <1>9, <3>1
  <2> HIDE DEF done
  <2>4. Sole(n, done.d) /\ Spares(n, d, done)
    BY <1>1, <1>4, <1>10, <2>2, <2>3, SoleCompleted DEF done
  <2> QED BY <2>1, <2>4 DEF Spares
<1>12. CASE Missing(full) # {}
  <2>1. r.d = kept /\ full = c BY <1>6, <1>7, <1>8, <1>12
  <2>2. d.pendingRound # None => n \notin DOMAIN kept.collectors[d.pendingRound].shares
    <3>1. CASE d.pendingRound = s.id
      <4>1. kept.collectors[s.id] = c BY <1>10, <2>1 DEF With
      <4> QED BY <1>9, <3>1, <4>1
    <3>2. CASE d.pendingRound # s.id
      <4>1. d.pendingRound # None => kept.collectors[d.pendingRound] = d.collectors[d.pendingRound]
        BY <1>10, <3>2 DEF With, Fit, Ready
      <4> QED BY <4>1 DEF Sole
    <3> QED BY <3>1, <3>2
  <2>3. Sole(n, kept) /\ Retains(d, kept) BY <1>10, <2>2, SoleSame
  <2> QED BY <2>1, <2>3 DEF Spares, Retains
<1> QED BY <1>11, <1>12

\* The inductive invariant.
NothingLost ==
    /\ \A n \in Node : Sole(n, driver[n])
    /\ \A m \in submitted : AuthorOf[m] \in Node
    /\ NoSilentLoss

\* The messages a driver has in hand.
InHand(d) == (Range(d.queue) \cup {d.pending}) \ {None}

\* From d to e, with x extracted by n, n is left with its messages or done with them.
Accounts(n, d, e, extracted) ==
    /\ d.log \subseteq e.log
    /\ \A m \in InHand(d) :
        \/ m \in InHand(e)
        \/ \E x \in extracted : x.msg = m /\ x.node = n
        \/ MaxRetries = 0 /\ \E t \in e.log : t.msg = m

\* A driver that retains its messages can account for them.
LEMMA RetainsAccounts ==
    ASSUME NEW n, NEW d, Sole(n, d), NEW e, Retains(d, e), NEW S
    PROVE  Accounts(n, d, e, S)
<1> SUFFICES ASSUME NEW m \in InHand(d), m \notin InHand(e)
             PROVE  MaxRetries = 0 /\ \E t \in e.log : t.msg = m
    BY DEF Accounts, Retains
<1>1. m = d.pending /\ m # None /\ e.pending = None /\ MaxRetries = 0 BY DEF InHand, Retains
<1>2. \E t \in d.log : t.msg = m BY <1>1 DEF Sole
<1> QED BY <1>1, <1>2 DEF Retains

\* A step of n after which n accounts for its messages, the other drivers untouched.
LEMMA LossKept ==
    ASSUME RoundInv, NothingLost, NEW n \in Node, NEW e, Sole(n, e),
           driver' = [driver EXCEPT ![n] = e], UNCHANGED <<submitted, restarts>>,
           delivered \subseteq delivered', Accounts(n, driver[n], e, delivered')
    PROVE  NothingLost'
<1> DEFINE d == driver[n]
<1>1. driver'[n] = e /\ \A m \in Node \ {n} : driver'[m] = driver[m]
  BY DEF RoundInv, Shape
<1>2. \A m \in Node : Sole(m, driver'[m]) BY <1>1 DEF NothingLost
<1>3. ASSUME NEW m \in submitted, NEW a \in Node, a = AuthorOf[m]
      PROVE  /\ Attempts(m)' \in Nat /\ Attempts(m) \in Nat /\ Attempts(m) <= Attempts(m)'
             /\ (\E t \in driver'[a].log : t.msg = m) => Attempts(m)' > 0
  <2> DEFINE Of(log) == {t \in log : t.msg = m}
             before == Of(driver[a].log)
             now2 == Of(driver'[a].log)
  <2>1. driver[a].log \subseteq driver'[a].log BY <1>1 DEF Accounts
  <2>2. IsFiniteSet(driver'[a].log) BY <1>2 DEF Sole
  <2>3. now2 \in SUBSET driver'[a].log /\ before \in SUBSET now2 BY <2>1
  <2>4. Attempts(m) = Cardinality(before) /\ Attempts(m)' = Cardinality(now2)
    BY <1>3 DEF Attempts
  <2>5. (\E t \in driver'[a].log : t.msg = m) => now2 # {} OBVIOUS
  <2> HIDE DEF before, now2
  <2>6. IsFiniteSet(now2) /\ IsFiniteSet(before) /\ Cardinality(before) <= Cardinality(now2)
    BY <2>2, <2>3, FS_Subset
  <2>7. Cardinality(before) \in Nat /\ Cardinality(now2) \in Nat BY <2>6, FS_CardinalityType
  <2>8. now2 # {} => Cardinality(now2) # 0 BY <2>6, FS_EmptySet
  <2> QED BY <2>4, <2>5, <2>6, <2>7, <2>8
<1>4. ASSUME restarts' = 0, NEW m \in submitted'
      PROVE  \/ m \in Range(driver'[AuthorOf[m]].queue) \cup {driver'[AuthorOf[m]].pending}
             \/ \E x \in delivered' : x.msg = m /\ x.node = AuthorOf[m]
             \/ Attempts(m)' > MaxRetries
  <2>1. /\ m \in submitted /\ m # None /\ MaxRetries \in Nat
    BY NodeAssumption, LimitsAssumption DEF RoundInv, Shape
  <2>2. PICK a \in Node : a = AuthorOf[m] BY <2>1 DEF NothingLost
  <2>3. \/ m \in InHand(driver[a])
        \/ \E x \in delivered : x.msg = m /\ x.node = a
        \/ Attempts(m) > MaxRetries
    BY <1>4, <2>1, <2>2 DEF NothingLost, NoSilentLoss, InHand
  <2>4. /\ Attempts(m)' \in Nat /\ Attempts(m) \in Nat /\ Attempts(m) <= Attempts(m)'
        /\ (\E t \in driver'[a].log : t.msg = m) => Attempts(m)' > 0
    BY <1>3, <2>1, <2>2
  <2>5. CASE m \in InHand(driver[a]) /\ a = n
    <3>1. \/ m \in InHand(driver'[a])
          \/ \E x \in delivered' : x.msg = m /\ x.node = a
          \/ MaxRetries = 0 /\ \E t \in driver'[a].log : t.msg = m
      BY <1>1, <2>5 DEF Accounts
    <3> QED BY <2>2, <2>4, <3>1 DEF InHand
  <2>6. CASE m \in InHand(driver[a]) /\ a # n BY <1>1, <2>2, <2>6 DEF InHand
  <2>7. CASE \E x \in delivered : x.msg = m /\ x.node = a BY <2>2, <2>7
  <2>8. CASE Attempts(m) > MaxRetries
    <3> HIDE DEF Attempts
    <3> QED BY <2>1, <2>4, <2>8
  <2> QED BY <2>3, <2>5, <2>6, <2>7, <2>8
<1>5. NoSilentLoss' BY <1>4 DEF NoSilentLoss
<1> QED BY <1>2, <1>5 DEF NothingLost

\* A step that touches no driver.
LEMMA LossStill ==
    ASSUME NothingLost, UNCHANGED <<driver, submitted, delivered>>, restarts' = restarts
    PROVE  NothingLost'
<1>1. \A m : Attempts(m)' = Attempts(m) BY DEF Attempts
<1>2. NoSilentLoss' BY <1>1 DEF NothingLost, NoSilentLoss
<1> QED BY <1>2 DEF NothingLost

\* An operator that waits for its message finds the queue and the slot empty.
LEMMA QueueLoss ==
    ASSUME Patient, RoundInv, NothingLost, NEW n \in Node, NEW m \in Msg, QueueMessage(n, m)
    PROVE  NothingLost'
<1> DEFINE d == driver[n]
           e == [d EXCEPT !.queue = Append(@, m)]
<1>1. d \in Driver /\ d.queue = <<>> /\ d.pending = None /\ Sole(n, d)
  BY DEF QueueMessage, RoundInv, Shape, NothingLost
<1>2. /\ AuthorOf[m] = n /\ submitted' = submitted \cup {m}
      /\ driver' = [driver EXCEPT ![n] = e] /\ UNCHANGED <<delivered, restarts>>
  BY DEF QueueMessage
<1>3. /\ e.queue = <<m>> /\ e.pending = None /\ e.log = d.log
      /\ e.pendingRound = d.pendingRound /\ e.retryAfter = d.retryAfter
  BY <1>1 DEF Driver
<1> HIDE DEF e
<1>4. /\ driver'[n] = e /\ \A x \in Node \ {n} : driver'[x] = driver[x]
      /\ \A x \in Node : driver'[x].log = driver[x].log
  BY <1>2, <1>3 DEF RoundInv, Shape
<1>5. Sole(n, e)
  <2>1. IsFiniteSet(e.log) /\ e.pendingRound = None /\ e.retryAfter = None BY <1>1, <1>3 DEF Sole
  <2>2. Len(e.queue) = 1 BY <1>3
  <2> QED BY <1>3, <2>1, <2>2, SoleIdle
<1>6. m \in Range(e.queue)
  <2>1. 1 \in DOMAIN e.queue /\ e.queue[1] = m BY <1>3
  <2> QED BY <2>1 DEF Range
<1>7. \A x \in submitted' : AuthorOf[x] \in Node BY <1>2 DEF NothingLost
<1>8. ASSUME restarts' = 0, NEW x \in submitted'
      PROVE  \/ x \in Range(driver'[AuthorOf[x]].queue) \cup {driver'[AuthorOf[x]].pending}
             \/ \E y \in delivered' : y.msg = x /\ y.node = AuthorOf[x]
             \/ Attempts(x)' > MaxRetries
  <2>1. CASE x = m BY <1>2, <1>4, <1>6, <2>1
  <2>2. CASE x \in submitted
    <3>1. \/ x \in InHand(driver[AuthorOf[x]])
          \/ \E y \in delivered : y.msg = x /\ y.node = AuthorOf[x]
          \/ Attempts(x) > MaxRetries
      <4>1. x # None BY <2>2, NodeAssumption DEF RoundInv, Shape
      <4> QED BY <1>2, <1>8, <2>2, <4>1 DEF NothingLost, NoSilentLoss, InHand
    <3>2. AuthorOf[x] \in Node BY <1>7
    <3>3. Attempts(x)' = Attempts(x) BY <1>4, <3>2 DEF Attempts
    <3>4. CASE x \in InHand(driver[AuthorOf[x]])
      <4>1. AuthorOf[x] # n
        <5>1. Range(d.queue) = {}
          <6>1. DOMAIN d.queue = {} BY <1>1
          <6> QED BY <6>1 DEF Range
        <5>2. InHand(d) = {} BY <1>1, <5>1 DEF InHand
        <5> QED BY <3>4, <5>2
      <4> QED BY <1>4, <3>2, <3>4, <4>1 DEF InHand
    <3> QED BY <1>2, <3>1, <3>3, <3>4
  <2> QED BY <1>2, <2>1, <2>2
<1>9. NoSilentLoss' BY <1>8 DEF NoSilentLoss
<1>10. \A x \in Node : Sole(x, driver'[x]) BY <1>4, <1>5 DEF NothingLost
<1> QED BY <1>7, <1>9, <1>10 DEF NothingLost

\* A restart loses what was in hand; the property speaks of runs without one.
LEMMA RestartLoss ==
    ASSUME RoundInv, NothingLost, NEW n \in Node, Restart(n)
    PROVE  NothingLost'
<1> DEFINE e == [NewDriver EXCEPT !.log = driver[n].log]
<1>1. /\ e.log = driver[n].log /\ e.queue = <<>> /\ e.pending = None
      /\ e.pendingRound = None /\ e.retryAfter = None
  BY DEF NewDriver
<1>2. driver' = [driver EXCEPT ![n] = e] /\ UNCHANGED submitted BY DEF Restart
<1> HIDE DEF e
<1>3. Sole(n, e)
  <2>1. IsFiniteSet(e.log) BY <1>1 DEF NothingLost, Sole
  <2> QED BY <1>1, <2>1, SoleIdle
<1>4. \A x \in Node : Sole(x, driver'[x])
  <2>1. driver'[n] = e /\ \A x \in Node \ {n} : driver'[x] = driver[x]
    BY <1>2 DEF RoundInv, Shape
  <2> QED BY <1>3, <2>1 DEF NothingLost
<1>5. restarts' # 0 BY LimitsAssumption DEF RoundInv, Shape, Restart
<1> QED BY <1>2, <1>4, <1>5 DEF NothingLost, NoSilentLoss

\* Expired rounds are retried, then the queue's head is started.
LEMMA TickLoss ==
    ASSUME KeysStored, RoundInv, NothingLost, NEW n \in Node, Tick(n)
    PROVE  NothingLost'
<1> DEFINE d == driver[n]
<1>1. PICK expired \in SUBSET Expirable(n) : \E after \in ExpireRounds(d, n, expired) : \E S :
        driver' = [driver EXCEPT ![n] =
            (IF Cardinality(Participants(n, S)) >= 2 THEN InitiateNext(after, n, Participants(n, S))
             ELSE [d |-> after, out |-> {}]).d]
  <2>1. PICK expired \in SUBSET Expirable(n) : \E after \in ExpireRounds(d, n, expired) :
        LET blame == [p \in Node |->
                Cardinality({id \in expired : p \in Blamed(n, d.collectors[id])})]
            rep == Penalize(reputation[n], blame)
            parts == Participants(n, rep.evicted)
            next == IF Cardinality(parts) >= 2 THEN InitiateNext(after, n, parts)
                    ELSE [d |-> after, out |-> {}]
        IN  driver' = [driver EXCEPT ![n] = next.d]
    BY DEF Tick
  <2> QED BY <2>1
<1>2. PICK after \in ExpireRounds(d, n, expired) : \E S :
        driver' = [driver EXCEPT ![n] =
            (IF Cardinality(Participants(n, S)) >= 2 THEN InitiateNext(after, n, Participants(n, S))
             ELSE [d |-> after, out |-> {}]).d]
  BY <1>1
<1>3. PICK parts, S : /\ parts = Participants(n, S)
                      /\ driver' = [driver EXCEPT ![n] = (IF Cardinality(parts) >= 2
                            THEN InitiateNext(after, n, parts) ELSE [d |-> after, out |-> {}]).d]
  BY <1>2
<1>4. /\ n \in parts /\ HasKeys(n, parts)
      /\ Cardinality(parts) >= 2 => Cardinality(parts) \in 2..MaxParts
  BY <1>3, Chosen
<1>5. /\ Fit(n, d) /\ now \in Nat /\ Sole(n, d) /\ expired \in SUBSET DOMAIN d.collectors
  BY ClockAssumption DEF RoundInv, Shape, NothingLost, Expirable
<1>6. Fit(n, after) BY <1>5, AllExpired
<1>7. Sole(n, after) /\ Retains(d, after) BY <1>5, SoleAllExpired
<1>8. UNCHANGED <<submitted, restarts, delivered>> BY DEF Tick
<1>9. CASE Cardinality(parts) >= 2 /\ after.queue # <<>>
  <2> DEFINE r == InitiateNext(after, n, parts)
  <2>1. /\ Sole(n, r.d) /\ after.pending = None /\ Range(after.queue) = {r.d.pending}
        /\ after.log \subseteq r.d.log
    BY <1>4, <1>6, <1>7, <1>9, SoleNext
  <2>2. driver' = [driver EXCEPT ![n] = r.d] BY <1>3, <1>9
  <2> HIDE DEF r
  <2>3. Accounts(n, d, after, {}) BY <1>5, <1>7, RetainsAccounts
  <2>4. InHand(after) \subseteq InHand(r.d) BY <2>1 DEF InHand
  <2>5. Accounts(n, d, r.d, delivered') BY <2>1, <2>3, <2>4 DEF Accounts
  <2> QED BY <1>8, <2>1, <2>2, <2>5, LossKept
<1>10. CASE ~(Cardinality(parts) >= 2) \/ after.queue = <<>>
  <2>1. driver' = [driver EXCEPT ![n] = after] BY <1>3, <1>10 DEF InitiateNext
  <2>2. Accounts(n, d, after, delivered') BY <1>5, <1>7, RetainsAccounts
  <2> QED BY <1>7, <1>8, <2>1, <2>2, LossKept
<1> QED BY <1>9, <1>10

\* The end of both handlers.
LEMMA LossHandled ==
    ASSUME RoundInv, NothingLost, NEW n \in Node, NEW d, Fit(n, d), Sole(n, d),
           driver' = [driver EXCEPT ![n] = [d EXCEPT !.outbox = {}]],
           UNCHANGED <<submitted, restarts>>, delivered \subseteq delivered',
           Accounts(n, driver[n], d, delivered')
    PROVE  NothingLost'
<1> DEFINE e == [d EXCEPT !.outbox = {}]
<1>1. /\ e.log = d.log /\ e.queue = d.queue /\ e.pending = d.pending
      /\ e.pendingRound = d.pendingRound /\ e.retryAfter = d.retryAfter
      /\ e.myShare = d.myShare /\ e.retries = d.retries /\ e.collectors = d.collectors
  BY DEF Fit, Driver
<1>2. driver' = [driver EXCEPT ![n] = e] OBVIOUS
<1> HIDE DEF e
<1>3. Sole(n, e) BY <1>1 DEF Sole
<1>4. Accounts(n, driver[n], e, delivered') BY <1>1 DEF Accounts, InHand
<1> QED BY <1>2, <1>3, <1>4, LossKept

\* A start handled.
LEMMA StartLoss ==
    ASSUME RoundInv, NothingLost, NEW n \in Node, HandleStart(n)
    PROVE  NothingLost'
<1> DEFINE d == driver[n]
<1>1. PICK s \in {o \in net : o.kind = "start" /\ o.to = n} :
        /\ driver' = [driver EXCEPT ![n] = [OnStart(d, n, s).d EXCEPT !.outbox = {}]]
        /\ UNCHANGED <<submitted, restarts, delivered>>
  BY DEF HandleStart
<1> DEFINE r == OnStart(d, n, s)
<1>2. Fit(n, d) /\ now \in Nat /\ Sole(n, d)
  BY ClockAssumption DEF RoundInv, Shape, NothingLost
<1>3. s \in Start /\ s.to = n
  <2>1. s \in Start \cup Share /\ s.kind = "start" /\ s.to = n BY DEF RoundInv, Shape
  <2> QED BY <2>1 DEF Share
<1>4. Fit(n, r.d) BY <1>2, <1>3, Joined
<1>5. Sole(n, r.d) /\ Retains(d, r.d) BY <1>2, <1>3, SoleJoined
<1>6. driver' = [driver EXCEPT ![n] = [r.d EXCEPT !.outbox = {}]] BY <1>1
<1> HIDE DEF r
<1>7. Accounts(n, d, r.d, delivered') BY <1>2, <1>5, RetainsAccounts
<1> QED BY <1>1, <1>4, <1>5, <1>6, <1>7, LossHandled

\* A share handled.
LEMMA ShareLoss ==
    ASSUME RoundInv, NothingLost, NEW n \in Node, HandleShare(n)
    PROVE  NothingLost'
<1> DEFINE d == driver[n]
           On(s) == IF Admissible(d, n, s) THEN OnShare(d, n, s)
                    ELSE [d |-> d, out |-> {}, extracted |-> {}, completed |-> {}]
<1>1. PICK s \in {o \in net : o.kind = "share" /\ o.to = n} :
        /\ driver' = [driver EXCEPT ![n] = [On(s).d EXCEPT !.outbox = {}]]
        /\ delivered' = delivered \cup On(s).extracted
        /\ UNCHANGED <<submitted, restarts>>
  BY DEF HandleShare
<1> DEFINE r == On(s)
<1>2. Fit(n, d) /\ now \in Nat /\ Sole(n, d)
  BY ClockAssumption DEF RoundInv, Shape, NothingLost
<1>3. s \in Share /\ s.to = n
  <2>1. s \in Start \cup Share /\ s.kind = "share" /\ s.to = n BY DEF RoundInv, Shape
  <2> QED BY <2>1 DEF Start
<1>4. /\ driver' = [driver EXCEPT ![n] = [r.d EXCEPT !.outbox = {}]]
      /\ delivered' = delivered \cup r.extracted
  BY <1>1
<1>5. CASE Admissible(d, n, s)
  <2>1. r = OnShare(d, n, s) BY <1>5
  <2> HIDE DEF r
  <2>2. Fit(n, r.d)
    <3>1. ShareTaken(n, d, s, Submit(d.collectors[s.id], s.from, s.payload), r)
      BY <1>2, <1>3, <1>5, <2>1, Shared
    <3> QED BY <3>1 DEF ShareTaken
  <2>3. Sole(n, r.d) /\ Spares(n, d, r) BY <1>2, <1>3, <1>5, <2>1, SoleShared
  <2>4. Accounts(n, d, r.d, delivered')
    <3>1. CASE Retains(d, r.d) BY <1>2, <3>1, RetainsAccounts
    <3>2. CASE \E x \in r.extracted : x.node = n /\ x.msg = d.pending
      <4>1. \A m \in InHand(d) : m = d.pending \/ m \in InHand(r.d) BY <2>3 DEF InHand, Spares
      <4> QED BY <1>4, <2>3, <3>2, <4>1 DEF Accounts, Spares
    <3> QED BY <2>3, <3>1, <3>2 DEF Spares
  <2> QED BY <1>1, <1>4, <2>2, <2>3, <2>4, LossHandled
<1>6. CASE ~Admissible(d, n, s)
  <2>1. r.d = d /\ r.extracted = {} BY <1>6
  <2> HIDE DEF r
  <2>2. Accounts(n, d, d, delivered') BY DEF Accounts
  <2> QED BY <1>1, <1>2, <1>4, <2>1, <2>2, LossHandled
<1> QED BY <1>5, <1>6

LEMMA InitLoss == Init => NothingLost
<1> SUFFICES ASSUME Init PROVE NothingLost OBVIOUS
<1>1. \A n \in Node : driver[n] = NewDriver /\ submitted = {} BY DEF Init
<1>2. ASSUME NEW n PROVE Sole(n, NewDriver)
  <2>1. /\ NewDriver.log = {} /\ NewDriver.queue = <<>> /\ NewDriver.pending = None
        /\ NewDriver.pendingRound = None /\ NewDriver.retryAfter = None
    BY DEF NewDriver
  <2>2. IsFiniteSet(NewDriver.log) BY <2>1, FS_EmptySet
  <2> QED BY <2>1, <2>2, SoleIdle
<1>3. submitted = {} BY DEF Init
<1> QED BY <1>1, <1>2, <1>3 DEF NothingLost, NoSilentLoss

LEMMA StepLoss == Patient /\ KeysStored /\ RoundInv /\ NothingLost /\ [Next]_vars => NothingLost'
<1> SUFFICES ASSUME Patient, KeysStored, RoundInv, NothingLost, [Next]_vars PROVE NothingLost' OBVIOUS
<1>1. ASSUME NEW n \in Node, NEW m \in Msg, QueueMessage(n, m) PROVE NothingLost'
  BY <1>1, QueueLoss
<1>2. ASSUME NEW n \in Node, Tick(n) PROVE NothingLost' BY <1>2, TickLoss
<1>3. ASSUME NEW n \in Node, HandleStart(n) PROVE NothingLost' BY <1>3, StartLoss
<1>4. ASSUME NEW n \in Node, HandleShare(n) PROVE NothingLost' BY <1>4, ShareLoss
<1>5. ASSUME NEW n \in Node, Restart(n) PROVE NothingLost' BY <1>5, RestartLoss
<1>6. ASSUME NEW n \in Node, NEW p \in Node, Reinstate(n, p) PROVE NothingLost'
  BY <1>6, LossStill DEF Reinstate
<1>7. CASE Lose BY <1>7, LossStill DEF Lose
<1>8. CASE AdvanceClock BY <1>8, LossStill DEF AdvanceClock
<1>9. CASE UNCHANGED vars BY <1>9, LossStill DEF vars
<1> QED BY <1>1, <1>2, <1>3, <1>4, <1>5, <1>6, <1>7, <1>8, <1>9 DEF Next

\* A round of a pair is between the two.
LEMMA PairsAgree ==
    ASSUME NEW a, NEW b, Node = {a, b}, RoundInv
    PROVE  Agreed
<1>1. ASSUME NEW S \in SUBSET Node, Cardinality(S) >= 2 PROVE S = Node
  <2>1. CASE a \notin S
    <3>1. S = {} \/ S = {b} BY <2>1
    <3>2. Cardinality(S) \in {0, 1} BY <3>1, FS_EmptySet, FS_Singleton
    <3> QED BY <1>1, <3>2
  <2>2. CASE b \notin S
    <3>1. S = {} \/ S = {a} BY <2>2
    <3>2. Cardinality(S) \in {0, 1} BY <3>1, FS_EmptySet, FS_Singleton
    <3> QED BY <1>1, <3>2
  <2> QED BY <2>1, <2>2
<1>2. ASSUME NEW t \in sent PROVE t.payload.parts = Node
  <2>1. t \in Broadcast BY DEF RoundInv
  <2>2. t.payload.parts \in SUBSET Node /\ Cardinality(t.payload.parts) \in 2..MaxParts
    BY <2>1 DEF Broadcast, Payload
  <2>3. Cardinality(t.payload.parts) >= 2 BY <2>2
  <2> QED BY <1>1, <2>2, <2>3
<1> QED BY <1>2 DEF Agreed

----------------------------------------------------------------------------
(* The rounds are an anonymous broadcast *)

\* The two state functions that Ideal is instantiated with.
Carried(S) == {[round |-> t.id, msg |-> t.payload.msg] : t \in {x \in S : x.payload.msg # None}}
Shown(D) == {[node |-> x.node, round |-> x.id, msg |-> x.msg] : x \in D}

\* Neutral shares carry nothing.
LEMMA IdealStill ==
    ASSUME UNCHANGED <<submitted, delivered>>, sent \subseteq sent',
           \A t \in sent' \ sent : t.payload.msg = None
    PROVE  UNCHANGED Ideal!vars
<1>1. Carried(sent') = Carried(sent) BY DEF Carried
<1> QED BY <1>1 DEF Carried, Ideal!vars

\* The share that n sends of a round it initiated is the first in it to carry a message.
LEMMA FirstCarrier ==
    ASSUME RoundInv', restarts' = 0, Once, Agreed', NEW n \in Node, NEW t,
           sent' = sent \cup {t}, t.from = n, n \in t.payload.parts,
           t.payload.msg \in Held(driver[n]), t.payload.msg # None
    PROVE  \A u \in sent : u.payload.msg # None =>
                u.id # t.id /\ u.payload.msg # t.payload.msg
<1>1. Agreed /\ NoSplitShare' /\ CarrierLast' BY DEF Agreed, RoundInv
<1>2. Unsent(n, driver[n], sent) BY <1>1 DEF Once
<1>3. AuthorOf[t.payload.msg] = n BY DEF Once, Keeper
<1> SUFFICES ASSUME NEW u \in sent, u.payload.msg # None
             PROVE  u.id # t.id /\ u.payload.msg # t.payload.msg
    OBVIOUS
<1>4. u.payload.msg # t.payload.msg
  <2> SUFFICES ASSUME u.payload.msg = t.payload.msg PROVE FALSE OBVIOUS
  <2>1. u.from = n BY <1>3 DEF Once
  <2> QED BY <1>2, <2>1 DEF Unsent
<1>5. u.id # t.id
  <2> SUFFICES ASSUME u.id = t.id PROVE FALSE OBVIOUS
  <2>1. u \in sent' /\ t \in sent' OBVIOUS
  <2>2. CASE u.from = n BY <1>1, <1>4, <2>1, <2>2 DEF NoSplitShare
  <2>3. CASE u.from # n
    <3>1. n \in u.payload.parts \ {u.from} BY <2>1, <2>3 DEF Agreed
    <3>2. PICK v \in sent' : v.from = n /\ v.id = u.id /\ v.payload.msg = None
      BY <1>1, <2>1, <3>1 DEF CarrierLast
    <3> QED BY <1>1, <2>1, <3>2 DEF NoSplitShare
  <2> QED BY <2>2, <2>3
<1> QED BY <1>4, <1>5

\* A handler submits nothing, and shows what a round carried, or carries and shows.
LEMMA IdealHandled ==
    ASSUME RoundInv, RoundInv', restarts' = 0, Once, Agreed', NEW n \in Node, NEW e, Effect(n, e)
    PROVE  [Ideal!Next]_Ideal!vars
<1> DEFINE d == driver[n]
           gained == delivered' \ delivered
<1>1. /\ UNCHANGED submitted /\ sent \subseteq sent' /\ delivered' = delivered \cup gained
      /\ \A x \in gained :
            /\ x.node = n /\ x.msg # None /\ x.id \notin d.emitted
            /\ \E t \in sent' : t.id = x.id /\ t.payload.msg = x.msg
      /\ \A x, y \in gained : x = y
  BY DEF Effect, Sends, Draws
<1>2. ASSUME NEW y \in delivered, y.node = n PROVE y.id \in d.emitted BY <1>2 DEF Once, Drawn
<1> DEFINE line(x) == [node |-> x.node, round |-> x.id, msg |-> x.msg]
<1>3. ASSUME NEW x \in gained
      PROVE  /\ Shown(delivered') = Shown(delivered) \cup {line(x)}
             /\ line(x) \notin Shown(delivered)
             /\ \A s \in Shown(delivered) : s.node = n => s.round # x.id
  <2>1. delivered' = delivered \cup {x} BY <1>1, <1>3
  <2>2. \A y \in delivered : y.node = n => y.id # x.id BY <1>1, <1>2, <1>3
  <2>3. x.node = n BY <1>1, <1>3
  <2> HIDE DEF gained
  <2>4. \A s \in Shown(delivered) : s.node = n => s.round # x.id BY <2>2 DEF Shown
  <2>5. Shown(delivered') = Shown(delivered) \cup {line(x)} BY <2>1 DEF Shown
  <2>6. line(x).node = n /\ line(x).round = x.id BY <2>3
  <2> HIDE DEF line
  <2> QED BY <2>4, <2>5, <2>6
<1> HIDE DEF gained
<1>4. CASE \A t \in sent' \ sent : t.payload.msg = None
  <2>1. Carried(sent') = Carried(sent) BY <1>1, <1>4 DEF Carried
  <2>2. CASE gained = {}
    <3>1. UNCHANGED delivered BY <1>1, <2>2
    <3> QED BY <1>1, <1>4, <3>1, IdealStill
  <2>3. ASSUME NEW x \in gained PROVE Ideal!Show(line(x))
    <3>1. PICK t \in sent' : t.id = x.id /\ t.payload.msg = x.msg /\ x.msg # None BY <1>1, <2>3
    <3>2. [round |-> x.id, msg |-> x.msg] \in Carried(sent)
      <4>1. t \in sent BY <1>4, <3>1
      <4> QED BY <3>1, <4>1 DEF Carried
    <3>3. x.node = n BY <1>1, <2>3
    <3> QED BY <1>1, <1>3, <2>1, <2>3, <3>2, <3>3 DEF Ideal!Show, Carried, Shown
  <2>4. ASSUME NEW x \in gained PROVE Ideal!Next
    <3>1. line(x) \in Shown(delivered') \ Shown(delivered) BY <1>3, <2>4
    <3> QED BY <2>3, <2>4, <3>1 DEF Ideal!Next, Shown
  <2> QED BY <2>2, <2>4
<1>5. ASSUME NEW t, Carries(n, t) PROVE Ideal!Next
  <2>1. /\ sent' = sent \cup {t} /\ t.from = n /\ n \in t.payload.parts
        /\ t.payload.msg \in Held(d)
        /\ \E x \in gained : x.id = t.id /\ x.msg = t.payload.msg
    BY <1>5 DEF Carries, gained
  <2>2. PICK x \in gained : x.id = t.id /\ x.msg = t.payload.msg BY <2>1
  <2> DEFINE c == [round |-> t.id, msg |-> t.payload.msg]
  <2>3. t.payload.msg # None /\ x.node = n BY <1>1, <2>2
  <2>4. t.payload.msg \in submitted /\ AuthorOf[t.payload.msg] = n BY <2>1 DEF Once, Keeper
  <2>5. \A u \in sent : u.payload.msg # None => u.id # t.id /\ u.payload.msg # t.payload.msg
    BY <2>1, <2>3, FirstCarrier
  <2>6. /\ Carried(sent') = Carried(sent) \cup {c} /\ c \notin Carried(sent)
        /\ \A b \in Carried(sent) : b.round # c.round /\ b.msg # c.msg
    <3>1. {u \in sent' : u.payload.msg # None} = {u \in sent : u.payload.msg # None} \cup {t}
      BY <2>1, <2>3
    <3>2. Carried(sent') = Carried(sent) \cup {c} BY <3>1 DEF Carried
    <3>3. \A b \in Carried(sent) : b.round # c.round /\ b.msg # c.msg BY <2>5 DEF Carried
    <3> HIDE DEF c
    <3> QED BY <3>2, <3>3
  <2>7. line(x) = [node |-> AuthorOf[c.msg], round |-> c.round, msg |-> c.msg] BY <2>2, <2>3, <2>4
  <2>8. Shown(delivered') = Shown(delivered) \cup {line(x)} BY <1>3
  <2>9. c.msg \in submitted BY <2>4
  <2> HIDE DEF c, line
  <2>10. Ideal!Carry(c) BY <1>1, <2>6, <2>7, <2>8, <2>9 DEF Ideal!Carry, Carried, Shown
  <2>11. c \in Carried(sent') \ Carried(sent) BY <2>6
  <2> QED BY <2>10, <2>11 DEF Ideal!Next, Carried
<1>6. (\A t \in sent' \ sent : t.payload.msg = None) \/ \E t : Carries(n, t) BY DEF Effect
<1> QED BY <1>4, <1>5, <1>6

\* What an operator queues is submitted.
LEMMA IdealQueued ==
    ASSUME NEW n \in Node, NEW m \in Msg, QueueMessage(n, m)
    PROVE  Ideal!Next
BY DEF QueueMessage, Ideal!Next, Ideal!Submit

\* Every step; a restart is excluded.
LEMMA IdealStep ==
    ASSUME RoundInv, RoundInv', restarts = 0, restarts' = 0, Once, Agreed', [Next]_vars
    PROVE  [Ideal!Next]_Ideal!vars
<1>1. ASSUME NEW n \in Node, NEW m \in Msg, QueueMessage(n, m) PROVE [Ideal!Next]_Ideal!vars
  BY <1>1, IdealQueued
<1>2. ASSUME NEW n \in Node, Tick(n) PROVE [Ideal!Next]_Ideal!vars BY <1>2, IdealStill DEF Tick
<1>3. ASSUME NEW n \in Node, HandleStart(n) PROVE [Ideal!Next]_Ideal!vars
  BY <1>3, StartEffect, IdealHandled
<1>4. ASSUME NEW n \in Node, HandleShare(n) PROVE [Ideal!Next]_Ideal!vars
  BY <1>4, ShareEffect, IdealHandled
<1>5. ASSUME NEW n \in Node, Restart(n) PROVE FALSE
  BY <1>5 DEF Restart
<1>6. ASSUME NEW n \in Node, NEW p \in Node, Reinstate(n, p) PROVE [Ideal!Next]_Ideal!vars
  BY <1>6, IdealStill DEF Reinstate
<1>7. CASE Lose \/ AdvanceClock \/ UNCHANGED vars
  BY <1>7, IdealStill DEF Lose, AdvanceClock, vars
<1> QED BY <1>1, <1>2, <1>3, <1>4, <1>5, <1>6, <1>7 DEF Next

LEMMA IdealInit == Init => Ideal!Init
BY DEF Init, Ideal!Init

----------------------------------------------------------------------------
(* The theorems *)

\* What the fields of a driver hold between two handlers, in particular: no
\* collected share is from outside its round, no round is ahead of the highest
\* id seen, and a pending round is always collecting (driver.rs 93-109).
THEOREM RoundTypes == Spec => []TypeOK
<1>1. RoundInv => TypeOK
  <2> SUFFICES ASSUME RoundInv PROVE TypeOK OBVIOUS
  <2>1. Shape BY DEF RoundInv
  <2>2. ASSUME NEW n \in Node
        PROVE  LET d == driver[n] IN
            /\ d.current \in Id
            /\ \A id \in DOMAIN d.collectors : LET c == d.collectors[id] IN
                /\ id \in Id /\ id <= d.current
                /\ c.initiator \in c.parts /\ c.parts \subseteq Node
                /\ DOMAIN c.shares \subseteq c.parts
                /\ \A p \in DOMAIN c.shares : c.shares[p] \in Payload
            /\ d.emitted \subseteq Id
            /\ d.queue \in Seq(Msg)
            /\ d.pending \in Msg \cup {None}
            /\ d.pendingRound = None \/ d.pendingRound \in DOMAIN d.collectors
            /\ d.retries \in 0..MaxRetries
            /\ d.myShare = None \/ d.myShare.payload \in Payload
            /\ d.retryAfter = None \/ d.retryAfter \in Id
    <3> DEFINE d == driver[n]
    <3>1. d \in Driver /\ Fit(n, d) BY <2>1 DEF Shape
    <3> HIDE DEF d
    <3>2. ASSUME NEW id \in DOMAIN d.collectors
          PROVE  LET c == d.collectors[id] IN
            /\ id \in Id /\ id <= d.current
            /\ c.initiator \in c.parts /\ c.parts \subseteq Node
            /\ DOMAIN c.shares \subseteq c.parts
            /\ \A p \in DOMAIN c.shares : c.shares[p] \in Payload
      <4>1. d.collectors \in Table(Nat, Collector) BY <3>1 DEF Driver
      <4>2. d.collectors[id] \in Collector /\ id \in Nat BY <4>1, TableFacts
      <4>3. id <= d.current /\ Proper(n, d.collectors[id]) BY <3>1 DEF Fit
      <4>4. d.collectors[id].shares \in Table(Node, Payload) /\ d.collectors[id].parts \subseteq Node
        BY <4>2 DEF Collector
      <4>5. \A p \in DOMAIN d.collectors[id].shares : d.collectors[id].shares[p] \in Payload
        BY <4>4, TableFacts
      <4> QED BY <4>2, <4>3, <4>4, <4>5 DEF Proper, Id
    <3>3. d.pendingRound = None \/ d.pendingRound \in DOMAIN d.collectors BY <3>1 DEF Fit, Ready
    <3>4. /\ d.current \in Id /\ d.emitted \subseteq Id /\ d.queue \in Seq(Msg)
          /\ d.pending \in Msg \cup {None} /\ d.retries \in 0..MaxRetries
          /\ d.myShare = None \/ d.myShare.payload \in Payload
          /\ d.retryAfter = None \/ d.retryAfter \in Id
      BY <3>1 DEF Driver, Carrier, Payload, Id
    <3> QED BY <3>2, <3>3, <3>4 DEF d
  <2> QED BY <2>1, <2>2 DEF TypeOK, Shape
<1> QED BY <1>1, RoundAlways, PTL

\* As long as no node has restarted: whatever collides, is lost, late or retried,
\* nobody broadcasts two different shares under one round id (driver.rs 333-355,
\* the loser of a tie-break answers under the id it had chosen itself).
THEOREM OneShareARound == Spec => [](restarts = 0 => NoSplitShare)
<1>1. RoundInv => (restarts = 0 => NoSplitShare) BY DEF RoundInv
<1> QED BY <1>1, RoundAlways, PTL

\* As long as no node has restarted: a share that carries a message leaves only
\* after the neutral share of every other participant (driver.rs 425-450).
THEOREM CarriersGoLast == Spec => [](restarts = 0 => CarrierLast)
<1>1. RoundInv => (restarts = 0 => CarrierLast) BY DEF RoundInv
<1> QED BY <1>1, RoundAlways, PTL

\* Where every node has the key of every other, a message that a driver holds has
\* a round of its own collecting or waits for the end of one that is, so the tick
\* or the share that ends it wakes the message up (driver.rs 315-324, 482-500).
THEOREM HeldMessagesWake ==
    ASSUME \A n \in Node : AllKeys(n)
    PROVE  Spec => []NeverStranded
<1>1. RoundInv => NeverStranded BY DEF RoundInv, Waking, Awake, NeverStranded
<1> QED BY <1>1, RoundAlways, PTL

\* Between two nodes, a strike is only ever earned in a round the peer began and
\* then left: a round of our own that nobody answered costs nothing (driver.rs
\* 281-308, tick spares abandoned rounds).
THEOREM OwnRoundsCostNothing ==
    ASSUME NEW a, NEW b, Node = {a, b}
    PROVE  Spec => OwnRoundsBlameless
<1>1. ASSUME RoundInv, [Next]_vars, NEW n \in Node, NEW p \in Node,
             reputation'[n].strikes[p] > reputation[n].strikes[p]
      PROVE  \E id \in DOMAIN driver[n].collectors \ DOMAIN driver'[n].collectors :
                /\ driver[n].collectors[id].initiator # n
                /\ p \in Missing(driver[n].collectors[id])
  <2>1. /\ reputation \in [Node -> [strikes : [Node -> Nat], evicted : SUBSET Node]]
        /\ reputation[n].strikes[p] \in Nat /\ reputation[n] \in [strikes : [Node -> Nat], evicted : SUBSET Node]
    BY <1>1 DEF RoundInv, Shape
  <2>2. ~(reputation'[n].strikes[p] = reputation[n].strikes[p] \/ reputation'[n].strikes[p] = 0)
    BY <1>1, <2>1
  <2>3. reputation'[n] # reputation[n] BY <2>2
  <2>4. ASSUME NEW m \in Node, Tick(m) PROVE Tick(n)
    <3>1. m = n BY <1>1, <2>3, <2>4, TickStep
    <3> QED BY <2>4, <3>1
  <2>5. ASSUME NEW m \in Node, HandleShare(m) PROVE FALSE
    <3>1. PICK peers : reputation' = [reputation EXCEPT ![m] = Reward(@, peers)]
      BY <2>5 DEF HandleShare
    <3>2. m = n /\ reputation'[n] = Reward(reputation[n], peers) BY <2>1, <2>3, <3>1
    <3>3. reputation'[n].strikes[p] \in {0, reputation[n].strikes[p]} BY <2>1, <3>2 DEF Reward
    <3> QED BY <2>2, <3>3
  <2>6. ASSUME NEW m \in Node, Restart(m) PROVE FALSE
    <3>1. m = n /\ reputation'[n] = NewReputation BY <2>1, <2>3, <2>6 DEF Restart
    <3>2. reputation'[n].strikes[p] = 0 BY <3>1 DEF NewReputation
    <3> QED BY <2>2, <3>2
  <2>7. ASSUME NEW m \in Node, NEW q \in Node, Reinstate(m, q) PROVE FALSE
    <3> DEFINE rep == [reputation[n] EXCEPT !.evicted = @ \ {q}, !.strikes[q] = 0]
    <3>1. m = n BY <2>1, <2>3, <2>7 DEF Reinstate
    <3>2. reputation'[n] = rep BY <2>1, <2>7, <3>1 DEF Reinstate
    <3>3. rep.strikes[p] \in {0, reputation[n].strikes[p]} BY <2>1
    <3> QED BY <2>2, <3>2, <3>3
  <2>8. Tick(n)
    <3>1. \A m \in Node : HandleStart(m) => UNCHANGED reputation BY DEF HandleStart
    <3>2. \A m \in Node, x \in Msg : QueueMessage(m, x) => UNCHANGED reputation BY DEF QueueMessage
    <3>3. (Lose \/ AdvanceClock \/ UNCHANGED vars) => UNCHANGED reputation
      BY DEF Lose, AdvanceClock, vars
    <3> QED BY <1>1, <2>3, <2>4, <2>5, <2>6, <2>7, <3>1, <3>2, <3>3 DEF Next
  <2>9. PICK id \in DOMAIN driver[n].collectors \ DOMAIN driver'[n].collectors :
            p \in Blamed(n, driver[n].collectors[id])
    BY <1>1, <2>8, TickStep
  <2> DEFINE c == driver[n].collectors[id]
  <2>10. Proper(n, c) /\ c \in Collector
    <3>1. driver[n] \in Driver /\ Fit(n, driver[n]) BY <1>1 DEF RoundInv, Shape
    <3>2. driver[n].collectors \in Table(Nat, Collector) BY <3>1 DEF Driver
    <3>3. c \in Collector BY <3>2, TableFacts
    <3> QED BY <3>1, <3>3 DEF Fit
  <2> HIDE DEF c
  <2>11. p \in Missing(c) /\ p # n BY <2>9 DEF Blamed, c
  <2>12. c.initiator # n
    <3> SUFFICES ASSUME c.initiator = n PROVE FALSE OBVIOUS
    <3>1. DOMAIN c.shares \subseteq Node \ {n} /\ p \notin DOMAIN c.shares
      BY <2>10, <2>11 DEF Proper, Collector, Missing
    <3>2. DOMAIN c.shares = {} BY <2>11, <3>1
    <3> QED BY <2>9, <3>2 DEF Blamed, c
  <2> QED BY <2>9, <2>11, <2>12 DEF c
<1>2. RoundInv /\ [Next]_vars =>
        [\A n, p \in Node :
            reputation'[n].strikes[p] > reputation[n].strikes[p] =>
                \E id \in DOMAIN driver[n].collectors \ DOMAIN driver'[n].collectors :
                    /\ driver[n].collectors[id].initiator # n
                    /\ p \in Missing(driver[n].collectors[id])]_vars
  BY <1>1
<1> QED BY <1>2, RoundAlways, PTL DEF Spec, OwnRoundsBlameless

\* As long as no node has restarted, and where nodes that share a round id chose
\* the same participants: however a round collides, expires or is retried, no node
\* extracts a message twice. The author's own last share always comes out at the
\* author, so what it has sent it does not retry (driver.rs 455-500, the
\* message is dropped before the round that beat ours could take it up again).
THEOREM DeliveredOnce == Spec => [](restarts = 0 /\ Agreed => NoDuplicateDelivery)
<1>1. ASSUME restarts = 0 => Once, restarts = 0, Agreed
      PROVE  NoDuplicateDelivery
  <2> SUFFICES ASSUME NEW x \in delivered, NEW y \in delivered, x.node = y.node, x.msg = y.msg
               PROVE  x = y
      BY DEF NoDuplicateDelivery
  <2>1. Drawn(x) /\ Drawn(y) /\ OneRound(sent) BY <1>1 DEF Once
  <2>2. x.id = y.id BY <2>1 DEF Drawn, OneRound
  <2> QED BY <1>1, <2>2 DEF Once
<1> QED BY <1>1, OnceAlways, PTL

\* Between two nodes that do not restart no message is ever extracted twice by
\* the same node, whatever is lost, late or retried (driver.rs 455-500).
THEOREM PairsDeliverOnce ==
    ASSUME NEW a, NEW b, Node = {a, b}
    PROVE  Spec => [](restarts = 0 => NoDuplicateDelivery)
<1>1. RoundInv => Agreed BY PairsAgree
<1> QED BY <1>1, DeliveredOnce, RoundAlways, PTL

\* Where an operator waits for one message before queueing the next, and the live
\* trusted sessions are with peers whose keys are stored: as long as no node has
\* restarted, a message leaves its author only by coming out of a round there, or
\* once it has been started more than MAX_CONFLICT_RETRIES times, whatever collides,
\* expires, is lost or comes late (driver.rs 171-186, initiate_next; 268-325, tick;
\* 455-524). Without the first hypothesis initiate_next overwrites the message that
\* still waits for its round; without the second it drops the queue's head when
\* compute_xor_share finds no key.
THEOREM NothingLostSilently ==
    ASSUME Patient, KeysStored
    PROVE  Spec => []NoSilentLoss
<1>1. NothingLost /\ RoundInv /\ [Next]_vars => NothingLost' BY StepLoss
<1>2. NothingLost => NoSilentLoss BY DEF NothingLost
<1> QED BY <1>1, <1>2, InitLoss, RoundAlways, PTL DEF Spec

\* As long as no node restarts, and where nodes that share a round id choose the same
\* participants: the rounds are an anonymous broadcast. However they collide, expire
\* or are retried, a message is carried by one round, which carries nothing else, its
\* author extracts it in the step in which its share leaves (driver.rs 431-500), and
\* whatever another node extracts is what the round carried.
THEOREM RoundsBroadcast == Spec /\ [](restarts = 0 /\ Agreed) => ImplementsBroadcast
<1>1. /\ RoundInv /\ RoundInv' /\ (restarts = 0 => Once)
      /\ restarts = 0 /\ Agreed /\ (restarts = 0 /\ Agreed)' /\ [Next]_vars
      => [Ideal!Next]_Ideal!vars
  BY IdealStep
<1> QED BY <1>1, IdealInit, RoundAlways, OnceAlways, PTL DEF Spec, ImplementsBroadcast, Ideal!Spec

\* Between two nodes that do not restart the rounds are always an anonymous broadcast.
THEOREM PairsBroadcast ==
    ASSUME NEW a, NEW b, Node = {a, b}
    PROVE  Spec /\ [](restarts = 0) => ImplementsBroadcast
<1>1. RoundInv => Agreed BY PairsAgree
<1> QED BY <1>1, RoundsBroadcast, RoundAlways, PTL
=============================================================================
