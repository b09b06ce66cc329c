---------------------------- MODULE SocialProofs ----------------------------
(* Channels, boards and history, for any nodes, deployments and limits:     *)
(* what the state looks like, that an object is shown once, and that none   *)
(* falls between the history of a session and its flood.                    *)
EXTENDS Social, SequenceTheorems, FiniteSetTheorems, TLAPS

Frame ==
    HistoryRequest \cup HistoryResponse \cup DeleteRequest
        \cup {AsChannel(o) : o \in Object} \cup {AsForum(o) : o \in Object}

\* Queues within their bounds, P being what is published.
Proper(q, P) ==
    /\ q \in [Pair -> Seq(Frame)]
    /\ \A p \in Pair : Queued(q[p]) <= QueueCap /\ Carried(q[p]) \subseteq P

Shape ==
    /\ net \in Network
    /\ subscribed \in [Node -> SUBSET Topic] /\ \A n \in Node : IsFiniteSet(subscribed[n])
    /\ known \in [Node -> SUBSET Node]
    /\ published \subseteq ChannelMessage \cup ForumPost /\ IsFiniteSet(published)
    /\ store \in [Node -> SUBSET published] /\ missed \in [Node -> SUBSET published]
    /\ pool \subseteq Pair
    /\ Proper(queue, published)
    /\ asked = [p \in Pair |-> asked[p]]
    /\ cuts \in 0..net.maxCuts /\ deletes \in 0..net.maxDeletes

\* Only a registered session has a queue, and has asked anything.
Idle ==
    \A p \in Pair \ pool : queue[p] = <<>> /\ asked[p] = <<>>

\* What a's end has asked is not answered before b's end is there.
Unread ==
    \A p \in pool : <<p[2], p[1]>> \notin pool =>
        \A t \in DOMAIN asked[p] : \E m \in Range(queue[p]) :
            m.type = "request" /\ m.topic = t /\ m.since = asked[p][t]

\* Who sends an object has it, or deleted it since.
CarriedHeld == \A p \in Pair : Carried(queue[p]) \subseteq store[p[1]] \cup missed[p[1]]

HandoverInv ==
    /\ Shape /\ Idle /\ Unread /\ CarriedHeld /\ HandoverGapFree
    /\ silent = [p \in Pair |-> silent[p]]

----------------------------------------------------------------------------
(* Queues *)

\* What a frame carries.
ObjectsOf(m) ==
    IF m.type \in {"channel", "forum"} THEN {m.object}
    ELSE IF m.type = "response" THEN m.objects ELSE {}

LEMMA Carries ==
    ASSUME NEW q PROVE Carried(q) = UNION {ObjectsOf(m) : m \in Range(q)}
BY DEF Carried, ObjectsOf

LEMMA CarriesMore ==
    ASSUME NEW q, NEW r, NEW m, Range(r) = Range(q) \cup {m}
    PROVE  Carried(r) = Carried(q) \cup ObjectsOf(m)
<1>1. Carried(q) = UNION {ObjectsOf(x) : x \in Range(q)} BY Carries
<1>2. Carried(r) = UNION {ObjectsOf(x) : x \in Range(r)} BY Carries
<1> QED BY <1>1, <1>2

LEMMA CarriesNothing == Carried(<<>>) = {} /\ Range(<<>>) = {} /\ Queued(<<>>) = 0
<1>1. {i \in DOMAIN <<>> : <<>>[i].type \in Flooded} = {} /\ Range(<<>>) = {} BY DEF Range
<1> QED BY <1>1, Carries, FS_EmptySet DEF Queued

\* The places of q at which Queued counts.
Places(q) == {i \in DOMAIN q : q[i].type \in Flooded}

LEMMA PlacesFinite ==
    ASSUME NEW S, NEW q \in Seq(S)
    PROVE  IsFiniteSet(Places(q)) /\ Queued(q) = Cardinality(Places(q)) /\ Queued(q) \in Nat
<1>1. DOMAIN q = 1..Len(q) /\ Len(q) \in Nat OBVIOUS
<1>2. IsFiniteSet(1..Len(q)) BY <1>1, FS_Interval
<1>3. Places(q) \in SUBSET (1..Len(q)) BY <1>1 DEF Places
<1>4. IsFiniteSet(Places(q)) BY <1>2, <1>3, FS_Subset
<1> QED BY <1>4, FS_CardinalityType DEF Queued, Places

LEMMA QueuedNoMore ==
    ASSUME NEW S, NEW q \in Seq(S), NEW r, NEW f \in [Places(r) -> Places(q)],
           \A i, j \in Places(r) : f[i] = f[j] => i = j
    PROVE  Queued(r) <= Queued(q)
<1>1. f \in Injection(Places(r), Places(q)) BY DEF Injection, IsInjective
<1>2. Cardinality(Places(r)) <= Cardinality(Places(q)) BY <1>1, PlacesFinite, FS_Injection
<1> QED BY <1>2 DEF Queued, Places

LEMMA Appends ==
    ASSUME NEW S, NEW q \in Seq(S), NEW m \in S
    PROVE  LET r == Append(q, m)
           IN  /\ r \in Seq(S) /\ Range(r) = Range(q) \cup {m}
               /\ Queued(r) <= Queued(q) + 1
<1> DEFINE r == Append(q, m)
<1>1. /\ r \in Seq(S) /\ DOMAIN q = 1..Len(q) /\ Len(q) \in Nat /\ DOMAIN r = 1..Len(q) + 1
      /\ r[Len(q) + 1] = m /\ \A i \in DOMAIN q : r[i] = q[i]
      OBVIOUS
<1> HIDE DEF r
<1>2. DOMAIN r = DOMAIN q \cup {Len(q) + 1} BY <1>1
<1>3. Range(r) = Range(q) \cup {m} BY <1>1, <1>2 DEF Range
<1>4. Places(r) \in SUBSET (Places(q) \cup {Len(q) + 1}) BY <1>1, <1>2 DEF Places
<1>5. /\ IsFiniteSet(Places(q) \cup {Len(q) + 1})
      /\ Cardinality(Places(q) \cup {Len(q) + 1}) <= Queued(q) + 1
  <2>1. IsFiniteSet(Places(q)) /\ Queued(q) = Cardinality(Places(q)) /\ Queued(q) \in Nat BY PlacesFinite
  <2>2. /\ IsFiniteSet(Places(q) \cup {Len(q) + 1})
        /\ \/ Cardinality(Places(q) \cup {Len(q) + 1}) = Cardinality(Places(q))
           \/ Cardinality(Places(q) \cup {Len(q) + 1}) = Cardinality(Places(q)) + 1
        BY <2>1, FS_AddElement
  <2> QED BY <2>1, <2>2
<1>6. Cardinality(Places(r)) <= Cardinality(Places(q) \cup {Len(q) + 1}) /\ Cardinality(Places(r)) \in Nat
      BY <1>4, <1>5, FS_Subset, FS_CardinalityType
<1>7. Cardinality(Places(q) \cup {Len(q) + 1}) \in Nat BY <1>5, FS_CardinalityType
<1>9. Queued(r) = Cardinality(Places(r)) /\ Queued(q) \in Nat BY <1>1, PlacesFinite
<1>8. Queued(r) <= Queued(q) + 1 BY <1>5, <1>6, <1>7, <1>9
<1> QED BY <1>1, <1>3, <1>8 DEF r

LEMMA ReadsHead ==
    ASSUME NEW S, NEW q \in Seq(S), q # <<>>
    PROVE  /\ Head(q) \in S /\ Head(q) \in Range(q)
           /\ Tail(q) \in Seq(S) /\ Range(q) = Range(Tail(q)) \cup {Head(q)}
           /\ Queued(Tail(q)) <= Queued(q)
<1> DEFINE r == Tail(q)
<1>1. /\ r \in Seq(S) /\ DOMAIN q = 1..Len(q) /\ Len(q) \in Nat \ {0} /\ DOMAIN r = 1..Len(q) - 1
      /\ Head(q) = q[1] /\ \A i \in DOMAIN r : r[i] = q[i + 1]
      OBVIOUS
<1> HIDE DEF r
<1>2. 1 \in DOMAIN q /\ Head(q) \in S BY <1>1
<1>3. \A i \in DOMAIN r : i + 1 \in DOMAIN q BY <1>1
<1>4. \A k \in DOMAIN q : k = 1 \/ (k - 1 \in DOMAIN r /\ q[k] = r[k - 1]) BY <1>1
<1>5. Range(q) = Range(r) \cup {Head(q)} BY <1>1, <1>2, <1>3, <1>4 DEF Range
<1> DEFINE f == [i \in Places(r) |-> i + 1]
<1>6. \A i \in Places(r) : i + 1 \in Places(q) BY <1>1, <1>3 DEF Places
<1>7. \A i \in Places(r) : i \in Int BY <1>1 DEF Places
<1>8. f \in [Places(r) -> Places(q)] /\ \A i, j \in Places(r) : f[i] = f[j] => i = j BY <1>6, <1>7
<1> HIDE DEF f
<1>9. Queued(r) <= Queued(q) BY <1>8, QueuedNoMore
<1> QED BY <1>1, <1>2, <1>5, <1>9 DEF r, Range

\* Writing past what is queued changes neither.
LEMMA Overtakes ==
    ASSUME NEW S, NEW q \in Seq(S), NEW m \in S, m.type \notin Flooded, NEW r \in Overtaking(q, m)
    PROVE  r \in Seq(S) /\ Range(r) = Range(q) \cup {m} /\ Queued(r) <= Queued(q)
<1>1. PICK i \in 1..Len(q) + 1 : r = InsertAt(q, i, m) BY DEF Overtaking
<1> DEFINE a == SubSeq(q, 1, i - 1)  b == SubSeq(q, i, Len(q))
<1>2. /\ DOMAIN q = 1..Len(q) /\ Len(q) \in Nat /\ i \in Nat \ {0} /\ i <= Len(q) + 1
      BY <1>1
<1>3. a \in Seq(S) /\ Len(a) = i - 1 /\ \A k \in 1..i - 1 : a[k] = q[k] BY <1>2
<1>4. b \in Seq(S) /\ Len(b) = Len(q) + 1 - i /\ \A k \in 1..Len(q) + 1 - i : b[k] = q[i + k - 1] BY <1>2
<1>5. r = a \o <<m>> \o b BY <1>1 DEF InsertAt
<1> HIDE DEF a, b
<1> DEFINE c == <<m>> \o b
<1>13. /\ c \in Seq(S) /\ Len(c) = Len(q) + 2 - i /\ c[1] = m
       /\ \A k \in 1..Len(b) : c[k + 1] = b[k]
  <2>1. <<m>> \in Seq(S) /\ Len(<<m>>) = 1 /\ <<m>>[1] = m OBVIOUS
  <2>2. /\ c \in Seq(S) /\ Len(c) = 1 + Len(b)
        /\ \A k \in 1..1 + Len(b) : c[k] = IF k <= 1 THEN <<m>>[k] ELSE b[k - 1]
        BY <1>4, <2>1, ConcatProperties
  <2>3. Len(b) \in Nat /\ 1 \in 1..1 + Len(b) BY <1>4, LenProperties
  <2>4. \A k \in 1..Len(b) : k + 1 \in 1..1 + Len(b) /\ ~ k + 1 <= 1 /\ (k + 1) - 1 = k BY <2>3
  <2>5. Len(c) = Len(q) + 2 - i BY <1>2, <1>4, <2>2
  <2> HIDE DEF c
  <2>6. c[1] = m BY <2>1, <2>2, <2>3
  <2>7. ASSUME NEW k \in 1..Len(b) PROVE c[k + 1] = b[k]
    <3>1. k + 1 \in 1..1 + Len(b) /\ ~ k + 1 <= 1 /\ (k + 1) - 1 = k BY <2>4
    <3>2. c[k + 1] = b[(k + 1) - 1] BY <2>2, <3>1
    <3> QED BY <3>1, <3>2
  <2> QED BY <2>2, <2>5, <2>6, <2>7
<1>14. r = a \o c BY <1>3, <1>4, <1>5
<1> HIDE DEF c
<1>6. r \in Seq(S) /\ Len(r) = Len(q) + 1 /\ DOMAIN r = 1..Len(q) + 1
      BY <1>2, <1>3, <1>13, <1>14, ConcatProperties, LenProperties
<1>15. \A k \in 1..Len(r) : r[k] = IF k <= Len(a) THEN a[k] ELSE c[k - Len(a)]
      BY <1>3, <1>13, <1>14, ConcatProperties
<1>7. \A k \in DOMAIN r : r[k] = IF k < i THEN a[k] ELSE IF k = i THEN m ELSE b[k - i]
  <2> TAKE k \in DOMAIN r
  <2>1. k \in 1..Len(r) /\ Len(a) = i - 1 /\ k \in Int /\ i \in Int BY <1>2, <1>3, <1>6
  <2>2. CASE k < i BY <1>15, <2>1, <2>2
  <2>3. CASE k = i BY <1>13, <1>15, <2>1, <2>3
  <2>4. CASE k > i
    <3>1. r[k] = c[k - Len(a)] /\ k - Len(a) = (k - i) + 1 /\ k - i \in 1..Len(b)
          BY <1>2, <1>4, <1>6, <1>15, <2>1, <2>4
    <3>2. c[(k - i) + 1] = b[k - i] BY <1>13, <3>1
    <3> QED BY <2>1, <2>4, <3>1, <3>2
  <2> QED BY <2>1, <2>2, <2>3, <2>4
<1>8. \A k \in DOMAIN r : /\ k < i => k \in DOMAIN q /\ r[k] = q[k]
                          /\ k = i => r[k] = m
                          /\ k > i => k - 1 \in DOMAIN q /\ r[k] = q[k - 1]
  <2> TAKE k \in DOMAIN r
  <2>1. CASE k < i BY <1>2, <1>3, <1>6, <1>7, <2>1
  <2>2. CASE k = i BY <1>2, <1>7, <2>2
  <2>3. CASE k > i
    <3>1. k - i \in 1..Len(q) + 1 - i /\ k - 1 \in 1..Len(q) /\ i + (k - i) - 1 = k - 1 BY <1>2, <1>6, <2>3
    <3>2. r[k] = b[k - i] BY <1>2, <1>6, <1>7, <2>3
    <3> QED BY <1>2, <1>4, <1>6, <2>3, <3>1, <3>2
  <2> QED BY <1>2, <1>6, <2>1, <2>2, <2>3
<1>9. \A k \in DOMAIN q : /\ k < i => k \in DOMAIN r
                          /\ k >= i => k + 1 \in DOMAIN r /\ k + 1 > i /\ (k + 1) - 1 = k
      BY <1>2, <1>6
<1>10. Range(r) = Range(q) \cup {m}
  <2>1. \A k \in DOMAIN r : r[k] \in Range(q) \cup {m} BY <1>2, <1>6, <1>8 DEF Range
  <2>2. m \in Range(r) BY <1>2, <1>6, <1>8 DEF Range
  <2>3. ASSUME NEW k \in DOMAIN q PROVE q[k] \in Range(r)
    <3>1. CASE k < i BY <1>8, <1>9, <3>1 DEF Range
    <3>2. CASE k >= i BY <1>8, <1>9, <3>2 DEF Range
    <3> QED BY <1>2, <3>1, <3>2
  <2> QED BY <2>1, <2>2, <2>3 DEF Range
<1> DEFINE f == [k \in Places(r) |-> IF k < i THEN k ELSE k - 1]
<1>11. \A k \in Places(r) : k \in Int /\ k # i /\ (IF k < i THEN k ELSE k - 1) \in Places(q)
  <2> TAKE k \in Places(r)
  <2>1. k \in DOMAIN r /\ r[k].type \in Flooded /\ k \in Int BY <1>6 DEF Places
  <2>2. k # i BY <1>8, <2>1
  <2> QED BY <1>2, <1>8, <2>1, <2>2 DEF Places
<1>12. f \in [Places(r) -> Places(q)] /\ \A j, k \in Places(r) : f[j] = f[k] => j = k BY <1>2, <1>11
<1> HIDE DEF f
<1>16. Queued(r) <= Queued(q) BY <1>12, QueuedNoMore
<1> QED BY <1>6, <1>10, <1>16

\* A finite set as a sequence.
LEMMA Listed ==
    ASSUME NEW S, IsFiniteSet(S)
    PROVE  SetToSeq(S) \in Seq(S) /\ Range(SetToSeq(S)) = S
<1> DEFINE n == Cardinality(S)  q == SetToSeq(S)
<1>1. n \in Nat /\ ExistsBijection(1..n, S) BY FS_CardinalityType
<1>2. \E f \in [1..n -> S] : IsInjective(f)
      BY <1>1 DEF ExistsBijection, Bijection, Injection
<1>3. q \in [1..n -> S] /\ IsInjective(q) BY <1>2 DEF SetToSeq
<1> HIDE DEF q
<1>4. q \in Injection(1..n, S) BY <1>3 DEF Injection
<1>5. IsFiniteSet(1..n) /\ Cardinality(1..n) = n BY <1>1, FS_Interval
<1>6. q \in Surjection(1..n, S) BY <1>4, <1>5, FS_Injection
<1>7. Range(q) = S BY <1>3, <1>6 DEF Surjection, Range
<1>8. q \in Seq(S) BY <1>1, <1>3
<1> QED BY <1>7, <1>8 DEF q

\* Queue r is q with m somewhere in it.
Gains(r, q, m) == Range(r) = Range(q) \cup {m}

\* Flood adds the frame behind the queue of every peer, but the excluded one,
\* that has room.
LEMMA Floods ==
    ASSUME NEW q \in [Pair -> Seq(Frame)], NEW n, NEW exclude, NEW m \in Frame,
           m.type \in Flooded, pool \subseteq Pair, NEW r, r = Flood(q, n, exclude, m)
    PROVE  /\ r \in [Pair -> Seq(Frame)]
           /\ \A p \in Pair :
                \/ r[p] = q[p]
                \/ p \in FloodTo(n, exclude) /\ Gains(r[p], q[p], m)
           /\ \A p \in Pair : Queued(q[p]) <= QueueCap => Queued(r[p]) <= QueueCap
           /\ \A p \in FloodTo(n, exclude) : m \in Range(r[p]) \/ p[2] \in Overflows(q, n, exclude)
<1>1. \A p \in Pair : q[p] \in Seq(Frame) /\ Queued(q[p]) \in Nat BY PlacesFinite
<1>2. QueueCap \in Nat BY LimitsAssumption
<1>3. \A p \in Pair :
        LET s == TrySend(q[p], m)
        IN  /\ s \in Seq(Frame)
            /\ Queued(q[p]) < QueueCap =>
                    Range(s) = Range(q[p]) \cup {m} /\ Queued(s) <= QueueCap
            /\ ~ Queued(q[p]) < QueueCap => s = q[p]
  <2> TAKE p \in Pair
  <2>1. CASE Queued(q[p]) < QueueCap
    <3>1. TrySend(q[p], m) = Append(q[p], m) BY <2>1 DEF TrySend
    <3>2. /\ Append(q[p], m) \in Seq(Frame) /\ Range(Append(q[p], m)) = Range(q[p]) \cup {m}
          /\ Queued(Append(q[p], m)) <= Queued(q[p]) + 1
          BY <1>1, Appends
    <3>3. Queued(Append(q[p], m)) \in Nat BY <3>2, PlacesFinite
    <3>4. Queued(q[p]) \in Nat BY <1>1
    <3> QED BY <1>2, <2>1, <3>1, <3>2, <3>3, <3>4
  <2>2. CASE ~ Queued(q[p]) < QueueCap BY <1>1, <2>2 DEF TrySend
  <2> QED BY <2>1, <2>2
<1>4. \A p \in Pair : r[p] = IF p \in FloodTo(n, exclude) THEN TrySend(q[p], m) ELSE q[p] BY DEF Flood
<1>5. r \in [Pair -> Seq(Frame)]
  <2>1. r = [p \in Pair |-> r[p]] BY DEF Flood
  <2>2. \A p \in Pair : r[p] \in Seq(Frame) BY <1>1, <1>3, <1>4
  <2> QED BY <2>1, <2>2
<1>6. \A p \in FloodTo(n, exclude) : p \in Pair BY DEF FloodTo
<1>7. \A p \in FloodTo(n, exclude) : ~ Queued(q[p]) < QueueCap => p[2] \in Overflows(q, n, exclude)
      BY <1>1, <1>2, <1>6 DEF Overflows
<1>8. \A p \in Pair : \/ r[p] = q[p]
                      \/ p \in FloodTo(n, exclude) /\ Gains(r[p], q[p], m)
      BY <1>3, <1>4 DEF Gains
<1>9. \A p \in Pair : Queued(q[p]) <= QueueCap => Queued(r[p]) <= QueueCap BY <1>3, <1>4
<1>10. \A p \in FloodTo(n, exclude) : m \in Range(r[p]) \/ p[2] \in Overflows(q, n, exclude)
      BY <1>3, <1>4, <1>6, <1>7
<1> QED BY <1>5, <1>8, <1>9, <1>10

LEMMA ProperFlood ==
    ASSUME NEW P, NEW q, Proper(q, P), NEW n, NEW exclude, NEW m \in Frame,
           m.type \in Flooded, ObjectsOf(m) \subseteq P, pool \subseteq Pair,
           NEW r, r = Flood(q, n, exclude, m)
    PROVE  Proper(r, P)
<1>1. /\ r \in [Pair -> Seq(Frame)]
      /\ \A p \in Pair : r[p] = q[p] \/ Gains(r[p], q[p], m)
      /\ \A p \in Pair : Queued(r[p]) <= QueueCap
  <2>1. q \in [Pair -> Seq(Frame)] /\ \A p \in Pair : Queued(q[p]) <= QueueCap BY DEF Proper
  <2>3. r \in [Pair -> Seq(Frame)] BY <2>1, Floods
  <2>4. \A p \in Pair : Queued(q[p]) <= QueueCap => Queued(r[p]) <= QueueCap BY <2>1, Floods
  <2>5. \A p \in Pair : r[p] = q[p] \/ Gains(r[p], q[p], m) BY <2>1, Floods
  <2> QED BY <2>1, <2>3, <2>4, <2>5
<1>2. ASSUME NEW p \in Pair PROVE Carried(r[p]) \subseteq P
  <2>1. Carried(q[p]) \subseteq P BY DEF Proper
  <2>2. CASE r[p] = q[p] BY <2>1, <2>2
  <2>3. CASE Gains(r[p], q[p], m) BY <2>1, <2>3, CarriesMore DEF Gains
  <2> QED BY <1>1, <2>2, <2>3
<1> QED BY <1>1, <1>2 DEF Proper

LEMMA ProperRest ==
    ASSUME NEW P, Proper(queue, P), NEW a, NEW b, <<a, b>> \in Pair, queue[<<a, b>>] # <<>>
    PROVE  LET m == Head(queue[<<a, b>>])
           IN  /\ Proper(Rest(a, b), P) /\ m \in Frame /\ m \in Range(queue[<<a, b>>])
               /\ ObjectsOf(m) \subseteq P
               /\ \A p \in Pair \ {<<a, b>>} : Rest(a, b)[p] = queue[p]
               /\ Range(queue[<<a, b>>]) = Range(Rest(a, b)[<<a, b>>]) \cup {m}
<1> DEFINE p == <<a, b>>  q == queue[p]  r == Rest(a, b)  m == Head(q)
<1>1. q \in Seq(Frame) /\ Queued(q) <= QueueCap /\ Carried(q) \subseteq P BY DEF Proper
<1>2. r \in [Pair -> Seq(Frame)] /\ r[p] = Tail(q) /\ \A x \in Pair \ {p} : r[x] = queue[x]
      BY <1>1, ReadsHead DEF Proper, Rest
<1>3. /\ m \in Frame /\ m \in Range(q) /\ Range(q) = Range(Tail(q)) \cup {m}
      /\ Queued(Tail(q)) <= Queued(q) /\ Tail(q) \in Seq(Frame)
      BY <1>1, ReadsHead
<1>4. Carried(q) = Carried(Tail(q)) \cup ObjectsOf(m) BY <1>3, CarriesMore
<1>5. Queued(Tail(q)) <= QueueCap
  <2>1. Queued(q) \in Nat /\ Queued(Tail(q)) \in Nat /\ QueueCap \in Nat BY <1>1, <1>3, PlacesFinite, LimitsAssumption
  <2> QED BY <1>1, <1>3, <2>1
<1>6. Proper(r, P)
  <2> SUFFICES ASSUME NEW x \in Pair PROVE Queued(r[x]) <= QueueCap /\ Carried(r[x]) \subseteq P
      BY <1>2 DEF Proper
  <2>1. CASE x = p BY <1>1, <1>2, <1>4, <1>5, <2>1
  <2>2. CASE x # p
    <3>1. r[x] = queue[x] BY <1>2, <2>2
    <3> QED BY <3>1 DEF Proper
  <2> QED BY <2>1, <2>2
<1> QED BY <1>1, <1>2, <1>3, <1>4, <1>6

LEMMA ProperSend ==
    ASSUME NEW P, NEW q, Proper(q, P), NEW a, NEW b, <<a, b>> \in Pair, NEW m \in Frame,
           m.type \notin Flooded, ObjectsOf(m) \subseteq P, NEW r \in Send(q, a, b, m)
    PROVE  /\ Proper(r, P)
           /\ \A p \in Pair \ {<<a, b>>} : r[p] = q[p]
           /\ Range(r[<<a, b>>]) = Range(q[<<a, b>>]) \cup {m}
<1> DEFINE p == <<a, b>>
<1>1. PICK s \in Overtaking(q[p], m) : r = [q EXCEPT ![p] = s] BY DEF Send
<1>2. /\ q \in [Pair -> Seq(Frame)] /\ q[p] \in Seq(Frame)
      /\ \A x \in Pair : Queued(q[x]) <= QueueCap /\ Carried(q[x]) \subseteq P
      BY DEF Proper
<1>3. s \in Seq(Frame) /\ Range(s) = Range(q[p]) \cup {m} /\ Queued(s) <= Queued(q[p])
      BY <1>2, Overtakes
<1>4. r \in [Pair -> Seq(Frame)] /\ r[p] = s /\ \A x \in Pair \ {p} : r[x] = q[x]
      BY <1>1, <1>2, <1>3
<1>5. Carried(s) \subseteq P
  <2>1. Carried(s) = Carried(q[p]) \cup ObjectsOf(m) BY <1>3, CarriesMore
  <2> QED BY <1>2, <2>1
<1>6. Queued(s) <= QueueCap
  <2>1. Queued(q[p]) \in Nat /\ Queued(s) \in Nat /\ QueueCap \in Nat BY <1>2, <1>3, PlacesFinite, LimitsAssumption
  <2> QED BY <1>2, <1>3, <2>1
<1>7. \A x \in Pair : Queued(r[x]) <= QueueCap /\ Carried(r[x]) \subseteq P
      BY <1>2, <1>4, <1>5, <1>6
<1> QED BY <1>3, <1>4, <1>7 DEF Proper

LEMMA FrameKinds ==
    ASSUME NEW m \in Frame
    PROVE  /\ m.type = "request" => m \in HistoryRequest
           /\ m.type = "response" => m \in HistoryResponse
           /\ m.type = "delete" => m \in DeleteRequest
           /\ m.type = "channel" => m.object \in Object /\ m = AsChannel(m.object)
           /\ m.type = "forum" => m.object \in Object /\ m = AsForum(m.object)
           /\ m.type \in {"request", "response", "delete", "channel", "forum"}
<1>1. CASE m \in HistoryRequest \cup HistoryResponse \cup DeleteRequest
      BY <1>1 DEF HistoryRequest, HistoryResponse, DeleteRequest
<1>2. CASE \E o \in Object : m = AsChannel(o) BY <1>2 DEF AsChannel
<1>3. CASE \E o \in Object : m = AsForum(o) BY <1>3 DEF AsForum
<1> QED BY <1>1, <1>2, <1>3 DEF Frame

\* A finite set of numbers has a largest one: a smallest set without one would
\* still be without one when an element of it is taken away.
LEMMA MaxOf ==
    ASSUME NEW S \in SUBSET Nat, IsFiniteSet(S), S # {}
    PROVE  Max(S) \in S /\ \A x \in S : Max(S) >= x
<1> DEFINE Topless(X) == X # {} /\ \A x \in X : \E y \in X : x < y
           T == {k \in Nat : \E X \in SUBSET Nat : IsFiniteSet(X) /\ Topless(X) /\ Cardinality(X) = k}
<1>1. T = {}
  <2> SUFFICES ASSUME T # {} PROVE FALSE
      OBVIOUS
  <2>1. PICK k \in T : \A j \in T : ~ j < k
    <3>1. \E k \in T : \A j \in T : <<j, k>> \notin OpToRel(<, Nat) BY NatLessThanWellFounded, WFMin
    <3> QED BY <3>1 DEF OpToRel
  <2>2. PICK X \in SUBSET Nat : IsFiniteSet(X) /\ Topless(X) /\ Cardinality(X) = k OBVIOUS
  <2>3. PICK x \in X : TRUE BY <2>2
  <2> DEFINE Y == X \ {x}
  <2>4. IsFiniteSet(Y) /\ Cardinality(Y) = k - 1 /\ Cardinality(Y) \in Nat
        BY <2>2, <2>3, FS_RemoveElement, FS_CardinalityType
  <2>5. k - 1 \notin T BY <2>1, <2>4
  <2>6. ~ Topless(Y) BY <2>4, <2>5
  <2>7. PICK y \in X : x < y BY <2>2, <2>3
  <2>8. Y # {} BY <2>7
  <2>9. PICK z \in Y : \A w \in Y : ~ z < w BY <2>6, <2>8
  <2>10. PICK v \in X : z < v BY <2>2, <2>9
  <2>11. v = x BY <2>9, <2>10
  <2> QED BY <2>7, <2>9, <2>10, <2>11
<1>2. PICK x \in S : \A y \in S : ~ x < y
  <2>1. ~ Topless(S) BY <1>1, FS_CardinalityType
  <2> QED BY <2>1
<1>3. \A y \in S : x >= y BY <1>2
<1> QED BY <1>3 DEF Max

LEMMA LatestTypes ==
    ASSUME NEW S \in SUBSET Object, IsFiniteSet(S), NEW t
    PROVE  Latest(S, t) \in {0} \cup {o.time : o \in Object}
<1> DEFINE X == {x \in S : x.topic = t}  f == [o \in X |-> o.time]  U == {o.time : o \in X}
<1>1. IsFiniteSet(X) BY FS_Subset
<1>2. f \in Surjection(X, U) BY DEF Surjection
<1>3. IsFiniteSet(U) BY <1>1, <1>2, FS_Surjection
<1>4. IsFiniteSet({0} \cup U) BY <1>3, FS_AddElement
<1>5. U \subseteq Nat /\ U \subseteq {o.time : o \in Object} BY ObjectAssumption
<1>6. {0} \cup U \in SUBSET Nat /\ {0} \cup U # {} BY <1>5
<1>7. Max({0} \cup U) \in {0} \cup U
  <2> HIDE DEF U
  <2> QED BY <1>4, <1>6, MaxOf
<1>8. Latest(S, t) = Max({0} \cup U) BY DEF Latest
<1> QED BY <1>5, <1>7, <1>8

----------------------------------------------------------------------------
(* Shape *)

LEMMA InitShape == Init => Shape
<1> SUFFICES ASSUME Init PROVE Shape
    OBVIOUS
<1>1. net \in Deployment /\ 0 \in 0..net.maxCuts /\ 0 \in 0..net.maxDeletes
      BY NetworkAssumption DEF Init, Deployment
<1>2. /\ subscribed \in [Node -> SUBSET Topic] /\ \A n \in Node : IsFiniteSet(subscribed[n])
      /\ known \in [Node -> SUBSET Node]
      BY <1>1, ConfigurationAssumption DEF Init, Deployment
<1>3. Proper(queue, published)
  <2>1. queue = [p \in Pair |-> <<>>] BY DEF Init, NoQueue
  <2>2. <<>> \in Seq(Frame) /\ 0 <= QueueCap BY LimitsAssumption
  <2> QED BY <2>1, <2>2, CarriesNothing DEF Proper
<1>4. IsFiniteSet(published) BY FS_EmptySet DEF Init
<1>5. asked = [p \in Pair |-> asked[p]]
  <2>1. \A p \in Pair : asked[p] = <<>> BY DEF Init
  <2> QED BY <2>1 DEF Init
<1> QED BY <1>1, <1>2, <1>3, <1>4, <1>5 DEF Shape, Init

LEMMA PairFacts ==
    ASSUME NEW p \in Pair
    PROVE  /\ p[1] \in Node /\ p[2] \in Node /\ p[1] # p[2] /\ p = <<p[1], p[2]>>
           /\ <<p[2], p[1]>> \in Pair /\ <<p[2], p[1]>> # p
<1>1. {p[1], p[2]} = {p[2], p[1]} OBVIOUS
<1> QED BY <1>1 DEF Pair

LEMMA ShapeObjects ==
    ASSUME Shape
    PROVE  /\ published \subseteq Object
           /\ \A n \in Node : store[n] \subseteq Object /\ IsFiniteSet(store[n])
<1>1. published \subseteq Object BY DEF Shape, ChannelMessage, ForumPost
<1>2. \A n \in Node : store[n] \in SUBSET published BY DEF Shape
<1>3. IsFiniteSet(published) BY DEF Shape
<1> QED BY <1>1, <1>2, <1>3, FS_Subset

\* What the requests of an opening session look like.
LEMMA EnterAsks ==
    ASSUME Shape, NEW a, NEW b, Enter(a, b)
    PROVE  LET q == queue'[<<a, b>>]
           IN  /\ <<a, b>> \in Pair \ pool /\ a \in Node /\ b \in Node
               /\ asked'[<<a, b>>] = [t \in subscribed[a] |-> Latest(store[a], t)]
               /\ q \in Seq(HistoryRequest)
               /\ Range(q) = {[type |-> "request", topic |-> t, since |-> asked'[<<a, b>>][t]] :
                                t \in subscribed[a]}
               /\ queue' = [queue EXCEPT ![<<a, b>>] = q]
               /\ asked' = [asked EXCEPT ![<<a, b>>] = asked'[<<a, b>>]]
<1> DEFINE p == <<a, b>>
           R == {[type |-> "request", topic |-> t, since |-> asked'[p][t]] : t \in subscribed[a]}
<1>1. p \in Pair \ pool /\ a \in Node /\ b \in Node BY PairFacts DEF Enter
<1>2. asked' = [asked EXCEPT ![p] = [t \in subscribed[a] |-> Latest(store[a], t)]]
      /\ queue' = [queue EXCEPT ![p] = SetToSeq(R)]
      BY DEF Enter
<1>3. asked'[p] = [t \in subscribed[a] |-> Latest(store[a], t)] /\ asked' = [asked EXCEPT ![p] = asked'[p]]
  <2>1. p \in DOMAIN asked BY <1>1 DEF Shape
  <2> QED BY <1>2, <2>1
<1>4. queue'[p] = SetToSeq(R) /\ queue' = [queue EXCEPT ![p] = queue'[p]]
  <2>1. p \in DOMAIN queue BY <1>1 DEF Shape, Proper
  <2> QED BY <1>2, <2>1
<1>5. IsFiniteSet(R)
  <2> DEFINE f == [t \in subscribed[a] |-> [type |-> "request", topic |-> t, since |-> asked'[p][t]]]
  <2>1. f \in Surjection(subscribed[a], R) BY DEF Surjection
  <2>2. IsFiniteSet(subscribed[a]) BY <1>1 DEF Shape
  <2> QED BY <2>1, <2>2, FS_Surjection
<1>6. R \subseteq HistoryRequest
  <2> SUFFICES ASSUME NEW t \in subscribed[a]
               PROVE  [type |-> "request", topic |-> t, since |-> asked'[p][t]] \in HistoryRequest
      OBVIOUS
  <2>1. t \in Topic BY <1>1 DEF Shape
  <2>2. store[a] \in SUBSET Object /\ IsFiniteSet(store[a]) BY <1>1, ShapeObjects
  <2>3. asked'[p][t] \in {0} \cup {o.time : o \in Object} BY <1>3, <2>2, LatestTypes
  <2> QED BY <2>1, <2>3 DEF HistoryRequest
<1> HIDE DEF R
<1>7. SetToSeq(R) \in Seq(R) /\ Range(SetToSeq(R)) = R BY <1>5, Listed
<1>8. SetToSeq(R) \in Seq(HistoryRequest) BY <1>6, <1>7
<1> QED BY <1>1, <1>3, <1>4, <1>7, <1>8 DEF R

\* Sessions end: nothing is left in their queues.
LEMMA Ends ==
    ASSUME Shape, NEW P \in SUBSET Pair, End(P), net' = net, published' = published
    PROVE  /\ pool' \subseteq pool /\ pool' \subseteq Pair' /\ Proper(queue, published)'
           /\ missed' \in [Node -> SUBSET published]
           /\ \A n \in Node : missed[n] \subseteq missed'[n]
           /\ (asked = [p \in Pair |-> asked[p]])'
           /\ \E ends \in SUBSET Pair :
                /\ \A p \in Pair : p \in ends <=> <<p[2], p[1]>> \in ends
                /\ pool' = pool \ ends
                /\ \A p \in ends : queue'[p] = <<>> /\ asked'[p] = <<>>
                /\ \A p \in Pair \ ends :
                        queue'[p] = queue[p] /\ asked'[p] = asked[p] /\ silent'[p] = silent[p]
<1> DEFINE ends == P \cup {<<p[2], p[1]>> : p \in P}
<1>1. Pair' = Pair BY DEF Pair
<1>2. ends \subseteq Pair /\ \A p \in Pair : p \in ends <=> <<p[2], p[1]>> \in ends BY PairFacts
<1>3. /\ pool' = pool \ ends
      /\ queue' = [p \in Pair |-> IF p \in ends THEN <<>> ELSE queue[p]]
      /\ asked' = [p \in Pair |-> IF p \in ends THEN <<>> ELSE asked[p]]
      /\ missed' = [n \in Node |-> missed[n] \cup UNION {Carried(queue[p]) : p \in {x \in ends : x[2] = n}}]
      /\ silent' = [p \in Pair |-> IF p \in ends THEN {} ELSE silent[p]]
      BY DEF End
<1> HIDE DEF ends
<1>4. Proper(queue', published)
  <2>1. <<>> \in Seq(Frame) /\ 0 <= QueueCap BY LimitsAssumption
  <2> QED BY <1>3, <2>1, CarriesNothing DEF Proper, Shape
<1>5. missed' \in [Node -> SUBSET published] /\ \A n \in Node : missed[n] \subseteq missed'[n]
  <2>1. \A p \in ends : Carried(queue[p]) \subseteq published BY <1>2 DEF Shape, Proper
  <2>2. \A n \in Node : missed[n] \subseteq published BY DEF Shape
  <2> QED BY <1>3, <2>1, <2>2
<1>6. (asked = [p \in Pair |-> asked[p]])' BY <1>1, <1>3
<1>7. pool \subseteq Pair BY DEF Shape
<1>8. \A p \in ends : queue'[p] = <<>> /\ asked'[p] = <<>> BY <1>2, <1>3
<1>9. \A p \in Pair \ ends : queue'[p] = queue[p] /\ asked'[p] = asked[p] /\ silent'[p] = silent[p] BY <1>3
<1>10. Proper(queue, published)' BY <1>1, <1>4 DEF Proper
<1> QED BY <1>1, <1>2, <1>3, <1>5, <1>6, <1>7, <1>8, <1>9, <1>10

\* An object enters the store and is passed on.
LEMMA Accepts ==
    ASSUME Shape, NEW P, published \subseteq P, NEW q, Proper(q, P), NEW n \in Node, NEW o \in P, NEW from,
           NEW m \in Frame, m.type \in Flooded, ObjectsOf(m) \subseteq P, Accept(n, o, from, m, q)
    PROVE  /\ Proper(queue', P)
           /\ store' \in [Node -> SUBSET P] /\ missed' \in [Node -> SUBSET P]
           /\ store' = [store EXCEPT ![n] = @ \cup {o}] /\ o \notin store[n]
           /\ \A x \in Node : missed[x] \subseteq missed'[x] /\ missed'[x] \subseteq missed[x] \cup {o}
<1>1. queue' = Flood(q, n, from, m) /\ pool \subseteq Pair BY DEF Accept, Shape
<1>2. Proper(queue', P) BY <1>1, ProperFlood
<1>3. store \in [Node -> SUBSET published] /\ missed \in [Node -> SUBSET published] BY DEF Shape
<1>4. store' = [store EXCEPT ![n] = @ \cup {o}] /\ o \notin store[n] BY DEF Accept, Insert
<1>5. missed' = [x \in Node |-> IF x \in Overflows(q, n, from) THEN missed[x] \cup {o} ELSE missed[x]]
      BY DEF Accept
<1>6. store' \in [Node -> SUBSET P] BY <1>3, <1>4
<1>7. missed' \in [Node -> SUBSET P] BY <1>3, <1>5
<1>8. \A x \in Node : missed[x] \subseteq missed'[x] /\ missed'[x] \subseteq missed[x] \cup {o} BY <1>5
<1> QED BY <1>2, <1>4, <1>6, <1>7, <1>8

\* What a read leaves.
LEMMA ReadFacts ==
    ASSUME Shape, NEW a, NEW b, <<a, b>> \in Pair, NEW t, Reads(a, b, t)
    PROVE  LET m == Head(queue[<<a, b>>])
           IN  /\ a \in Node /\ b \in Node /\ <<b, a>> \in Pair /\ <<b, a>> \in pool /\ <<b, a>> # <<a, b>>
               /\ m \in Frame /\ m.type = t /\ m \in Range(queue[<<a, b>>])
               /\ ObjectsOf(m) \subseteq published
               /\ Proper(Rest(a, b), published)
               /\ \A p \in Pair \ {<<a, b>>} : Rest(a, b)[p] = queue[p]
               /\ Range(queue[<<a, b>>]) = Range(Rest(a, b)[<<a, b>>]) \cup {m}
<1>1. Proper(queue, published) /\ queue[<<a, b>>] # <<>> BY DEF Shape, Reads
<1>2. /\ a \in Node /\ b \in Node /\ <<b, a>> \in Pair /\ <<b, a>> # <<a, b>> BY PairFacts
<1>3. <<b, a>> \in pool /\ Head(queue[<<a, b>>]).type = t BY DEF Reads
<1> QED BY <1>1, <1>2, <1>3, ProperRest

LEMMA EnterShape ==
    ASSUME Shape, NEW a, NEW b, Enter(a, b)
    PROVE  Shape'
<1> DEFINE p == <<a, b>>
<1>1. /\ p \in Pair /\ a \in Node /\ b \in Node
      /\ queue'[p] \in Seq(HistoryRequest) /\ queue' = [queue EXCEPT ![p] = queue'[p]]
      /\ asked' = [asked EXCEPT ![p] = asked'[p]]
      BY EnterAsks
<1>2. Pair' = Pair /\ Proper(queue, published) BY DEF Enter, Pair, Shape
<1>3. queue'[p] \in Seq(Frame) BY <1>1 DEF Frame
<1>4. \A m \in Range(queue'[p]) : m.type = "request"
  <2>1. \A i \in DOMAIN queue'[p] : queue'[p][i] \in HistoryRequest BY <1>1
  <2> QED BY <2>1 DEF Range, HistoryRequest
<1>5. Carried(queue'[p]) = {} BY <1>4 DEF Carried
<1>6. Queued(queue'[p]) = 0
  <2>1. {i \in DOMAIN queue'[p] : queue'[p][i].type \in Flooded} = {} BY <1>4 DEF Range, Flooded
  <2> QED BY <2>1, FS_EmptySet DEF Queued
<1>7. Proper(queue', published)
  <2>1. queue' \in [Pair -> Seq(Frame)] /\ \A x \in Pair : x # p => queue'[x] = queue[x]
        BY <1>1, <1>2, <1>3 DEF Proper
  <2>2. \A x \in Pair : Queued(queue'[x]) <= QueueCap /\ Carried(queue'[x]) \subseteq published
    <3>1. \A x \in Pair : Queued(queue[x]) <= QueueCap /\ Carried(queue[x]) \subseteq published
          BY <1>2 DEF Proper
    <3>2. 0 <= QueueCap BY LimitsAssumption
    <3> QED BY <1>5, <1>6, <2>1, <3>1, <3>2
  <2> QED BY <2>1, <2>2 DEF Proper
<1>8. Proper(queue, published)' BY <1>2, <1>7 DEF Enter, Proper
<1>9. (asked = [x \in Pair |-> asked[x]])' BY <1>1, <1>2 DEF Shape
<1>10. known' \in [Node -> SUBSET Node] /\ pool' \subseteq Pair' BY <1>1, <1>2 DEF Enter, Shape
<1> QED BY <1>8, <1>9, <1>10 DEF Enter, Shape

LEMMA EndShape ==
    ASSUME Shape, NEW P \in SUBSET Pair, End(P), cuts < net.maxCuts, cuts' = cuts + 1 \/ cuts' = cuts,
           UNCHANGED <<net, known, store, deletes, published>>,
           subscribed' \in [Node -> SUBSET Topic], \A n \in Node : IsFiniteSet(subscribed'[n])
    PROVE  Shape'
<1>1. /\ pool' \subseteq Pair' /\ Proper(queue, published)'
      /\ missed' \in [Node -> SUBSET published] /\ (asked = [p \in Pair |-> asked[p]])'
      BY Ends
<1>2. cuts' \in 0..net.maxCuts
  <2>1. net \in Deployment BY NetworkAssumption DEF Shape
  <2>2. net.maxCuts \in Nat /\ cuts \in Nat BY <2>1 DEF Deployment, Shape
  <2> QED BY <2>2 DEF Shape
<1> QED BY <1>1, <1>2 DEF Shape

LEMMA CloseShape ==
    ASSUME Shape, NEW a, NEW b, <<a, b>> \in Pair, Close(a, b)
    PROVE  Shape'
<1>1. {<<a, b>>} \in SUBSET Pair /\ End({<<a, b>>}) BY DEF Close
<1>2. subscribed' \in [Node -> SUBSET Topic] /\ \A n \in Node : IsFiniteSet(subscribed'[n])
      BY DEF Close, Shape
<1> QED BY <1>1, <1>2, EndShape DEF Close

LEMMA RestartShape ==
    ASSUME Shape, NEW n \in Node, Restart(n)
    PROVE  Shape'
<1> DEFINE P == {p \in Pair : p[1] = n}
<1>1. P \in SUBSET Pair /\ End(P) BY DEF Restart
<1>2. net \in Deployment /\ net \in Network BY NetworkAssumption DEF Shape
<1>3. /\ subscribed' \in [Node -> SUBSET Topic]
      /\ \A x \in Node : subscribed'[x] = subscribed[x] \/ subscribed'[x] = net.configured[x]
      BY <1>2 DEF Restart, Shape, Deployment
<1>4. \A x \in Node : IsFiniteSet(subscribed'[x]) BY <1>2, <1>3, ConfigurationAssumption DEF Shape
<1> HIDE DEF P
<1> QED BY <1>1, <1>3, <1>4, EndShape DEF Restart

LEMMA SubscribeShape ==
    ASSUME Shape, NEW n \in Node, NEW t \in Topic, Subscribe(n, t)
    PROVE  subscribed' \in [Node -> SUBSET Topic] /\ \A x \in Node : IsFiniteSet(subscribed'[x])
<1>1. subscribed \in [Node -> SUBSET Topic] /\ \A x \in Node : IsFiniteSet(subscribed[x]) BY DEF Shape
<1>2. /\ subscribed' \in [Node -> SUBSET Topic]
      /\ \A x \in Node : subscribed'[x] = subscribed[x] \/ subscribed'[x] = subscribed[x] \cup {t}
      BY <1>1 DEF Subscribe
<1> QED BY <1>1, <1>2, FS_AddElement

\* What is created is a valid object of a valid frame.
LEMMA PublishFacts ==
    ASSUME Shape, NEW o \in net.object, NEW m,
           \/ o.topic \notin Board /\ m = AsChannel(o)
           \/ o.topic \in Board /\ m = AsForum(o)
    PROVE  /\ o \in Object /\ o.sender \in Node /\ o.topic \in Topic
           /\ m \in Frame /\ m.type \in Flooded /\ ObjectsOf(m) = {o}
           /\ o.topic \in ValidTopic => o \in ChannelMessage \cup ForumPost
<1>1. net \in Deployment BY NetworkAssumption DEF Shape
<1>2. o \in Object BY <1>1 DEF Deployment
<1>3. m \in Frame /\ m.type \in Flooded /\ ObjectsOf(m) = {o}
      BY <1>2 DEF Frame, AsChannel, AsForum, Flooded, ObjectsOf
<1> QED BY <1>2, <1>3, ObjectAssumption DEF ChannelMessage, ForumPost

LEMMA PublishShape ==
    ASSUME Shape, NEW o \in net.object, PublishChannel(o.sender, o) \/ PublishForum(o.sender, o)
    PROVE  Shape'
<1> DEFINE n == o.sender
<1>1. PICK m : /\ \/ o.topic \notin Board /\ m = AsChannel(o)
                  \/ o.topic \in Board /\ m = AsForum(o)
               /\ Publish(n, o, m)
      BY DEF PublishChannel, PublishForum
<1>2. /\ o \in Object /\ n \in Node /\ o.topic \in Topic
      /\ m \in Frame /\ m.type \in Flooded /\ ObjectsOf(m) = {o}
      /\ o.topic \in ValidTopic => o \in ChannelMessage \cup ForumPost
      BY <1>1, PublishFacts
<1>3. subscribed' \in [Node -> SUBSET Topic] /\ \A x \in Node : IsFiniteSet(subscribed'[x])
      BY <1>1, <1>2, SubscribeShape DEF Publish
<1>4. UNCHANGED <<net, known, pool, cuts, deletes, asked>> /\ Pair' = Pair BY <1>1 DEF Publish, Pair
<1>5. CASE o.topic \notin ValidTopic
  <2>1. UNCHANGED <<published, store, queue, missed>> BY <1>1, <1>5 DEF Publish
  <2>2. Proper(queue, published)' BY <1>4, <2>1 DEF Shape, Proper
  <2> QED BY <1>3, <1>4, <2>1, <2>2 DEF Shape
<1>6. CASE o.topic \in ValidTopic
  <2>1. published' = published \cup {o} /\ Accept(n, o, n, m, queue) BY <1>1, <1>6 DEF Publish
  <2>2. Proper(queue, published') BY <2>1 DEF Shape, Proper
  <2>3. /\ Proper(queue', published')
        /\ store' \in [Node -> SUBSET published'] /\ missed' \in [Node -> SUBSET published']
        BY <1>2, <2>1, <2>2, Accepts
  <2>4. Proper(queue, published)' BY <1>4, <2>3 DEF Proper
  <2>5. IsFiniteSet(published') /\ published' \subseteq ChannelMessage \cup ForumPost
        BY <1>2, <1>6, <2>1, FS_AddElement DEF Shape
  <2> QED BY <1>3, <1>4, <2>3, <2>4, <2>5 DEF Shape
<1> QED BY <1>5, <1>6

LEMMA ObjectShape ==
    ASSUME Shape, NEW a, NEW b, <<a, b>> \in Pair, NEW t \in {"channel", "forum"}, Reads(a, b, t), NEW verified,
           HandleObject(a, b, Head(queue[<<a, b>>]), verified),
           UNCHANGED <<net, subscribed, known, pool, cuts, deletes, published, asked, silent>>
    PROVE  Shape'
<1> DEFINE m == Head(queue[<<a, b>>])  o == m.object
           admitted == verified /\ o.topic \in subscribed[b]
<1>1. /\ a \in Node /\ b \in Node /\ m \in Frame /\ m.type = t
      /\ ObjectsOf(m) \subseteq published /\ Proper(Rest(a, b), published)
      BY ReadFacts
<1>2. ObjectsOf(m) = {o} /\ m.type \in Flooded /\ o \in published BY <1>1 DEF ObjectsOf, Flooded
<1>3. Pair' = Pair BY DEF Pair
<1>4. CASE admitted /\ o \notin store[b]
  <2>1. Accept(b, o, a, m, Rest(a, b)) BY <1>4 DEF HandleObject
  <2>2. /\ Proper(queue', published)
        /\ store' \in [Node -> SUBSET published] /\ missed' \in [Node -> SUBSET published]
        BY <1>1, <1>2, <2>1, Accepts
  <2>3. Proper(queue, published)' BY <1>3, <2>2 DEF Proper
  <2> QED BY <1>3, <2>2, <2>3 DEF Shape
<1>5. CASE ~ (admitted /\ o \notin store[b])
  <2>1. /\ queue' = Rest(a, b) /\ UNCHANGED <<store, events>>
        /\ missed' = [missed EXCEPT ![b] = IF admitted THEN @ ELSE @ \cup {o}]
        BY <1>5 DEF HandleObject
  <2>2. missed' \in [Node -> SUBSET published] BY <1>1, <1>2, <2>1 DEF Shape
  <2>3. Proper(queue, published)' BY <1>1, <1>3, <2>1 DEF Proper
  <2> QED BY <1>3, <2>1, <2>2, <2>3 DEF Shape
<1> QED BY <1>4, <1>5

\* The answers to a request are objects in store.
LEMMA HistoryFacts ==
    ASSUME Shape, NEW n \in Node, NEW request, NEW O \in History(n, request)
    PROVE  /\ O \subseteq store[n] /\ O \subseteq Wanted(n, request)
           /\ \A o \in Wanted(n, request) : o \in O \cup CutOff(n, request, O)
<1> DEFINE found == {o \in store[n] : o.topic = request.topic /\ o.time > request.since}
<1>1. \/ Cardinality(found) <= Limit(request.topic) /\ O = found
      \/ ~ Cardinality(found) <= Limit(request.topic) /\ O \in SUBSET found
      BY DEF History, Newer, Earliest
<1>2. Limit(request.topic) \in Nat BY LimitsAssumption DEF Limit
<1>3. Cardinality(found) \in Nat
  <2>1. IsFiniteSet(store[n]) BY ShapeObjects
  <2>2. IsFiniteSet(found) BY <2>1, FS_Subset
  <2> QED BY <2>2, FS_CardinalityType
<1>4. Wanted(n, request) = found BY DEF Wanted
<1> HIDE DEF found
<1>5. found \subseteq store[n] BY DEF found
<1> QED BY <1>1, <1>2, <1>3, <1>4, <1>5 DEF CutOff

LEMMA RequestShape ==
    ASSUME Shape, NEW a, NEW b, <<a, b>> \in Pair, HandleHistoryRequest(a, b)
    PROVE  Shape'
<1> DEFINE m == Head(queue[<<a, b>>])
<1>1. /\ a \in Node /\ b \in Node /\ <<b, a>> \in Pair /\ m \in Frame /\ m.type = "request"
      /\ Proper(Rest(a, b), published)
      BY ReadFacts DEF HandleHistoryRequest
<1>2. UNCHANGED <<net, subscribed, known, store, cuts, deletes, published, events>> /\ Pair' = Pair
      BY DEF HandleHistoryRequest, Pair
<1>3. CASE m.topic \notin ValidTopic
  <2>1. End({<<a, b>>}) BY <1>3 DEF HandleHistoryRequest
  <2>2. /\ pool' \subseteq Pair' /\ Proper(queue, published)'
        /\ missed' \in [Node -> SUBSET published] /\ (asked = [p \in Pair |-> asked[p]])'
        BY <1>2, <2>1, Ends
  <2> QED BY <1>2, <2>2 DEF Shape
<1>4. CASE m.topic \in ValidTopic
  <2>1. UNCHANGED <<pool, asked, missed>> BY <1>4 DEF HandleHistoryRequest
  <2>2. CASE m.topic \in subscribed[b]
    <3>1. PICK O \in History(b, m) :
                queue' \in Send(Rest(a, b), b, a, [type |-> "response", objects |-> O])
          BY <1>4, <2>2 DEF HandleHistoryRequest
    <3> DEFINE r == [type |-> "response", objects |-> O]
    <3>2. O \subseteq store[b] /\ store[b] \subseteq published /\ store[b] \subseteq Object
          BY <1>1, <3>1, HistoryFacts, ShapeObjects DEF Shape
    <3>3. r \in Frame /\ r.type \notin Flooded /\ ObjectsOf(r) \subseteq published
          BY <3>2 DEF Frame, HistoryResponse, Flooded, ObjectsOf
    <3>4. Proper(queue', published) BY <1>1, <3>1, <3>3, ProperSend
    <3>5. Proper(queue, published)' BY <1>2, <3>4 DEF Proper
    <3> QED BY <1>2, <2>1, <3>5 DEF Shape
  <2>3. CASE m.topic \notin subscribed[b]
    <3>1. queue' = Rest(a, b) BY <1>4, <2>3 DEF HandleHistoryRequest
    <3>2. Proper(queue, published)' BY <1>1, <1>2, <3>1 DEF Proper
    <3> QED BY <1>2, <2>1, <3>2 DEF Shape
  <2> QED BY <2>2, <2>3
<1> QED BY <1>3, <1>4

LEMMA ResponseShape ==
    ASSUME Shape, NEW a, NEW b, <<a, b>> \in Pair, HandleHistoryResponse(a, b)
    PROVE  Shape'
<1> DEFINE m == Head(queue[<<a, b>>])
<1>1. /\ a \in Node /\ b \in Node /\ m \in Frame /\ m.type = "response"
      /\ ObjectsOf(m) \subseteq published /\ Proper(Rest(a, b), published)
      BY ReadFacts DEF HandleHistoryResponse
<1>2. m.objects \subseteq published BY <1>1 DEF ObjectsOf
<1>3. UNCHANGED <<net, subscribed, known, pool, cuts, deletes, published, asked>> /\ Pair' = Pair
      BY DEF HandleHistoryResponse, Pair
<1>4. PICK admitted \in SUBSET m.objects :
            /\ store' = [store EXCEPT ![b] = @ \cup admitted]
            /\ missed' = [missed EXCEPT ![b] = @ \cup (m.objects \ admitted)]
      BY DEF HandleHistoryResponse
<1>5. store' \in [Node -> SUBSET published] /\ missed' \in [Node -> SUBSET published]
      BY <1>1, <1>2, <1>4 DEF Shape
<1>6. Proper(queue, published)' BY <1>1, <1>3 DEF HandleHistoryResponse, Proper
<1> QED BY <1>3, <1>5, <1>6 DEF Shape

\* A frame over the limit takes with it what it carries.
LEMMA CarriedOne == ASSUME NEW m PROVE Carried(<<m>>) = ObjectsOf(m)
<1>1. Range(<<m>>) = {m} BY DEF Range
<1> QED BY <1>1, Carries

LEMMA OverLimitShape ==
    ASSUME Shape, NEW a, NEW b, <<a, b>> \in Pair, OverLimit(a, b)
    PROVE  Shape'
<1> DEFINE m == Head(queue[<<a, b>>])
<1>1. /\ b \in Node /\ ObjectsOf(m) \subseteq published /\ Proper(Rest(a, b), published)
      BY ReadFacts DEF OverLimit
<1>2. UNCHANGED <<net, subscribed, known, store, pool, cuts, deletes, published, asked>> /\ Pair' = Pair
      BY DEF OverLimit, Pair
<1>3. missed' = [missed EXCEPT ![b] = @ \cup ObjectsOf(m)] BY CarriedOne DEF OverLimit
<1>4. missed' \in [Node -> SUBSET published] BY <1>1, <1>3 DEF Shape
<1>5. Proper(queue, published)' BY <1>1, <1>2 DEF OverLimit, Proper
<1> QED BY <1>2, <1>4, <1>5 DEF Shape

LEMMA DeleteShape ==
    ASSUME Shape, NEW a, NEW b, <<a, b>> \in Pair, HandleDelete(a, b)
    PROVE  Shape'
<1> DEFINE d == Head(queue[<<a, b>>])
<1>1. /\ a \in Node /\ b \in Node /\ d \in Frame /\ d.type = "delete" /\ Proper(Rest(a, b), published)
      BY ReadFacts DEF HandleDelete
<1>2. d.type \in Flooded /\ ObjectsOf(d) \subseteq published BY <1>1 DEF Flooded, ObjectsOf
<1>3. /\ UNCHANGED <<net, subscribed, known, pool, cuts, deletes, published, asked>> /\ Pair' = Pair
      /\ pool \subseteq Pair
      BY DEF HandleDelete, Pair, Shape
<1>4. CASE DeleteObject(b, d.target) /\ d.target \in store[b]
           /\ missed' = [missed EXCEPT ![b] = @ \cup {d.target}] /\ queue' = Flood(Rest(a, b), b, a, d)
  <2>1. d.target \in published BY <1>1, <1>4 DEF Shape
  <2>2. store' \in [Node -> SUBSET published] /\ missed' \in [Node -> SUBSET published]
        BY <1>1, <1>4, <2>1 DEF DeleteObject, Shape
  <2>3. Proper(queue', published) BY <1>1, <1>2, <1>3, <1>4, ProperFlood
  <2>4. Proper(queue, published)' BY <1>3, <2>3 DEF Proper
  <2> QED BY <1>3, <2>2, <2>4 DEF Shape
<1>5. CASE queue' = Rest(a, b) /\ UNCHANGED <<store, missed>>
  <2>1. Proper(queue, published)' BY <1>1, <1>3, <1>5 DEF Proper
  <2> QED BY <1>3, <1>5, <2>1 DEF Shape
<1> QED BY <1>4, <1>5 DEF HandleDelete

LEMMA SendDeleteShape ==
    ASSUME Shape, NEW a, NEW b, NEW o \in Object, Delete(a, b, o)
    PROVE  Shape'
<1> DEFINE p == <<a, b>>  d == [type |-> "delete", sender |-> a, target |-> o]
<1>1. p \in Pair /\ a \in Node /\ Pair' = Pair BY PairFacts DEF Delete, Shape, Pair
<1>2. d \in Frame /\ ObjectsOf(d) = {} BY <1>1 DEF Frame, DeleteRequest, ObjectsOf
<1>3. queue' = [queue EXCEPT ![p] = TrySend(queue[p], d)] BY DEF Delete
<1> HIDE DEF d
<1>4. queue[p] \in Seq(Frame) /\ Queued(queue[p]) <= QueueCap /\ Carried(queue[p]) \subseteq published
      BY <1>1 DEF Shape, Proper
<1>5. /\ TrySend(queue[p], d) \in Seq(Frame) /\ Queued(TrySend(queue[p], d)) <= QueueCap
      /\ Carried(TrySend(queue[p], d)) \subseteq published
  <2>1. CASE Queued(queue[p]) < QueueCap
    <3> DEFINE r == Append(queue[p], d)
    <3>1. r \in Seq(Frame) /\ Range(r) = Range(queue[p]) \cup {d} /\ Queued(r) <= Queued(queue[p]) + 1
          BY <1>2, <1>4, Appends
    <3>2. Queued(r) \in Nat /\ Queued(queue[p]) \in Nat /\ QueueCap \in Nat
          BY <1>4, <3>1, PlacesFinite, LimitsAssumption
    <3>3. Carried(r) = Carried(queue[p]) \cup ObjectsOf(d) BY <3>1, CarriesMore
    <3>4. TrySend(queue[p], d) = r BY <2>1 DEF TrySend
    <3> HIDE DEF r
    <3> QED BY <1>2, <1>4, <2>1, <3>1, <3>2, <3>3, <3>4
  <2>2. CASE ~ Queued(queue[p]) < QueueCap BY <1>4, <2>2 DEF TrySend
  <2> QED BY <2>1, <2>2
<1>6. Proper(queue', published)
  <2>1. /\ queue' \in [Pair -> Seq(Frame)] /\ queue'[p] = TrySend(queue[p], d)
        /\ \A x \in Pair \ {p} : queue'[x] = queue[x]
        BY <1>1, <1>3, <1>5 DEF Shape, Proper
  <2>2. \A x \in Pair : Queued(queue[x]) <= QueueCap /\ Carried(queue[x]) \subseteq published
        BY DEF Shape, Proper
  <2> QED BY <1>5, <2>1, <2>2 DEF Proper
<1>7. Proper(queue, published)' BY <1>1, <1>6 DEF Delete, Proper
<1>8. deletes' \in 0..net.maxDeletes
  <2>1. net \in Deployment BY NetworkAssumption DEF Shape
  <2>2. net.maxDeletes \in Nat /\ deletes \in Nat BY <2>1 DEF Deployment, Shape
  <2> QED BY <2>2 DEF Delete, Shape
<1> QED BY <1>1, <1>7, <1>8 DEF Delete, Shape

LEMMA StepShape == Shape /\ [Next]_vars => Shape'
<1> SUFFICES ASSUME Shape, [Next]_vars PROVE Shape'
    OBVIOUS
<1>1. ASSUME NEW p \in Pair, Enter(p[1], p[2]) PROVE Shape' BY <1>1, EnterShape
<1>2. ASSUME NEW p \in Pair, Close(p[1], p[2]) PROVE Shape' BY <1>2, PairFacts, CloseShape
<1>3. ASSUME NEW p \in Pair, Receive(p[1], p[2]) PROVE Shape'
  <2> DEFINE a == p[1]  b == p[2]
  <2>1. <<a, b>> \in Pair BY PairFacts
  <2> HIDE DEF a, b
  <2>2. CASE HandleChannel(a, b) BY <2>1, <2>2, ObjectShape DEF HandleChannel
  <2>3. CASE HandleForum(a, b) BY <2>1, <2>3, ObjectShape DEF HandleForum
  <2>4. CASE HandleHistoryRequest(a, b) BY <2>1, <2>4, RequestShape
  <2>5. CASE HandleHistoryResponse(a, b) BY <2>1, <2>5, ResponseShape
  <2>6. CASE HandleDelete(a, b) BY <2>1, <2>6, DeleteShape
  <2>7. CASE OverLimit(a, b) BY <2>1, <2>7, OverLimitShape
  <2> QED BY <1>3, <2>2, <2>3, <2>4, <2>5, <2>6, <2>7 DEF Receive, a, b
<1>4. ASSUME NEW n \in Node, Restart(n) PROVE Shape' BY <1>4, RestartShape
<1>5. ASSUME NEW o \in net.object, PublishChannel(o.sender, o) \/ PublishForum(o.sender, o) PROVE Shape'
      BY <1>5, PublishShape
<1>6. ASSUME NEW n \in Node, NEW t \in Topic, Join(n, t) PROVE Shape'
  <2>1. subscribed' \in [Node -> SUBSET Topic] /\ \A x \in Node : IsFiniteSet(subscribed'[x])
        BY <1>6, SubscribeShape DEF Join
  <2>2. Pair' = Pair /\ Proper(queue, published)' BY <1>6 DEF Join, Pair, Shape, Proper
  <2> QED BY <1>6, <2>1, <2>2 DEF Join, Shape
<1>7. ASSUME NEW p \in Pair, NEW o \in Object, Delete(p[1], p[2], o) PROVE Shape' BY <1>7, SendDeleteShape
<1>8. CASE UNCHANGED vars
  <2>1. Pair' = Pair /\ Proper(queue, published)' BY <1>8 DEF vars, base, Pair, Shape, Proper
  <2> QED BY <1>8, <2>1 DEF vars, base, Shape
<1> QED BY <1>1, <1>2, <1>3, <1>4, <1>5, <1>6, <1>7, <1>8 DEF Next

\* pool.rs, store.rs: a writer queue never holds more than its capacity, whatever
\* the nodes do, and what is stored, carried or lost was created by its author.
THEOREM SocialTypes == Spec => []TypeOK
<1>1. Shape => TypeOK
  <2> SUFFICES ASSUME Shape PROVE TypeOK
      OBVIOUS
  <2>1. ASSUME NEW p \in Pair, NEW i \in DOMAIN queue[p]
        PROVE  \/ queue[p][i] \in HistoryRequest \cup HistoryResponse \cup DeleteRequest
               \/ \E o \in published : queue[p][i] \in {AsChannel(o), AsForum(o)}
    <3> DEFINE m == queue[p][i]
    <3>1. queue[p] \in Seq(Frame) /\ Carried(queue[p]) \subseteq published BY DEF Shape, Proper
    <3>2. m \in Frame /\ m \in Range(queue[p]) BY <3>1 DEF Range
    <3>3. m.type \in {"channel", "forum"} => m.object \in published BY <3>1, <3>2 DEF Carried
    <3> HIDE DEF m
    <3>4. \/ m \in HistoryRequest \cup HistoryResponse \cup DeleteRequest
          \/ m.object \in published /\ m \in {AsChannel(m.object), AsForum(m.object)}
          BY <3>2, <3>3, FrameKinds
    <3> QED BY <3>4 DEF m
  <2> QED BY <2>1 DEF Shape, Proper, TypeOK
<1> QED BY <1>1, InitShape, StepShape, PTL DEF Spec

----------------------------------------------------------------------------
(* Shown once *)

ShownOnce ==
    /\ events \in [Node -> [Object -> Nat]]
    /\ \A n \in Node, o \in Object : events[n][o] <= 1 /\ (o \notin store[n] => events[n][o] = 0)

LEMMA InitShown == Init => ShownOnce
BY DEF Init, ShownOnce

\* Only what was not in store is shown, and it is stored.
LEMMA EmitsOnce ==
    ASSUME ShownOnce, NEW n \in Node, NEW O \in SUBSET Object, O \cap store[n] = {}, Emit(n, O),
           O \subseteq store'[n], \A x \in Node : store[x] \subseteq store'[x]
    PROVE  ShownOnce'
<1>1. events' = [events EXCEPT ![n] = [o \in Object |-> IF o \in O THEN events[n][o] + 1 ELSE events[n][o]]]
      BY DEF Emit
<1>2. /\ events \in [Node -> [Object -> Nat]]
      /\ \A x \in Node, o \in Object : events[x][o] <= 1 /\ (o \notin store[x] => events[x][o] = 0)
      BY DEF ShownOnce
<1>3. \A x \in Node, o \in Object :
            events'[x][o] = IF x = n /\ o \in O THEN events[x][o] + 1 ELSE events[x][o]
      BY <1>1, <1>2
<1>4. events' \in [Node -> [Object -> Nat]] BY <1>1, <1>2
<1>5. ASSUME NEW x \in Node, NEW o \in Object
      PROVE  events'[x][o] <= 1 /\ (o \notin store'[x] => events'[x][o] = 0)
  <2>1. CASE x = n /\ o \in O
    <3>1. events[x][o] = 0 BY <1>2, <2>1
    <3>2. events'[x][o] = 1 BY <1>3, <2>1, <3>1
    <3> QED BY <2>1, <3>2
  <2>2. CASE ~ (x = n /\ o \in O)
    <3>1. events'[x][o] = events[x][o] BY <1>3, <2>2
    <3> QED BY <1>2, <3>1
  <2> QED BY <2>1, <2>2
<1> QED BY <1>4, <1>5 DEF ShownOnce

LEMMA AcceptShows ==
    ASSUME Shape, ShownOnce, NEW n \in Node, NEW o \in Object, NEW from, NEW m, NEW q, Accept(n, o, from, m, q)
    PROVE  ShownOnce'
<1>1. Emit(n, {o}) /\ o \notin store[n] /\ store' = [store EXCEPT ![n] = @ \cup {o}] BY DEF Accept, Insert
<1>2. {o} \subseteq store'[n] /\ \A x \in Node : store[x] \subseteq store'[x] BY <1>1 DEF Shape
<1>3. {o} \in SUBSET Object /\ {o} \cap store[n] = {} BY <1>1
<1> QED BY <1>1, <1>2, <1>3, EmitsOnce

LEMMA StepShown == Shape /\ ShownOnce /\ [Next]_vars => ShownOnce'
<1> SUFFICES ASSUME Shape, ShownOnce, [Next]_vars PROVE ShownOnce'
    OBVIOUS
<1>0. UNCHANGED <<store, events>> => ShownOnce' BY DEF ShownOnce
<1>1. CASE \E p \in Pair :
           \/ Enter(p[1], p[2]) \/ Close(p[1], p[2])
           \/ HandleHistoryRequest(p[1], p[2]) \/ OverLimit(p[1], p[2])
      BY <1>0, <1>1 DEF Enter, Close, HandleHistoryRequest, OverLimit
<1>2. CASE \/ \E n \in Node : Restart(n)
           \/ \E n \in Node, t \in Topic \ Board : Join(n, t)
           \/ \E p \in Pair, o \in Object : Delete(p[1], p[2], o)
           \/ UNCHANGED vars
      BY <1>0, <1>2 DEF Restart, Join, Delete, vars, base
<1>3. ASSUME NEW o \in net.object, PublishChannel(o.sender, o) \/ PublishForum(o.sender, o) PROVE ShownOnce'
  <2>1. PICK m : /\ \/ o.topic \notin Board /\ m = AsChannel(o)
                    \/ o.topic \in Board /\ m = AsForum(o)
                 /\ Publish(o.sender, o, m)
        BY <1>3 DEF PublishChannel, PublishForum
  <2>2. o \in Object /\ o.sender \in Node BY <2>1, PublishFacts
  <2>3. CASE o.topic \in ValidTopic BY <2>1, <2>2, <2>3, AcceptShows DEF Publish
  <2>4. CASE o.topic \notin ValidTopic BY <1>0, <2>1, <2>4 DEF Publish
  <2> QED BY <2>3, <2>4
<1>4. ASSUME NEW a, NEW b, <<a, b>> \in Pair, HandleChannel(a, b) \/ HandleForum(a, b) PROVE ShownOnce'
  <2> DEFINE m == Head(queue[<<a, b>>])
  <2>1. PICK verified : /\ HandleObject(a, b, m, verified)
                        /\ Reads(a, b, "channel") \/ Reads(a, b, "forum")
        BY <1>4 DEF HandleChannel, HandleForum
  <2>2. b \in Node /\ ObjectsOf(m) \subseteq published /\ m.type \in {"channel", "forum"}
        BY <1>4, <2>1, ReadFacts
  <2>3. m.object \in Object BY <2>2, ShapeObjects DEF ObjectsOf
  <2>4. CASE Accept(b, m.object, a, m, Rest(a, b)) BY <2>2, <2>3, <2>4, AcceptShows
  <2>5. CASE UNCHANGED <<store, events>> BY <1>0, <2>5
  <2> QED BY <2>1, <2>4, <2>5 DEF HandleObject
<1>5. ASSUME NEW a, NEW b, <<a, b>> \in Pair, HandleHistoryResponse(a, b) PROVE ShownOnce'
  <2> DEFINE m == Head(queue[<<a, b>>])
  <2>1. b \in Node /\ ObjectsOf(m) \subseteq published /\ m.type = "response"
        BY <1>5, ReadFacts DEF HandleHistoryResponse
  <2>2. PICK admitted \in SUBSET m.objects :
            store' = [store EXCEPT ![b] = @ \cup admitted] /\ Emit(b, Fresh(b, admitted))
        BY <1>5 DEF HandleHistoryResponse
  <2>3. admitted \subseteq Object BY <2>1, <2>2, ShapeObjects DEF ObjectsOf
  <2>4. Fresh(b, admitted) \in SUBSET Object /\ Fresh(b, admitted) \cap store[b] = {} BY <2>3 DEF Fresh
  <2>5. Fresh(b, admitted) \subseteq store'[b] /\ \A x \in Node : store[x] \subseteq store'[x]
        BY <2>1, <2>2 DEF Fresh, Shape
  <2> QED BY <2>1, <2>2, <2>4, <2>5, EmitsOnce
<1>6. ASSUME NEW a, NEW b, <<a, b>> \in Pair, HandleDelete(a, b) PROVE ShownOnce'
  <2> DEFINE o == Head(queue[<<a, b>>]).target
  <2>1. b \in Node /\ Head(queue[<<a, b>>]) \in Frame /\ Head(queue[<<a, b>>]).type = "delete"
        BY <1>6, ReadFacts DEF HandleDelete
  <2>2. o \in Object BY <2>1, FrameKinds DEF DeleteRequest
  <2>3. CASE UNCHANGED <<store, events>> BY <1>0, <2>3
  <2>4. CASE store' = [store EXCEPT ![b] = @ \ {o}] /\ events' = [events EXCEPT ![b][o] = 0]
    <3>1. /\ events' \in [Node -> [Object -> Nat]]
          /\ \A x \in Node, y \in Object : events'[x][y] = IF x = b /\ y = o THEN 0 ELSE events[x][y]
          BY <2>1, <2>2, <2>4 DEF ShownOnce
    <3>2. \A x \in Node, y \in Object : y \in store[x] => y \in store'[x] \/ (x = b /\ y = o)
          BY <2>1, <2>4 DEF Shape
    <3>3. ASSUME NEW x \in Node, NEW y \in Object
          PROVE  events'[x][y] <= 1 /\ (y \notin store'[x] => events'[x][y] = 0)
      <4>1. events[x][y] <= 1 /\ (y \notin store[x] => events[x][y] = 0) BY DEF ShownOnce
      <4>2. CASE x = b /\ y = o BY <3>1, <4>2
      <4>3. CASE ~ (x = b /\ y = o)
        <5>1. events'[x][y] = events[x][y] BY <3>1, <4>3
        <5> QED BY <3>2, <4>1, <4>3, <5>1
      <4> QED BY <4>2, <4>3
    <3> QED BY <3>1, <3>3 DEF ShownOnce
  <2> QED BY <1>6, <2>3, <2>4 DEF HandleDelete, DeleteObject
<1>7. ASSUME NEW p \in Pair PROVE <<p[1], p[2]>> \in Pair BY PairFacts
<1> QED BY <1>1, <1>2, <1>3, <1>4, <1>5, <1>6, <1>7 DEF Next, Receive

\* social.rs, the inserted flag: by flood, by history, by both at once, from any
\* number of peers, a node shows an object to its user once.
THEOREM ShownOnceOnly == Spec => []NoRepeat
<1>1. ShownOnce => NoRepeat BY DEF ShownOnce, NoRepeat
<1> QED BY <1>1, InitShape, StepShape, InitShown, StepShown, PTL DEF Spec

----------------------------------------------------------------------------
(* The handover from history to flood *)

LEMMA InitHandover == Init => HandoverInv
<1> SUFFICES ASSUME Init PROVE HandoverInv
    OBVIOUS
<1>1. Shape BY InitShape
<1>2. /\ pool = {} /\ \A p \in Pair : queue[p] = <<>> /\ asked[p] = <<>> /\ silent[p] = {}
      /\ silent = [p \in Pair |-> {}]
      BY DEF Init, NoQueue
<1>3. CarriedHeld BY <1>2, CarriesNothing DEF CarriedHeld
<1>4. silent = [p \in Pair |-> silent[p]] BY <1>2
<1> QED BY <1>1, <1>2, <1>3, <1>4 DEF HandoverInv, Idle, Unread, HandoverGapFree

LEMMA CarriesSubset ==
    ASSUME NEW q, NEW r, Range(q) \subseteq Range(r) PROVE Carried(q) \subseteq Carried(r)
<1>1. /\ Carried(q) = UNION {ObjectsOf(x) : x \in Range(q)}
      /\ Carried(r) = UNION {ObjectsOf(x) : x \in Range(r)}
      BY Carries
<1> QED BY <1>1

LEMMA CarriesElement ==
    ASSUME NEW q, NEW m \in Range(q) PROVE ObjectsOf(m) \subseteq Carried(q)
BY Carries

\* What keeps the handover without gaps, in a step that opens and ends no
\* session: what is read is stored or missed, what is sent is held, a request
\* is answered, and a new object is sent to whoever asked for it.
LEMMA HandoverKept ==
    ASSUME HandoverInv, UNCHANGED <<net, pool, asked>>, Shape',
           silent' = [p \in Pair |-> silent'[p]],
           \A p \in Pair : silent[p] \subseteq silent'[p],
           \A n \in Node : missed[n] \subseteq missed'[n] /\ store[n] \subseteq store'[n] \cup missed'[n],
           \A p \in Pair \ pool : queue'[p] = queue[p],
           \A p \in Pair : <<p[2], p[1]>> \notin pool => Range(queue[p]) \subseteq Range(queue'[p]),
           \A p \in Pair : Carried(queue'[p]) \subseteq Carried(queue[p]) \cup store'[p[1]] \cup missed'[p[1]],
           \A p \in Pair : Carried(queue[p]) \subseteq Carried(queue'[p]) \cup store'[p[2]] \cup missed'[p[2]],
           \A p \in Pair : \A o \in store[p[2]] :
                Requested(p, o) => \/ Requested(p, o)'
                                   \/ o \in Carried(queue'[<<p[2], p[1]>>]) \cup silent'[p],
           \A p \in Pair : \A o \in store'[p[2]] \ store[p[2]] :
                /\ <<p[2], p[1]>> \in pool /\ o.topic \in DOMAIN asked[p] /\ o.time > asked[p][o.topic]
                => \/ o \in store'[p[1]] \cup missed'[p[1]] \cup silent'[p] \cup Carried(queue'[<<p[2], p[1]>>])
                   \/ Requested(p, o)'
    PROVE  HandoverInv'
<1>1. Pair' = Pair BY DEF Pair
<1>2. /\ Shape /\ Idle /\ Unread /\ CarriedHeld /\ HandoverGapFree BY DEF HandoverInv
<1>3. Idle' BY <1>1, <1>2 DEF Idle
<1>4. Unread'
  <2> SUFFICES ASSUME NEW p \in pool, <<p[2], p[1]>> \notin pool, NEW t \in DOMAIN asked[p]
               PROVE  \E m \in Range(queue'[p]) : m.type = "request" /\ m.topic = t /\ m.since = asked[p][t]
      BY DEF Unread
  <2>1. p \in Pair BY <1>2 DEF Shape
  <2>2. \E m \in Range(queue[p]) : m.type = "request" /\ m.topic = t /\ m.since = asked[p][t]
        BY <1>2 DEF Unread
  <2> QED BY <2>1, <2>2
<1>5. CarriedHeld'
  <2> SUFFICES ASSUME NEW p \in Pair PROVE Carried(queue'[p]) \subseteq store'[p[1]] \cup missed'[p[1]]
      BY <1>1 DEF CarriedHeld
  <2>1. Carried(queue[p]) \subseteq store[p[1]] \cup missed[p[1]] BY <1>2 DEF CarriedHeld
  <2>2. p[1] \in Node BY PairFacts
  <2> QED BY <2>1, <2>2
<1>6. HandoverGapFree'
  <2> SUFFICES ASSUME NEW p \in Pair, <<p[2], p[1]>> \in pool, NEW o \in Covered(p[1], p[2])'
               PROVE  o \in store'[p[1]] \/ OnTheWay(p[1], p[2], o)'
      BY <1>1 DEF HandoverGapFree
  <2>1. p[1] \in Node /\ p[2] \in Node /\ p = <<p[1], p[2]>> /\ <<p[2], p[1]>> \in Pair BY PairFacts
  <2>2. /\ o \in store'[p[2]] /\ o \notin missed'[p[1]] /\ o \notin silent'[p]
        /\ o.topic \in DOMAIN asked[p] /\ o.time > asked[p][o.topic]
        BY <2>1 DEF Covered
  <2>3. OnTheWay(p[1], p[2], o)' <=> o \in Carried(queue'[<<p[2], p[1]>>]) \/ Requested(p, o)'
        BY <2>1 DEF OnTheWay
  <2>4. CASE o \in store[p[2]]
    <3>1. o \notin missed[p[1]] /\ o \notin silent[p] BY <2>1, <2>2
    <3>2. o \in Covered(p[1], p[2]) BY <2>1, <2>2, <2>4, <3>1 DEF Covered
    <3>3. o \in store[p[1]] \/ OnTheWay(p[1], p[2], o) BY <1>2, <3>2 DEF HandoverGapFree
    <3>4. o \in store[p[1]] \/ o \in Carried(queue[<<p[2], p[1]>>]) \/ Requested(p, o)
          BY <2>1, <3>3 DEF OnTheWay
    <3>5. CASE o \in store[p[1]] BY <2>1, <2>2, <3>5
    <3>6. CASE o \in Carried(queue[<<p[2], p[1]>>]) BY <2>1, <2>2, <2>3, <3>6
    <3>7. CASE Requested(p, o) BY <2>2, <2>3, <2>4, <3>7
    <3> QED BY <3>4, <3>5, <3>6, <3>7
  <2>5. CASE o \notin store[p[2]] BY <2>2, <2>3, <2>5
  <2> QED BY <2>4, <2>5
<1>7. (silent = [p \in Pair |-> silent[p]])' BY <1>1
<1> QED BY <1>3, <1>4, <1>5, <1>6, <1>7 DEF HandoverInv

\* A frame that is read is the only thing that leaves a queue.
LEMMA RestKeeps ==
    ASSUME Shape, Idle, NEW a, NEW b, <<a, b>> \in Pair, NEW t, Reads(a, b, t)
    PROVE  LET m == Head(queue[<<a, b>>])
           IN  /\ <<a, b>> \in pool
               /\ \A p \in Pair : Range(Rest(a, b)[p]) \subseteq Range(queue[p])
               /\ \A p \in Pair : Range(queue[p]) \subseteq Range(Rest(a, b)[p]) \cup {m}
               /\ \A p \in Pair \ {<<a, b>>} : Rest(a, b)[p] = queue[p]
<1>1. queue[<<a, b>>] # <<>> BY DEF Reads
<1>2. <<a, b>> \in pool BY <1>1 DEF Idle
<1> DEFINE m == Head(queue[<<a, b>>])
<1>3. /\ \A p \in Pair \ {<<a, b>>} : Rest(a, b)[p] = queue[p]
      /\ Range(queue[<<a, b>>]) = Range(Rest(a, b)[<<a, b>>]) \cup {m}
  <2>1. Proper(queue, published) BY DEF Shape
  <2> QED BY <1>1, <2>1, ProperRest
<1>4. ASSUME NEW p \in Pair
      PROVE  /\ Range(Rest(a, b)[p]) \subseteq Range(queue[p])
             /\ Range(queue[p]) \subseteq Range(Rest(a, b)[p]) \cup {Head(queue[<<a, b>>])}
  <2>1. CASE p = <<a, b>> BY <1>3, <2>1
  <2>2. CASE p # <<a, b>>
    <3>1. Rest(a, b)[p] = queue[p] BY <1>3, <2>2
    <3> QED BY <3>1
  <2> QED BY <2>1, <2>2
<1> QED BY <1>2, <1>3, <1>4

\* A request is not lost in a larger queue.
LEMMA RequestKept ==
    ASSUME NEW p, NEW o, Requested(p, o), NEW m, m.type # "request",
           Range(queue[p]) \subseteq Range(queue'[p]) \cup {m}
    PROVE  Requested(p, o)'
<1>1. PICK x \in Range(queue[p]) : x.type = "request" /\ x.topic = o.topic /\ x.since < o.time
      BY DEF Requested
<1>2. x \in Range(queue'[p]) BY <1>1
<1> QED BY <1>1, <1>2 DEF Requested

LEMMA HandoverStays ==
    ASSUME HandoverInv, Shape', UNCHANGED <<net, pool, asked, queue, store, missed, silent>>
    PROVE  HandoverInv'
<1>1. Pair' = Pair BY DEF Pair
<1>2. Idle' /\ Unread' /\ CarriedHeld' BY <1>1 DEF HandoverInv, Idle, Unread, CarriedHeld
<1>3. HandoverGapFree' BY <1>1 DEF HandoverInv, HandoverGapFree, Covered, OnTheWay, Requested
<1>4. (silent = [p \in Pair |-> silent[p]])' BY <1>1 DEF HandoverInv
<1> QED BY <1>2, <1>3, <1>4 DEF HandoverInv

\* Where an object that n accepts from `from' (from n itself: one it creates)
\* goes.  q is what the queues hold when it is passed on.
LEMMA AcceptHandover ==
    ASSUME HandoverInv, Shape', UNCHANGED <<net, pool, asked, silent>>, published \subseteq published',
           NEW n \in Node, NEW o \in published', NEW from, NEW m \in Frame,
           m.type \in {"channel", "forum"}, m.object = o,
           NEW q, Proper(q, published'), Accept(n, o, from, m, q),
           \A p \in Pair \ {<<from, n>>} : q[p] = queue[p],
           \A p \in Pair : /\ Range(q[p]) \subseteq Range(queue[p])
                           /\ Range(queue[p]) \subseteq Range(q[p]) \cup {m},
           from # n => /\ <<from, n>> \in pool /\ <<n, from>> \in pool
                       /\ m \in Range(queue[<<from, n>>])
    PROVE  HandoverInv'
<1>0. /\ Shape /\ Idle /\ CarriedHeld /\ pool \subseteq Pair BY DEF HandoverInv, Shape
<1>1. m.type \in Flooded /\ m.type # "request" /\ ObjectsOf(m) = {o} BY DEF Flooded, ObjectsOf
<1>2. /\ store' = [store EXCEPT ![n] = @ \cup {o}] /\ o \notin store[n]
      /\ \A x \in Node : missed[x] \subseteq missed'[x]
      BY <1>0, <1>1, Accepts
<1>3. /\ \A x \in Node : store[x] \subseteq store'[x]
      /\ o \in store'[n]
      /\ \A x \in Node : store'[x] \ store[x] \subseteq {o}
      /\ \A x \in Node \ {n} : store'[x] = store[x]
      BY <1>0, <1>2 DEF Shape
<1>4. queue' = Flood(q, n, from, m) /\ q \in [Pair -> Seq(Frame)] BY DEF Accept, Proper
<1>5. /\ \A p \in Pair : queue'[p] = q[p] \/ (p \in FloodTo(n, from) /\ Gains(queue'[p], q[p], m))
      /\ \A p \in FloodTo(n, from) : m \in Range(queue'[p]) \/ p[2] \in Overflows(q, n, from)
      BY <1>0, <1>1, <1>4, Floods
<1>6. \A p \in FloodTo(n, from) : m \in Range(queue'[p]) \/ o \in missed'[p[2]]
  <2> SUFFICES ASSUME NEW p \in FloodTo(n, from), p[2] \in Overflows(q, n, from) PROVE o \in missed'[p[2]]
      BY <1>5
  <2>1. p[2] \in Node BY <1>0, PairFacts DEF FloodTo
  <2> QED BY <2>1 DEF Accept
<1>7. \A p \in Pair : Range(q[p]) \subseteq Range(queue'[p]) BY <1>5 DEF Gains
<1>8. <<from, n>> \in Pair => <<from, n>> \in pool /\ <<n, from>> \in pool
  <2>1. <<n, n>> \notin Pair BY DEF Pair
  <2> QED BY <2>1
<1>9. \A p \in Pair \ pool : queue'[p] = queue[p]
  <2> SUFFICES ASSUME NEW p \in Pair \ pool PROVE queue'[p] = queue[p]
      OBVIOUS
  <2>1. p # <<from, n>> /\ p \notin FloodTo(n, from) BY <1>8 DEF FloodTo
  <2> QED BY <1>5, <2>1
<1>10. \A p \in Pair : <<p[2], p[1]>> \notin pool => Range(queue[p]) \subseteq Range(queue'[p])
  <2> SUFFICES ASSUME NEW p \in Pair, <<p[2], p[1]>> \notin pool PROVE Range(queue[p]) \subseteq Range(queue'[p])
      OBVIOUS
  <2>1. p # <<from, n>> BY <1>8
  <2>2. q[p] = queue[p] BY <2>1
  <2> QED BY <1>7, <2>2
<1>11. \A p \in Pair : Carried(queue'[p]) \subseteq Carried(queue[p]) \cup store'[p[1]] \cup missed'[p[1]]
  <2> SUFFICES ASSUME NEW p \in Pair
               PROVE  Carried(queue'[p]) \subseteq Carried(queue[p]) \cup store'[p[1]] \cup missed'[p[1]]
      OBVIOUS
  <2>1. Carried(q[p]) \subseteq Carried(queue[p]) BY CarriesSubset
  <2>2. CASE queue'[p] = q[p] BY <2>1, <2>2
  <2>3. CASE p \in FloodTo(n, from) /\ Gains(queue'[p], q[p], m)
    <3>1. Carried(queue'[p]) = Carried(q[p]) \cup {o} BY <1>1, <2>3, CarriesMore DEF Gains
    <3>2. p[1] = n BY <2>3 DEF FloodTo
    <3> QED BY <1>3, <2>1, <3>1, <3>2
  <2> QED BY <1>5, <2>2, <2>3
<1>12. \A p \in Pair : Carried(queue[p]) \subseteq Carried(queue'[p]) \cup store'[p[2]] \cup missed'[p[2]]
  <2> SUFFICES ASSUME NEW p \in Pair
               PROVE  Carried(queue[p]) \subseteq Carried(queue'[p]) \cup store'[p[2]] \cup missed'[p[2]]
      OBVIOUS
  <2>1. Carried(q[p]) \subseteq Carried(queue'[p]) BY <1>7, CarriesSubset
  <2>2. CASE p = <<from, n>>
    <3>3. from # n BY <2>2, PairFacts
    <3>4. m \in Range(queue[p]) BY <2>2, <3>3
    <3>1. Range(queue[p]) = Range(q[p]) \cup {m} BY <3>4
    <3>2. Carried(queue[p]) = Carried(q[p]) \cup {o} BY <1>1, <3>1, CarriesMore
    <3> QED BY <1>3, <2>1, <2>2, <3>2
  <2>3. CASE p # <<from, n>> BY <2>1, <2>3
  <2> QED BY <2>2, <2>3
<1>13. \A p \in Pair : \A x \in store[p[2]] :
            Requested(p, x) => Requested(p, x)' \/ x \in Carried(queue'[<<p[2], p[1]>>]) \cup silent'[p]
  <2> SUFFICES ASSUME NEW p \in Pair, NEW x, Requested(p, x) PROVE Requested(p, x)'
      OBVIOUS
  <2>1. Range(queue[p]) \subseteq Range(queue'[p]) \cup {m} BY <1>7
  <2> QED BY <1>1, <2>1, RequestKept
<1>14. ASSUME NEW p \in Pair, NEW x \in store'[p[2]] \ store[p[2]], <<p[2], p[1]>> \in pool
       PROVE  x \in store'[p[1]] \cup missed'[p[1]] \cup Carried(queue'[<<p[2], p[1]>>])
  <2>1. p[1] \in Node /\ p[2] \in Node /\ p = <<p[1], p[2]>> /\ <<p[2], p[1]>> \in Pair BY PairFacts
  <2>2. x = o /\ p[2] = n BY <1>3, <2>1
  <2>3. CASE p[1] = from
    <3>1. <<from, n>> \in Pair /\ from # n BY <2>1, <2>2, <2>3, PairFacts
    <3>2. o \in Carried(queue[p]) BY <1>1, <2>1, <2>2, <2>3, <3>1, CarriesElement
    <3>3. o \in store[p[1]] \cup missed[p[1]] BY <1>0, <3>2 DEF CarriedHeld
    <3> QED BY <1>2, <1>3, <2>1, <2>2, <3>3
  <2>4. CASE p[1] # from
    <3>1. <<p[2], p[1]>> \in FloodTo(n, from) BY <1>14, <2>2, <2>4 DEF FloodTo
    <3>2. m \in Range(queue'[<<p[2], p[1]>>]) \/ o \in missed'[p[1]] BY <1>6, <3>1
    <3>3. m \in Range(queue'[<<p[2], p[1]>>]) => o \in Carried(queue'[<<p[2], p[1]>>])
          BY <1>1, CarriesElement
    <3> QED BY <2>2, <3>2, <3>3
  <2> QED BY <2>3, <2>4
<1>15. silent' = [p \in Pair |-> silent'[p]] BY DEF HandoverInv
<1>16. \A x \in Node : missed[x] \subseteq missed'[x] /\ store[x] \subseteq store'[x] \cup missed'[x]
       BY <1>2, <1>3
<1>17. \A p \in Pair : \A x \in store'[p[2]] \ store[p[2]] :
            /\ <<p[2], p[1]>> \in pool /\ x.topic \in DOMAIN asked[p] /\ x.time > asked[p][x.topic]
            => \/ x \in store'[p[1]] \cup missed'[p[1]] \cup silent'[p] \cup Carried(queue'[<<p[2], p[1]>>])
               \/ Requested(p, x)'
       BY <1>14
<1> QED BY <1>9, <1>10, <1>11, <1>12, <1>13, <1>15, <1>16, <1>17, HandoverKept

LEMMA PublishHandover ==
    ASSUME HandoverInv, Shape', NEW o \in net.object, PublishChannel(o.sender, o) \/ PublishForum(o.sender, o)
    PROVE  HandoverInv'
<1> DEFINE n == o.sender
<1>0. Shape BY DEF HandoverInv
<1>1. PICK m : /\ \/ o.topic \notin Board /\ m = AsChannel(o)
                  \/ o.topic \in Board /\ m = AsForum(o)
               /\ Publish(n, o, m)
      BY DEF PublishChannel, PublishForum
<1>2. n \in Node /\ m \in Frame /\ m.type \in {"channel", "forum"} /\ m.object = o
      BY <1>0, <1>1, PublishFacts DEF AsChannel, AsForum
<1>3. UNCHANGED <<net, pool, asked, silent>> BY <1>1 DEF Publish
<1>4. CASE o.topic \notin ValidTopic
  <2>1. UNCHANGED <<store, queue, missed>> BY <1>1, <1>4 DEF Publish
  <2> QED BY <1>3, <2>1, HandoverStays
<1>5. CASE o.topic \in ValidTopic
  <2>1. published' = published \cup {o} /\ Accept(n, o, n, m, queue) BY <1>1, <1>5 DEF Publish
  <2>2. Proper(queue, published') BY <1>0, <2>1 DEF Shape, Proper
  <2> QED BY <1>2, <1>3, <2>1, <2>2, AcceptHandover
<1> QED BY <1>4, <1>5

LEMMA ObjectHandover ==
    ASSUME HandoverInv, Shape', NEW a, NEW b, <<a, b>> \in Pair, NEW t \in {"channel", "forum"}, Reads(a, b, t),
           NEW verified, HandleObject(a, b, Head(queue[<<a, b>>]), verified),
           UNCHANGED <<net, subscribed, known, pool, cuts, deletes, published, asked, silent>>
    PROVE  HandoverInv'
<1> DEFINE m == Head(queue[<<a, b>>])  o == m.object
           admitted == verified /\ o.topic \in subscribed[b]
<1>0. Shape /\ Idle BY DEF HandoverInv
<1>1. /\ a \in Node /\ b \in Node /\ m \in Frame /\ m.type = t /\ <<b, a>> \in pool
      /\ m \in Range(queue[<<a, b>>])
      /\ ObjectsOf(m) \subseteq published /\ Proper(Rest(a, b), published)
      BY <1>0, ReadFacts
<1>2. /\ <<a, b>> \in pool
      /\ \A p \in Pair : /\ Range(Rest(a, b)[p]) \subseteq Range(queue[p])
                         /\ Range(queue[p]) \subseteq Range(Rest(a, b)[p]) \cup {m}
      /\ \A p \in Pair \ {<<a, b>>} : Rest(a, b)[p] = queue[p]
      BY <1>0, RestKeeps
<1>3. ObjectsOf(m) = {o} /\ o \in published /\ m.type # "request" BY <1>1 DEF ObjectsOf
<1>4. CASE admitted /\ o \notin store[b]
  <2>1. Accept(b, o, a, m, Rest(a, b)) BY <1>4 DEF HandleObject
  <2> HIDE DEF m, o
  <2> QED BY <1>1, <1>2, <1>3, <2>1, AcceptHandover DEF o
<1>5. CASE ~ (admitted /\ o \notin store[b])
  <2>1. /\ queue' = Rest(a, b) /\ UNCHANGED store
        /\ missed' = [missed EXCEPT ![b] = IF admitted THEN @ ELSE @ \cup {o}]
        BY <1>5 DEF HandleObject
  <2>2. \A n \in Node : missed[n] \subseteq missed'[n] /\ store[n] \subseteq store'[n] \cup missed'[n]
        BY <1>1, <2>1 DEF Shape
  <2>3. o \in store'[b] \cup missed'[b] BY <1>0, <1>1, <1>5, <2>1 DEF Shape
  <2> HIDE DEF m, o, admitted
  <2>4. \A p \in Pair : Carried(queue'[p]) \subseteq Carried(queue[p]) \cup store'[p[1]] \cup missed'[p[1]]
        BY <1>2, <2>1, CarriesSubset
  <2>5. ASSUME NEW p \in Pair
        PROVE  Carried(queue[p]) \subseteq Carried(queue'[p]) \cup store'[p[2]] \cup missed'[p[2]]
    <3>1. CASE p = <<a, b>>
      <4>1. Range(queue[p]) = Range(queue'[p]) \cup {m} BY <1>1, <1>2, <2>1, <3>1
      <4>2. Carried(queue[p]) = Carried(queue'[p]) \cup {o} BY <1>3, <4>1, CarriesMore
      <4> QED BY <2>3, <3>1, <4>2
    <3>2. CASE p # <<a, b>>
      <4>1. queue'[p] = queue[p] BY <1>2, <2>1, <3>2
      <4> QED BY <4>1
    <3> QED BY <3>1, <3>2
  <2>6. \A p \in Pair : \A x \in store[p[2]] :
            Requested(p, x) => Requested(p, x)' \/ x \in Carried(queue'[<<p[2], p[1]>>]) \cup silent'[p]
        BY <1>2, <1>3, <2>1, RequestKept
  <2>7. /\ \A p \in Pair \ pool : queue'[p] = queue[p]
        /\ \A p \in Pair : <<p[2], p[1]>> \notin pool => Range(queue[p]) \subseteq Range(queue'[p])
        BY <1>1, <1>2, <2>1
  <2>8. silent' = [p \in Pair |-> silent'[p]] BY DEF HandoverInv
  <2> QED BY <2>1, <2>2, <2>4, <2>5, <2>6, <2>7, <2>8, HandoverKept
<1> QED BY <1>4, <1>5

LEMMA ResponseHandover ==
    ASSUME HandoverInv, Shape', NEW a, NEW b, <<a, b>> \in Pair, HandleHistoryResponse(a, b)
    PROVE  HandoverInv'
<1> DEFINE m == Head(queue[<<a, b>>])
<1>0. Shape /\ Idle BY DEF HandoverInv
<1>1. /\ a \in Node /\ b \in Node /\ m \in Frame /\ m.type = "response" /\ <<b, a>> \in pool
      /\ m \in Range(queue[<<a, b>>])
      BY <1>0, ReadFacts DEF HandleHistoryResponse
<1>2. /\ <<a, b>> \in pool
      /\ \A p \in Pair : /\ Range(Rest(a, b)[p]) \subseteq Range(queue[p])
                         /\ Range(queue[p]) \subseteq Range(Rest(a, b)[p]) \cup {m}
      /\ \A p \in Pair \ {<<a, b>>} : Rest(a, b)[p] = queue[p]
      BY <1>0, RestKeeps DEF HandleHistoryResponse
<1>3. ObjectsOf(m) = m.objects /\ m.type # "request" BY <1>1 DEF ObjectsOf
<1>4. PICK admitted \in SUBSET m.objects :
            /\ store' = [store EXCEPT ![b] = @ \cup admitted]
            /\ missed' = [missed EXCEPT ![b] = @ \cup (m.objects \ admitted)]
            /\ silent' = [p \in Pair |-> IF p[2] = b /\ p \in pool
                                         THEN silent[p] \cup {o \in Fresh(b, admitted) : ~ Requested(p, o)}
                                         ELSE silent[p]]
      BY DEF HandleHistoryResponse
<1>5. queue' = Rest(a, b) /\ UNCHANGED <<net, pool, asked>> BY DEF HandleHistoryResponse
<1> HIDE DEF m
<1>6. /\ \A n \in Node : missed[n] \subseteq missed'[n] /\ store[n] \subseteq store'[n] \cup missed'[n]
      /\ m.objects \subseteq store'[b] \cup missed'[b]
      /\ \A n \in Node : store'[n] # store[n] => n = b
      /\ store'[b] \ store[b] = Fresh(b, admitted)
      BY <1>0, <1>1, <1>4 DEF Shape, Fresh
<1>7. \A p \in Pair : Carried(queue'[p]) \subseteq Carried(queue[p]) \cup store'[p[1]] \cup missed'[p[1]]
      BY <1>2, <1>5, CarriesSubset
<1>8. ASSUME NEW p \in Pair
      PROVE  Carried(queue[p]) \subseteq Carried(queue'[p]) \cup store'[p[2]] \cup missed'[p[2]]
  <2>1. CASE p = <<a, b>>
    <3>1. Range(queue[p]) = Range(queue'[p]) \cup {m} BY <1>1, <1>2, <1>5, <2>1
    <3>2. Carried(queue[p]) = Carried(queue'[p]) \cup m.objects BY <1>3, <3>1, CarriesMore
    <3> QED BY <1>6, <2>1, <3>2
  <2>2. CASE p # <<a, b>>
    <3>1. queue'[p] = queue[p] BY <1>2, <1>5, <2>2
    <3> QED BY <3>1
  <2> QED BY <2>1, <2>2
<1>9. \A p \in Pair : \A x : Requested(p, x) => Requested(p, x)' BY <1>2, <1>3, <1>5, RequestKept
<1>10. /\ \A p \in Pair \ pool : queue'[p] = queue[p]
       /\ \A p \in Pair : <<p[2], p[1]>> \notin pool => Range(queue[p]) \subseteq Range(queue'[p])
       BY <1>1, <1>2, <1>5
<1>11. silent' = [p \in Pair |-> silent'[p]] /\ \A p \in Pair : silent[p] \subseteq silent'[p] BY <1>4
<1>12. ASSUME NEW p \in Pair, NEW x \in store'[p[2]] \ store[p[2]], x.topic \in DOMAIN asked[p]
       PROVE  x \in silent'[p] \/ Requested(p, x)'
  <2>1. p[2] = b /\ x \in Fresh(b, admitted) BY <1>6, PairFacts
  <2>2. p \in pool
    <3>1. DOMAIN <<>> = {} OBVIOUS
    <3> QED BY <1>0, <1>12, <3>1 DEF Idle
  <2>3. CASE Requested(p, x) BY <1>9, <2>3
  <2>4. CASE ~ Requested(p, x) BY <1>4, <2>1, <2>2, <2>4
  <2> QED BY <2>3, <2>4
<1> QED BY <1>5, <1>6, <1>7, <1>8, <1>9, <1>10, <1>11, <1>12, HandoverKept

\* A frame over the limit is missed by the node that read it; what an unseen
\* request asked for, the node keeps to itself.
LEMMA OverLimitHandover ==
    ASSUME HandoverInv, Shape', NEW a, NEW b, <<a, b>> \in Pair, OverLimit(a, b)
    PROVE  HandoverInv'
<1> DEFINE m == Head(queue[<<a, b>>])
           unseen == {o \in store[b] : m.type = "request" /\ o.topic = m.topic}
<1>0. Shape /\ Idle BY DEF HandoverInv
<1>1. /\ a \in Node /\ b \in Node /\ <<b, a>> \in pool /\ m \in Range(queue[<<a, b>>])
      BY <1>0, ReadFacts DEF OverLimit
<1>2. /\ <<a, b>> \in pool
      /\ \A p \in Pair : /\ Range(Rest(a, b)[p]) \subseteq Range(queue[p])
                         /\ Range(queue[p]) \subseteq Range(Rest(a, b)[p]) \cup {m}
      /\ \A p \in Pair \ {<<a, b>>} : Rest(a, b)[p] = queue[p]
      BY <1>0, RestKeeps DEF OverLimit
<1>3. /\ queue' = Rest(a, b) /\ UNCHANGED <<net, pool, asked, store>>
      /\ silent' = [silent EXCEPT ![<<a, b>>] = @ \cup unseen]
      BY DEF OverLimit
<1>4. missed' = [missed EXCEPT ![b] = @ \cup ObjectsOf(m)] BY CarriedOne DEF OverLimit
<1>5. silent = [p \in Pair |-> silent[p]] BY DEF HandoverInv
<1> HIDE DEF m
<1>6. /\ \A n \in Node : missed[n] \subseteq missed'[n] /\ store[n] \subseteq store'[n] \cup missed'[n]
      /\ ObjectsOf(m) \subseteq missed'[b]
      BY <1>0, <1>1, <1>3, <1>4 DEF Shape
<1>7. /\ silent' = [p \in Pair |-> silent'[p]] /\ \A p \in Pair : silent[p] \subseteq silent'[p]
      /\ unseen \subseteq silent'[<<a, b>>]
  <2> HIDE DEF unseen
  <2> QED BY <1>3, <1>5
<1>8. \A p \in Pair : Carried(queue'[p]) \subseteq Carried(queue[p]) \cup store'[p[1]] \cup missed'[p[1]]
      BY <1>2, <1>3, CarriesSubset
<1>9. ASSUME NEW p \in Pair
      PROVE  Carried(queue[p]) \subseteq Carried(queue'[p]) \cup store'[p[2]] \cup missed'[p[2]]
  <2>1. CASE p = <<a, b>>
    <3>1. Range(queue[p]) = Range(queue'[p]) \cup {m} BY <1>1, <1>2, <1>3, <2>1
    <3>2. Carried(queue[p]) = Carried(queue'[p]) \cup ObjectsOf(m) BY <3>1, CarriesMore
    <3> QED BY <1>6, <2>1, <3>2
  <2>2. CASE p # <<a, b>>
    <3>1. queue'[p] = queue[p] BY <1>2, <1>3, <2>2
    <3> QED BY <3>1
  <2> QED BY <2>1, <2>2
<1>10. ASSUME NEW p \in Pair, NEW o \in store[p[2]], Requested(p, o)
       PROVE  Requested(p, o)' \/ o \in silent'[p]
  <2>1. PICK x \in Range(queue[p]) : x.type = "request" /\ x.topic = o.topic /\ x.since < o.time
        BY <1>10 DEF Requested
  <2>2. CASE x \in Range(queue'[p]) BY <2>1, <2>2 DEF Requested
  <2>3. CASE x \notin Range(queue'[p])
    <3>1. x = m /\ p = <<a, b>> BY <1>2, <1>3, <2>3
    <3>2. o \in unseen BY <2>1, <3>1
    <3> QED BY <1>7, <3>1, <3>2
  <2> QED BY <2>2, <2>3
<1>11. /\ \A p \in Pair \ pool : queue'[p] = queue[p]
       /\ \A p \in Pair : <<p[2], p[1]>> \notin pool => Range(queue[p]) \subseteq Range(queue'[p])
       BY <1>1, <1>2, <1>3
<1> QED BY <1>3, <1>6, <1>7, <1>8, <1>9, <1>10, <1>11, HandoverKept

LEMMA DeleteHandover ==
    ASSUME HandoverInv, Shape', NEW a, NEW b, <<a, b>> \in Pair, HandleDelete(a, b)
    PROVE  HandoverInv'
<1> DEFINE d == Head(queue[<<a, b>>])
<1>0. Shape /\ Idle /\ pool \subseteq Pair BY DEF HandoverInv, Shape
<1>1. /\ a \in Node /\ b \in Node /\ d \in Frame /\ d.type = "delete" /\ <<b, a>> \in pool
      /\ d \in Range(queue[<<a, b>>]) /\ Rest(a, b) \in [Pair -> Seq(Frame)]
      BY <1>0, ReadFacts DEF HandleDelete, Proper
<1>2. /\ <<a, b>> \in pool
      /\ \A p \in Pair : /\ Range(Rest(a, b)[p]) \subseteq Range(queue[p])
                         /\ Range(queue[p]) \subseteq Range(Rest(a, b)[p]) \cup {d}
      /\ \A p \in Pair \ {<<a, b>>} : Rest(a, b)[p] = queue[p]
      BY <1>0, RestKeeps DEF HandleDelete
<1>3. ObjectsOf(d) = {} /\ d.type # "request" /\ d.type \in Flooded BY <1>1 DEF ObjectsOf, Flooded
<1>4. UNCHANGED <<net, pool, asked, silent>> BY DEF HandleDelete
<1>5. /\ \A n \in Node : /\ missed[n] \subseteq missed'[n] /\ store[n] \subseteq store'[n] \cup missed'[n]
                         /\ store'[n] \subseteq store[n]
  <2>1. CASE UNCHANGED <<store, missed>> BY <2>1
  <2>2. CASE /\ store' = [store EXCEPT ![b] = @ \ {d.target}]
             /\ missed' = [missed EXCEPT ![b] = @ \cup {d.target}]
    <3> HIDE DEF d
    <3> QED BY <1>0, <1>1, <2>2 DEF Shape
  <2> QED BY <2>1, <2>2 DEF HandleDelete, DeleteObject
<1>6. queue' = Flood(Rest(a, b), b, a, d) \/ queue' = Rest(a, b) BY DEF HandleDelete
<1> HIDE DEF d
<1>7. \A p \in Pair : queue'[p] = Rest(a, b)[p] \/ (p \in FloodTo(b, a) /\ Gains(queue'[p], Rest(a, b)[p], d))
      BY <1>0, <1>1, <1>3, <1>6, Floods
<1>8. \A p \in Pair : /\ Range(Rest(a, b)[p]) \subseteq Range(queue'[p])
                      /\ Range(queue[p]) \subseteq Range(queue'[p]) \cup {d}
                      /\ Range(queue'[p]) \subseteq Range(queue[p]) \cup {d}
      BY <1>2, <1>7 DEF Gains
<1>9. \A p \in Pair : Carried(queue'[p]) = Carried(queue[p])
  <2> SUFFICES ASSUME NEW p \in Pair PROVE Carried(queue'[p]) = Carried(queue[p])
      OBVIOUS
  <2>1. /\ Carried(queue[p]) = UNION {ObjectsOf(x) : x \in Range(queue[p])}
        /\ Carried(queue'[p]) = UNION {ObjectsOf(x) : x \in Range(queue'[p])}
        BY Carries
  <2>2. \A x \in Range(queue[p]) : x \in Range(queue'[p]) \/ ObjectsOf(x) = {} BY <1>3, <1>8
  <2>3. \A x \in Range(queue'[p]) : x \in Range(queue[p]) \/ ObjectsOf(x) = {} BY <1>3, <1>8
  <2> QED BY <2>1, <2>2, <2>3
<1>10. \A p \in Pair : \A x \in store[p[2]] :
            Requested(p, x) => Requested(p, x)' \/ x \in Carried(queue'[<<p[2], p[1]>>]) \cup silent'[p]
       BY <1>3, <1>8, RequestKept
<1>11. /\ \A p \in Pair \ pool : queue'[p] = queue[p]
       /\ \A p \in Pair : <<p[2], p[1]>> \notin pool => Range(queue[p]) \subseteq Range(queue'[p])
  <2>1. \A p \in Pair \ pool : p # <<a, b>> /\ p \notin FloodTo(b, a) BY <1>2 DEF FloodTo
  <2>2. ASSUME NEW p \in Pair, p = <<a, b>> PROVE <<p[2], p[1]>> \in pool
    <3>1. p[1] = a /\ p[2] = b BY <2>2
    <3> QED BY <1>1, <3>1
  <2> QED BY <1>2, <1>7, <1>8, <2>1, <2>2
<1>12. silent' = [p \in Pair |-> silent'[p]] BY <1>4 DEF HandoverInv
<1>13. \A p \in Pair : store'[p[2]] \subseteq store[p[2]] BY <1>5, PairFacts
<1> QED BY <1>4, <1>5, <1>9, <1>10, <1>11, <1>12, <1>13, HandoverKept

LEMMA SendDeleteHandover ==
    ASSUME HandoverInv, Shape', NEW a, NEW b, NEW o \in Object, Delete(a, b, o)
    PROVE  HandoverInv'
<1> DEFINE p == <<a, b>>  d == [type |-> "delete", sender |-> a, target |-> o]
<1>0. Shape /\ pool \subseteq Pair BY DEF HandoverInv, Shape
<1>1. /\ p \in pool /\ p \in Pair /\ a \in Node /\ b \in Node
      /\ UNCHANGED <<net, pool, asked, store, missed, silent>>
      BY <1>0, PairFacts DEF Delete
<1>2. d \in Frame /\ ObjectsOf(d) = {} BY <1>1 DEF Frame, DeleteRequest, ObjectsOf
<1>3. queue' = [queue EXCEPT ![p] = TrySend(queue[p], d)] BY DEF Delete
<1> HIDE DEF d
<1>4. queue \in [Pair -> Seq(Frame)] BY <1>0 DEF Shape, Proper
<1>5. queue'[p] = queue[p] \/ (Range(queue'[p]) = Range(queue[p]) \cup {d})
  <2>1. queue'[p] = Append(queue[p], d) \/ queue'[p] = queue[p] BY <1>1, <1>3, <1>4 DEF TrySend
  <2>2. Range(Append(queue[p], d)) = Range(queue[p]) \cup {d} BY <1>1, <1>2, <1>4, Appends
  <2> QED BY <2>1, <2>2
<1>6. \A x \in Pair \ {p} : queue'[x] = queue[x] BY <1>3, <1>4
<1>7. \A x \in Pair : Range(queue[x]) \subseteq Range(queue'[x]) BY <1>5, <1>6
<1>8. \A x \in Pair : Carried(queue'[x]) = Carried(queue[x])
  <2>1. Carried(queue'[p]) = Carried(queue[p]) BY <1>2, <1>5, CarriesMore
  <2> QED BY <1>6, <2>1
<1>9. \A x \in Pair : \A y : Requested(x, y) => Requested(x, y)' BY <1>7 DEF Requested
<1>10. \A x \in Pair \ pool : queue'[x] = queue[x] BY <1>1, <1>6
<1>11. silent' = [x \in Pair |-> silent'[x]] BY <1>1 DEF HandoverInv
<1> QED BY <1>1, <1>7, <1>8, <1>9, <1>10, <1>11, HandoverKept

\* A session's end forgets what it asked; what was under way counts as missed.
LEMMA EndHandover ==
    ASSUME HandoverInv, Shape', NEW P \in SUBSET Pair, End(P), UNCHANGED <<net, published, store>>
    PROVE  HandoverInv'
<1>0. /\ Shape /\ Idle /\ Unread /\ CarriedHeld /\ HandoverGapFree /\ Pair' = Pair
      BY DEF HandoverInv, Pair
<1>1. \A n \in Node : missed[n] \subseteq missed'[n] BY <1>0, Ends
<1>2. PICK ends \in SUBSET Pair :
        /\ \A p \in Pair : p \in ends <=> <<p[2], p[1]>> \in ends
        /\ pool' = pool \ ends
        /\ \A p \in ends : queue'[p] = <<>> /\ asked'[p] = <<>>
        /\ \A p \in Pair \ ends : queue'[p] = queue[p] /\ asked'[p] = asked[p] /\ silent'[p] = silent[p]
      BY <1>0, Ends
<1>3. DOMAIN <<>> = {} OBVIOUS
<1>4. Idle' BY <1>0, <1>2 DEF Idle
<1>5. Unread'
  <2> SUFFICES ASSUME NEW p \in pool', <<p[2], p[1]>> \notin pool', NEW t \in DOMAIN asked'[p]
               PROVE  \E m \in Range(queue'[p]) : m.type = "request" /\ m.topic = t /\ m.since = asked'[p][t]
      BY DEF Unread
  <2>1. p \in Pair \ ends /\ p \in pool BY <1>0, <1>2 DEF Shape
  <2>2. <<p[2], p[1]>> \notin pool BY <1>2, <2>1
  <2>3. queue'[p] = queue[p] /\ asked'[p] = asked[p] BY <1>2, <2>1
  <2> QED BY <1>0, <2>1, <2>2, <2>3 DEF Unread
<1>6. CarriedHeld'
  <2> SUFFICES ASSUME NEW p \in Pair PROVE Carried(queue'[p]) \subseteq store[p[1]] \cup missed'[p[1]]
      BY <1>0 DEF CarriedHeld
  <2>1. CASE p \in ends BY <1>2, <2>1, CarriesNothing
  <2>2. CASE p \notin ends
    <3>1. queue'[p] = queue[p] /\ p[1] \in Node BY <1>2, <2>2, PairFacts
    <3> QED BY <1>0, <1>1, <3>1 DEF CarriedHeld
  <2> QED BY <2>1, <2>2
<1>7. HandoverGapFree'
  <2> SUFFICES ASSUME NEW p \in Pair, <<p[2], p[1]>> \in pool', NEW o \in Covered(p[1], p[2])'
               PROVE  o \in store'[p[1]] \/ OnTheWay(p[1], p[2], o)'
      BY <1>0 DEF HandoverGapFree
  <2> DEFINE q == <<p[2], p[1]>>
  <2>1. p[1] \in Node /\ p[2] \in Node /\ p = <<p[1], p[2]>> /\ q \in Pair BY PairFacts
  <2>2. q \in pool /\ p \notin ends /\ q \notin ends BY <1>2
  <2>3. queue'[p] = queue[p] /\ queue'[q] = queue[q] /\ asked'[p] = asked[p] /\ silent'[p] = silent[p]
        BY <1>2, <2>1, <2>2
  <2>4. o \in Covered(p[1], p[2]) BY <1>1, <2>1, <2>3 DEF Covered
  <2>5. o \in store[p[1]] \/ o \in Carried(queue[q]) \/ Requested(p, o)
        BY <1>0, <2>1, <2>2, <2>4 DEF HandoverGapFree, OnTheWay
  <2>6. o \in store'[p[1]] \/ o \in Carried(queue'[q]) \/ Requested(p, o)'
        BY <2>3, <2>5 DEF Requested
  <2> QED BY <2>1, <2>6 DEF OnTheWay
<1>8. (silent = [p \in Pair |-> silent[p]])'
  <2>1. silent' = [p \in Pair |-> IF p \in P \cup {<<x[2], x[1]>> : x \in P} THEN {} ELSE silent[p]] BY DEF End
  <2> QED BY <1>0, <2>1
<1> QED BY <1>4, <1>5, <1>6, <1>7, <1>8 DEF HandoverInv

\* A session that opens asks for every topic it is subscribed to; the other
\* end, when it is there already, has not read anything.
LEMMA EnterHandover ==
    ASSUME HandoverInv, Shape', NEW a, NEW b, Enter(a, b)
    PROVE  HandoverInv'
<1> DEFINE p == <<a, b>>  q == <<b, a>>
           R == {[type |-> "request", topic |-> t, since |-> asked'[p][t]] : t \in subscribed[a]}
<1>0. /\ Shape /\ Idle /\ Unread /\ CarriedHeld /\ HandoverGapFree /\ Pair' = Pair
      BY DEF HandoverInv, Enter, Pair
<1>1. /\ p \in Pair \ pool /\ a \in Node /\ b \in Node
      /\ DOMAIN asked'[p] = subscribed[a] /\ Range(queue'[p]) = R
      /\ queue' = [queue EXCEPT ![p] = queue'[p]] /\ asked' = [asked EXCEPT ![p] = asked'[p]]
  <2>1. /\ p \in Pair \ pool /\ a \in Node /\ b \in Node
        /\ asked'[p] = [t \in subscribed[a] |-> Latest(store[a], t)]
        /\ Range(queue'[p]) = R
        /\ queue' = [queue EXCEPT ![p] = queue'[p]]
        /\ asked' = [asked EXCEPT ![p] = asked'[p]]
        BY <1>0, EnterAsks
  <2> HIDE DEF R
  <2> QED BY <2>1
<1>2. q \in Pair /\ q # p BY <1>1, PairFacts
<1>3. pool' = pool \cup {p} /\ UNCHANGED <<store, missed, silent>> BY DEF Enter
<1>4. \A x \in Pair \ {p} : queue'[x] = queue[x] /\ asked'[x] = asked[x]
      BY <1>0, <1>1 DEF Shape, Proper
<1>5. queue[p] = <<>> BY <1>0, <1>1 DEF Idle
<1>6. \A t \in DOMAIN asked'[p] : \E m \in Range(queue'[p]) :
            m.type = "request" /\ m.topic = t /\ m.since = asked'[p][t]
  <2> SUFFICES ASSUME NEW t \in subscribed[a]
               PROVE  \E m \in R : m.type = "request" /\ m.topic = t /\ m.since = asked'[p][t]
      BY <1>1
  <2> DEFINE r == [type |-> "request", topic |-> t, since |-> asked'[p][t]]
  <2>1. r \in R /\ r.type = "request" /\ r.topic = t /\ r.since = asked'[p][t] OBVIOUS
  <2> QED BY <2>1
<1>7. Carried(queue'[p]) = {}
  <2>1. \A m \in Range(queue'[p]) : m.type = "request" BY <1>1
  <2> QED BY <2>1 DEF Carried
<1>8. Idle' BY <1>0, <1>3, <1>4 DEF Idle
<1>9. Unread'
  <2> SUFFICES ASSUME NEW x \in pool', <<x[2], x[1]>> \notin pool', NEW t \in DOMAIN asked'[x]
               PROVE  \E m \in Range(queue'[x]) : m.type = "request" /\ m.topic = t /\ m.since = asked'[x][t]
      BY DEF Unread
  <2>1. CASE x = p BY <1>6, <2>1
  <2>2. CASE x # p
    <3>1. x \in pool /\ x \in Pair /\ <<x[2], x[1]>> \notin pool BY <1>0, <1>3, <2>2 DEF Shape
    <3>2. queue'[x] = queue[x] /\ asked'[x] = asked[x] BY <1>4, <2>2, <3>1
    <3> QED BY <1>0, <3>1, <3>2 DEF Unread
  <2> QED BY <2>1, <2>2
<1>10. \A x \in Pair : Carried(queue'[x]) = Carried(queue[x]) BY <1>4, <1>5, <1>7, CarriesNothing
<1>11. CarriedHeld' BY <1>0, <1>3, <1>10 DEF CarriedHeld
<1>12. HandoverGapFree'
  <2> SUFFICES ASSUME NEW x \in Pair, <<x[2], x[1]>> \in pool', NEW o \in Covered(x[1], x[2])'
               PROVE  o \in store'[x[1]] \/ OnTheWay(x[1], x[2], o)'
      BY <1>0 DEF HandoverGapFree
  <2> DEFINE y == <<x[2], x[1]>>
  <2>1. x[1] \in Node /\ x[2] \in Node /\ x = <<x[1], x[2]>> /\ y \in Pair BY PairFacts
  <2>2. /\ o \in store[x[2]] /\ o \notin missed[x[1]] /\ o \notin silent[x]
        /\ o.topic \in DOMAIN asked'[x] /\ o.time > asked'[x][o.topic]
        BY <1>3, <2>1 DEF Covered
  <2>3. OnTheWay(x[1], x[2], o)' <=> o \in Carried(queue'[y]) \/ Requested(x, o)'
        BY <2>1 DEF OnTheWay
  <2>4. o.time \in Nat /\ o.topic \in Topic BY <1>0, <2>1, <2>2, ShapeObjects, ObjectAssumption
  <2>5. ASSUME NEW m \in Range(queue'[x]), m.type = "request" /\ m.topic = o.topic /\ m.since = asked'[x][o.topic]
        PROVE  Requested(x, o)'
        BY <2>2, <2>4, <2>5 DEF Requested
  <2>6. CASE x = p BY <1>6, <2>2, <2>3, <2>5, <2>6
  <2>7. CASE x # p /\ y \in pool
    <3>1. queue'[x] = queue[x] /\ asked'[x] = asked[x] BY <1>4, <2>7
    <3>2. o \in Covered(x[1], x[2]) BY <2>1, <2>2, <3>1 DEF Covered
    <3>3. o \in store[x[1]] \/ o \in Carried(queue[y]) \/ Requested(x, o)
          BY <1>0, <2>1, <2>7, <3>2 DEF HandoverGapFree, OnTheWay
    <3>4. Requested(x, o) => Requested(x, o)' BY <3>1 DEF Requested
    <3> QED BY <1>3, <1>10, <2>1, <2>3, <3>3, <3>4
  <2>8. CASE x # p /\ y \notin pool
    <3>1. queue'[x] = queue[x] /\ asked'[x] = asked[x] BY <1>4, <2>8
    <3>2. DOMAIN <<>> = {} OBVIOUS
    <3>3. x \in pool BY <1>0, <2>2, <3>1, <3>2 DEF Idle
    <3>4. \E m \in Range(queue[x]) : m.type = "request" /\ m.topic = o.topic /\ m.since = asked[x][o.topic]
          BY <1>0, <2>2, <2>8, <3>1, <3>3 DEF Unread
    <3> QED BY <2>3, <2>5, <3>1, <3>4
  <2> QED BY <2>6, <2>7, <2>8
<1>13. (silent = [x \in Pair |-> silent[x]])' BY <1>0, <1>3 DEF HandoverInv
<1> QED BY <1>8, <1>9, <1>11, <1>12, <1>13 DEF HandoverInv

\* The answer to a request: what is asked for is in it, was cut off by the
\* limit, or belongs to a topic the other end keeps to itself.
LEMMA RequestHandover ==
    ASSUME HandoverInv, Shape', NEW a, NEW b, <<a, b>> \in Pair, HandleHistoryRequest(a, b)
    PROVE  HandoverInv'
<1> DEFINE m == Head(queue[<<a, b>>])  p == <<a, b>>  q == <<b, a>>
<1>0. Shape /\ Idle /\ pool \subseteq Pair BY DEF HandoverInv, Shape
<1>1. /\ a \in Node /\ b \in Node /\ m \in Frame /\ m.type = "request" /\ q \in pool /\ q \in Pair /\ q # p
      /\ m \in Range(queue[p]) /\ Proper(Rest(a, b), published)
      BY <1>0, ReadFacts DEF HandleHistoryRequest
<1>2. /\ p \in pool
      /\ \A x \in Pair : /\ Range(Rest(a, b)[x]) \subseteq Range(queue[x])
                         /\ Range(queue[x]) \subseteq Range(Rest(a, b)[x]) \cup {m}
      /\ \A x \in Pair \ {p} : Rest(a, b)[x] = queue[x]
      BY <1>0, RestKeeps DEF HandleHistoryRequest
<1>3. ObjectsOf(m) = {} BY <1>1 DEF ObjectsOf
<1>4. UNCHANGED <<net, store, published>> BY DEF HandleHistoryRequest
<1>5. CASE m.topic \notin ValidTopic
  <2>1. End({p}) /\ {p} \in SUBSET Pair BY <1>5 DEF HandleHistoryRequest
  <2> QED BY <1>4, <2>1, EndHandover
<1>6. CASE m.topic \in ValidTopic
  <2>1. UNCHANGED <<pool, asked, missed>> BY <1>6 DEF HandleHistoryRequest
  <2>2. PICK O \in SUBSET store[b], S \in SUBSET store[b] :
            /\ \/ queue' = Rest(a, b) /\ O = {}
               \/ /\ \A x \in Pair \ {q} : queue'[x] = Rest(a, b)[x]
                  /\ Range(queue'[q]) = Range(Rest(a, b)[q]) \cup {[type |-> "response", objects |-> O]}
            /\ silent' = [silent EXCEPT ![p] = @ \cup S]
            /\ Wanted(b, m) \subseteq O \cup S
    <3>1. CASE m.topic \in subscribed[b]
      <4>1. PICK O \in History(b, m) :
                /\ queue' \in Send(Rest(a, b), b, a, [type |-> "response", objects |-> O])
                /\ silent' = [silent EXCEPT ![p] = @ \cup CutOff(b, m, O)]
            BY <1>6, <3>1 DEF HandleHistoryRequest
      <4> DEFINE r == [type |-> "response", objects |-> O]
      <4>2. O \subseteq store[b] /\ Wanted(b, m) \subseteq O \cup CutOff(b, m, O)
            BY <1>0, <1>1, <4>1, HistoryFacts
      <4>3. store[b] \subseteq published /\ store[b] \subseteq Object BY <1>0, <1>1, ShapeObjects DEF Shape
      <4>4. r \in Frame /\ r.type \notin Flooded /\ ObjectsOf(r) \subseteq published
            BY <4>2, <4>3 DEF Frame, HistoryResponse, Flooded, ObjectsOf
      <4>5. /\ \A x \in Pair \ {q} : queue'[x] = Rest(a, b)[x]
            /\ Range(queue'[q]) = Range(Rest(a, b)[q]) \cup {r}
        <5> HIDE DEF r
        <5>1. queue' \in Send(Rest(a, b), b, a, r) BY <4>1 DEF r
        <5> QED BY <1>1, <4>4, <5>1, ProperSend
      <4>6. CutOff(b, m, O) \subseteq store[b] BY DEF CutOff, Wanted
      <4> QED BY <4>1, <4>2, <4>5, <4>6
    <3>2. CASE m.topic \notin subscribed[b]
      <4> DEFINE S == {o \in store[b] : o.topic = m.topic}
      <4>1. queue' = Rest(a, b) /\ silent' = [silent EXCEPT ![p] = @ \cup S]
            BY <1>6, <3>2 DEF HandleHistoryRequest
      <4>2. Wanted(b, m) \subseteq {} \cup S /\ S \subseteq store[b] BY DEF Wanted
      <4> HIDE DEF S
      <4> QED BY <4>1, <4>2
    <3> QED BY <3>1, <3>2
  <2> DEFINE r == [type |-> "response", objects |-> O]
  <2>3. ObjectsOf(r) = O BY DEF ObjectsOf
  <2> HIDE DEF m, r
  <2>4. \A x \in Pair \ {q} : queue'[x] = Rest(a, b)[x] BY <2>2
  <2>5. (queue'[q] = queue[q] /\ O = {}) \/ Range(queue'[q]) = Range(queue[q]) \cup {r}
        BY <1>1, <1>2, <2>2 DEF r
  <2>6. Carried(queue'[q]) = Carried(queue[q]) \cup O
    <3>1. CASE queue'[q] = queue[q] /\ O = {} BY <3>1
    <3>2. CASE Range(queue'[q]) = Range(queue[q]) \cup {r} BY <2>3, <3>2, CarriesMore
    <3> QED BY <2>5, <3>1, <3>2
  <2>7. Carried(queue'[p]) = Carried(queue[p])
    <3>1. Range(queue[p]) = Range(queue'[p]) \cup {m} BY <1>1, <1>2, <2>4
    <3> QED BY <1>3, <3>1, CarriesMore
  <2>8. \A x \in Pair \ {p, q} : queue'[x] = queue[x] BY <1>2, <2>4
  <2>9. \A x \in Pair : Carried(queue'[x]) \subseteq Carried(queue[x]) \cup store'[x[1]] \cup missed'[x[1]]
        BY <1>1, <1>4, <2>6, <2>7, <2>8
  <2>10. \A x \in Pair : Carried(queue[x]) \subseteq Carried(queue'[x]) \cup store'[x[2]] \cup missed'[x[2]]
        BY <1>1, <2>6, <2>7, <2>8
  <2>11. Range(queue[q]) \subseteq Range(queue'[q]) BY <2>5
  <2>12. /\ silent' = [x \in Pair |-> silent'[x]] /\ \A x \in Pair : silent[x] \subseteq silent'[x]
         /\ S \subseteq silent'[p]
         BY <1>2, <1>0, <2>2 DEF HandoverInv
  <2>13. ASSUME NEW x \in Pair, NEW o \in store[x[2]], Requested(x, o)
         PROVE  Requested(x, o)' \/ o \in Carried(queue'[<<x[2], x[1]>>]) \cup silent'[x]
    <3>1. PICK y \in Range(queue[x]) : y.type = "request" /\ y.topic = o.topic /\ y.since < o.time
          BY <2>13 DEF Requested
    <3>2. CASE y \in Range(queue'[x]) BY <3>1, <3>2 DEF Requested
    <3>3. CASE y \notin Range(queue'[x])
      <4>1. x = p BY <2>8, <2>11, <3>3
      <4>2. y = m BY <1>1, <1>2, <2>4, <3>3, <4>1
      <4>3. o \in store[b] /\ <<x[2], x[1]>> = q BY <4>1
      <4>4. o.time \in Nat /\ y.since \in Nat
        <5>1. o \in Object BY <1>0, <1>1, <4>3, ShapeObjects
        <5>2. y \in HistoryRequest BY <1>1, <3>1, <4>2, FrameKinds
        <5> QED BY <5>1, <5>2, ObjectAssumption DEF HistoryRequest
      <4>5. o \in Wanted(b, m) BY <3>1, <4>2, <4>3, <4>4 DEF Wanted
      <4>6. o \in O \cup silent'[p] BY <2>2, <2>12, <4>5
      <4> QED BY <2>6, <4>1, <4>3, <4>6
    <3> QED BY <3>2, <3>3
  <2>14. /\ \A x \in Pair \ pool : queue'[x] = queue[x]
         /\ \A x \in Pair : <<x[2], x[1]>> \notin pool => Range(queue[x]) \subseteq Range(queue'[x])
    <3>1. \A x \in Pair \ pool : x # p /\ x # q BY <1>1, <1>2
    <3>2. ASSUME NEW x \in Pair, x = p PROVE <<x[2], x[1]>> \in pool
      <4>1. x[1] = a /\ x[2] = b BY <3>2
      <4> QED BY <1>1, <4>1
    <3>3. \A x \in Pair \ {p} : Range(queue[x]) \subseteq Range(queue'[x]) BY <2>8, <2>11
    <3> QED BY <2>8, <3>1, <3>2, <3>3
  <2> QED BY <1>4, <2>1, <2>9, <2>10, <2>12, <2>13, <2>14, HandoverKept
<1> QED BY <1>5, <1>6

LEMMA StepHandover == HandoverInv /\ [Next]_vars => HandoverInv'
<1> SUFFICES ASSUME HandoverInv, [Next]_vars PROVE HandoverInv'
    OBVIOUS
<1>0. Shape /\ Shape' BY StepShape DEF HandoverInv
<1>1. ASSUME NEW p \in Pair, Enter(p[1], p[2]) PROVE HandoverInv' BY <1>0, <1>1, EnterHandover
<1>2. ASSUME NEW p \in Pair, Close(p[1], p[2]) PROVE HandoverInv'
  <2>1. {<<p[1], p[2]>>} \in SUBSET Pair BY PairFacts
  <2> QED BY <1>0, <1>2, <2>1, EndHandover DEF Close
<1>3. ASSUME NEW n \in Node, Restart(n) PROVE HandoverInv'
  <2>1. {p \in Pair : p[1] = n} \in SUBSET Pair OBVIOUS
  <2> QED BY <1>0, <1>3, <2>1, EndHandover DEF Restart
<1>4. ASSUME NEW p \in Pair, Receive(p[1], p[2]) PROVE HandoverInv'
  <2> DEFINE a == p[1]  b == p[2]
  <2>1. <<a, b>> \in Pair BY PairFacts
  <2> HIDE DEF a, b
  <2>2. CASE HandleChannel(a, b) BY <1>0, <2>1, <2>2, ObjectHandover DEF HandleChannel
  <2>3. CASE HandleForum(a, b) BY <1>0, <2>1, <2>3, ObjectHandover DEF HandleForum
  <2>4. CASE HandleHistoryRequest(a, b) BY <1>0, <2>1, <2>4, RequestHandover
  <2>5. CASE HandleHistoryResponse(a, b) BY <1>0, <2>1, <2>5, ResponseHandover
  <2>6. CASE HandleDelete(a, b) BY <1>0, <2>1, <2>6, DeleteHandover
  <2>7. CASE OverLimit(a, b) BY <1>0, <2>1, <2>7, OverLimitHandover
  <2> QED BY <1>4, <2>2, <2>3, <2>4, <2>5, <2>6, <2>7 DEF Receive, a, b
<1>5. ASSUME NEW o \in net.object, PublishChannel(o.sender, o) \/ PublishForum(o.sender, o) PROVE HandoverInv'
      BY <1>0, <1>5, PublishHandover
<1>6. ASSUME NEW n \in Node, NEW t \in Topic, Join(n, t) PROVE HandoverInv'
      BY <1>0, <1>6, HandoverStays DEF Join
<1>7. ASSUME NEW p \in Pair, NEW o \in Object, Delete(p[1], p[2], o) PROVE HandoverInv'
      BY <1>0, <1>7, SendDeleteHandover
<1>8. CASE UNCHANGED vars BY <1>0, <1>8, HandoverStays DEF vars, base
<1> QED BY <1>1, <1>2, <1>3, <1>4, <1>5, <1>6, <1>7, <1>8 DEF Next

\* connection.rs 34-66: between the answer to the history request and the live
\* flood no object is lost, however sessions, publications, floods, deletes and
\* answers overtake each other.
THEOREM NoGapAtHandover == Spec => []HandoverGapFree
<1>1. HandoverInv => HandoverGapFree BY DEF HandoverInv
<1> QED BY <1>1, InitHandover, StepHandover, PTL DEF Spec
=============================================================================
