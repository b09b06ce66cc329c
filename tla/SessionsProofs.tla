--------------------------- MODULE SessionsProofs ---------------------------
(* Sessions for any nodes, streams, frames and faults: the registry names   *)
(* the newest one, payloads keep their order without a gap, and a stop that *)
(* drained leaves no task.                                                  *)
EXTENDS Sessions, SequenceTheorems, FiniteSetTheorems, TLAPS

States == Handshaking \cup {"binding", "enter", "run", "done"}

\* The variables the registry is about.
RegistryTypes ==
    /\ dialed \in Seq(Node \X Node)
    /\ at \in [Ends -> States]
    /\ registry \in [Node -> [Node -> Conn \cup {None}]]
    /\ newest \in [Node -> [Node -> Conn \cup {None}]]
    /\ mode \in [Node -> {"up", "stopping", "drained", "expired"}]

\* A session that was registered is past its handshake, and stays there.
NewestBound ==
    \A n, p \in Node :
        newest[n][p] # None =>
            /\ newest[n][p] \in DOMAIN dialed
            /\ at[<<newest[n][p], n>>] \in {"enter", "run", "done"}

RegistryInv == RegistryTypes /\ NewestBound /\ RegistryNewest

\* So a task still at its handshake or its binding is none of them.
LEMMA PendingNotNewest ==
    ASSUME RegistryInv, NEW e \in Ends, at[e] \in Handshaking \cup {"binding"},
           NEW n \in Node, NEW p \in Node, newest[n][p] # None
    PROVE  <<newest[n][p], n>> # e /\ <<newest[n][p], n>> \in Ends
<1>1. newest[n][p] \in Conn BY DEF RegistryInv, RegistryTypes
<1>2. at[<<newest[n][p], n>>] \in {"enter", "run", "done"} BY DEF RegistryInv, NewestBound
<1>3. at[e] \notin {"enter", "run", "done"} BY DEF Handshaking
<1> QED BY <1>1, <1>2, <1>3 DEF Ends

LEMMA InitRegistry == Init => RegistryInv
BY DEF Init, RegistryInv, RegistryTypes, NewestBound, RegistryNewest, States, Handshaking, Ends

\* Tasks that end, and registrations that are left alone, keep the invariant.
LEMMA DropKeepsRegistry ==
    ASSUME RegistryInv, NEW E, Drop(E), UNCHANGED <<dialed, registry, newest, mode>>
    PROVE  RegistryInv'
<1>1. at' \in [Ends -> States] /\ \A e \in Ends : at'[e] = at[e] \/ at'[e] = "done"
      BY DEF Drop, RegistryInv, RegistryTypes, States
<1>2. \A n, p \in Node : newest[n][p] # None => <<newest[n][p], n>> \in Ends
      BY DEF RegistryInv, RegistryTypes, Ends
<1> QED BY <1>1, <1>2 DEF RegistryInv, RegistryTypes, NewestBound, RegistryNewest

\* A session that ends takes away no entry but its own.
LEMMA FinishKeepsRegistry ==
    ASSUME RegistryInv, NEW e \in Ends, Finish(e)
    PROVE  RegistryInv'
<1> DEFINE c == e[1]  n == e[2]
<1>1. c \in Conn /\ n \in Node /\ e = <<c, n>> BY DEF Ends
<1>2. /\ at' \in [Ends -> States] /\ at'[e] = "done"
      /\ \A f \in Ends : at'[f] = at[f] \/ at'[f] = "done"
      BY DEF Finish, Drop, RegistryInv, RegistryTypes, States
<1>3. /\ registry' \in [Node -> [Node -> Conn \cup {None}]]
      /\ \A m, p \in Node : registry'[m][p] = registry[m][p] \/ (m = n /\ registry[m][p] = c)
      BY <1>1 DEF Finish, Remove, RegistryInv, RegistryTypes
<1>4. \A m, p \in Node : newest[m][p] # None => <<newest[m][p], m>> \in Ends
      BY DEF RegistryInv, RegistryTypes, Ends
<1>5. UNCHANGED <<dialed, newest, mode>> BY DEF Finish
<1>6. NewestBound' BY <1>2, <1>4, <1>5 DEF RegistryInv, NewestBound
<1>7. ASSUME NEW m \in Node, NEW p \in Node, mode[m] = "up", newest[m][p] # None,
             at'[<<newest[m][p], m>>] \in {"enter", "run"}
      PROVE  registry'[m][p] = newest[m][p]
  <2>1. at[<<newest[m][p], m>>] \in {"enter", "run"} BY <1>2, <1>4, <1>7
  <2>2. registry[m][p] = newest[m][p] BY <1>7, <2>1 DEF RegistryInv, RegistryNewest
  <2>3. ~ (m = n /\ newest[m][p] = c) BY <1>1, <1>2, <1>7
  <2> QED BY <1>3, <2>2, <2>3
<1>8. RegistryNewest' BY <1>5, <1>7 DEF RegistryNewest
<1> QED BY <1>2, <1>3, <1>5, <1>6, <1>8 DEF RegistryInv, RegistryTypes

\* A new stream is none of those that were registered.
LEMMA DialKeepsRegistry ==
    ASSUME RegistryInv, NEW x \in Node, NEW y \in Node, Dial(x, y)
    PROVE  RegistryInv'
<1> DEFINE c == Len(dialed) + 1
<1>1. dialed' = Append(dialed, <<x, y>>) /\ at' = [at EXCEPT ![<<c, x>>] = "ee", ![<<c, y>>] = "e"]
      /\ UNCHANGED <<registry, newest, mode>>
      BY DEF Dial, nodes
<1>2. dialed' \in Seq(Node \X Node) /\ DOMAIN dialed \subseteq DOMAIN dialed' /\ c \notin DOMAIN dialed
      BY <1>1 DEF RegistryInv, RegistryTypes
<1>3. at' \in [Ends -> States] BY <1>1 DEF RegistryInv, RegistryTypes, States, Handshaking
<1>4. \A n, p \in Node : newest[n][p] # None =>
          newest[n][p] \in DOMAIN dialed /\ at'[<<newest[n][p], n>>] = at[<<newest[n][p], n>>]
  <2> SUFFICES ASSUME NEW n \in Node, NEW p \in Node, newest[n][p] # None
               PROVE  newest[n][p] \in DOMAIN dialed /\ at'[<<newest[n][p], n>>] = at[<<newest[n][p], n>>]
      OBVIOUS
  <2>1. newest[n][p] \in DOMAIN dialed /\ <<newest[n][p], n>> \in Ends
        BY DEF RegistryInv, RegistryTypes, NewestBound, Ends
  <2>2. newest[n][p] # c BY <1>2, <2>1
  <2> QED BY <1>1, <2>1, <2>2 DEF RegistryInv, RegistryTypes
<1>5. NewestBound'
  <2> SUFFICES ASSUME NEW n \in Node, NEW p \in Node, newest[n][p] # None
               PROVE  newest[n][p] \in DOMAIN dialed' /\ at'[<<newest[n][p], n>>] \in {"enter", "run", "done"}
      BY <1>1 DEF NewestBound
  <2>1. newest[n][p] \in DOMAIN dialed /\ at'[<<newest[n][p], n>>] = at[<<newest[n][p], n>>] BY <1>4
  <2>2. at[<<newest[n][p], n>>] \in {"enter", "run", "done"} BY DEF RegistryInv, NewestBound
  <2> QED BY <1>2, <2>1, <2>2
<1>6. RegistryNewest' BY <1>1, <1>4 DEF RegistryInv, RegistryNewest
<1>7. RegistryTypes' BY <1>1, <1>2, <1>3 DEF RegistryInv, RegistryTypes
<1> QED BY <1>5, <1>6, <1>7 DEF RegistryInv

\* A task that goes on does not become another session's.
LEMMA HandshakeKeepsRegistry ==
    ASSUME RegistryInv, NEW e \in Ends, Handshake(e)
    PROVE  RegistryInv'
<1>1. at[e] \in Handshaking /\ UNCHANGED <<dialed, registry, newest, mode>>
      /\ at' = [at EXCEPT ![e] = IF @ = "e" THEN "s" ELSE "binding"]
      BY DEF Handshake, nodes
<1>2. at' \in [Ends -> States] BY <1>1 DEF RegistryInv, RegistryTypes, States, Handshaking
<1>3. \A n, p \in Node : newest[n][p] # None => at'[<<newest[n][p], n>>] = at[<<newest[n][p], n>>]
      BY <1>1, PendingNotNewest DEF RegistryInv, RegistryTypes
<1> QED BY <1>1, <1>2, <1>3 DEF RegistryInv, RegistryTypes, NewestBound, RegistryNewest

LEMMA BindKeepsRegistry ==
    ASSUME RegistryInv, NEW e \in Ends, Bind(e)
    PROVE  RegistryInv'
<1> DEFINE c == e[1]  n == e[2]  p == Other(c, n)
<1>1. c \in Conn /\ n \in Node /\ e = <<c, n>> /\ at[e] = "binding" /\ c \in DOMAIN dialed
      BY DEF Ends, Bind, Has
<1>2. CASE Fail(e) BY <1>2, DropKeepsRegistry DEF Fail, nodes
<1>3. CASE /\ at' = [at EXCEPT ![e] = "enter"]
           /\ registry' = [registry EXCEPT ![n][p] = c]
           /\ newest' = [newest EXCEPT ![n][p] = c]
           /\ UNCHANGED <<dialed, mode>>
  <2>1. RegistryTypes' BY <1>1, <1>3 DEF RegistryInv, RegistryTypes, States
  <2>2. \A m, q \in Node : newest[m][q] # None => <<newest[m][q], m>> # e /\ <<newest[m][q], m>> \in Ends
        BY <1>1, PendingNotNewest
  <2>3. \A m, q \in Node :
            \/ newest'[m][q] = c /\ registry'[m][q] = c /\ m = n
            \/ newest'[m][q] = newest[m][q] /\ registry'[m][q] = registry[m][q]
        BY <1>1, <1>3 DEF RegistryInv, RegistryTypes
  <2>4. at'[e] = "enter" /\ \A f \in Ends : f # e => at'[f] = at[f]
        BY <1>3 DEF RegistryInv, RegistryTypes
  <2>5. NewestBound' /\ RegistryNewest'
        BY <1>1, <1>3, <2>2, <2>3, <2>4 DEF RegistryInv, NewestBound, RegistryNewest
  <2> QED BY <2>1, <2>5 DEF RegistryInv
<1> QED BY <1>2, <1>3 DEF Bind

LEMMA EnterKeepsRegistry ==
    ASSUME RegistryInv, NEW e \in Ends, Enter(e)
    PROVE  RegistryInv'
<1>1. CASE Fail(e) BY <1>1, DropKeepsRegistry DEF Fail, nodes
<1>2. CASE at[e] = "enter" /\ at' = [at EXCEPT ![e] = "run"] /\ UNCHANGED <<dialed, registry, newest, mode>>
  <2>1. at' \in [Ends -> States] BY <1>2 DEF RegistryInv, RegistryTypes, States
  <2>2. \A f \in Ends : at'[f] = at[f] \/ (at[f] = "enter" /\ at'[f] = "run")
        BY <1>2 DEF RegistryInv, RegistryTypes
  <2>3. \A n, p \in Node : newest[n][p] # None => <<newest[n][p], n>> \in Ends
        BY DEF RegistryInv, RegistryTypes, Ends
  <2> QED BY <1>2, <2>1, <2>2, <2>3 DEF RegistryInv, RegistryTypes, NewestBound, RegistryNewest
<1> QED BY <1>1, <1>2 DEF Enter, nodes

\* A restarted node has no session; one that shuts down is no longer up.
LEMMA NodeKeepsRegistry ==
    ASSUME RegistryInv, NEW n \in Node,
           Restart(n) \/ Shutdown(n) \/ Exit(n, "drained") \/ Exit(n, "expired")
    PROVE  RegistryInv'
<1>1. CASE Restart(n)
  <2>1. at' \in [Ends -> States] /\ \A e \in Ends : at'[e] = at[e] \/ at'[e] = "done"
        BY <1>1 DEF Restart, Drop, RegistryInv, RegistryTypes, States
  <2> DEFINE none == [p \in Node |-> None]
  <2>0. /\ UNCHANGED <<dialed, mode>>
        /\ registry' = [registry EXCEPT ![n] = none] /\ newest' = [newest EXCEPT ![n] = none]
        BY <1>1 DEF Restart
  <2>2. registry' \in [Node -> [Node -> Conn \cup {None}]] /\ newest' \in [Node -> [Node -> Conn \cup {None}]]
        BY <2>0 DEF RegistryInv, RegistryTypes
  <2>3. \A m, p \in Node : newest'[m][p] = None
                           \/ (newest'[m][p] = newest[m][p] /\ registry'[m][p] = registry[m][p])
    <3> TAKE m \in Node, p \in Node
    <3>1. CASE m = n
      <4>1. newest'[n] = none BY <2>0 DEF RegistryInv, RegistryTypes
      <4>2. newest'[m] = none BY <3>1, <4>1
      <4>3. none[p] = None OBVIOUS
      <4> QED BY <4>2, <4>3
    <3>2. CASE m # n BY <2>0, <3>2 DEF RegistryInv, RegistryTypes
    <3> QED BY <3>1, <3>2
  <2>4. \A m, p \in Node : newest[m][p] # None => <<newest[m][p], m>> \in Ends
        BY DEF RegistryInv, RegistryTypes, Ends
  <2> QED BY <2>0, <2>1, <2>2, <2>3, <2>4 DEF RegistryInv, RegistryTypes, NewestBound, RegistryNewest
<1>2. CASE Shutdown(n)
  <2>1. /\ UNCHANGED <<dialed, at, newest>> /\ mode' = [mode EXCEPT ![n] = "stopping"]
        /\ registry' = [registry EXCEPT ![n] = [p \in Node |-> None]]
        BY <1>2 DEF Shutdown
  <2>2. RegistryTypes' BY <2>1 DEF RegistryInv, RegistryTypes
  <2>3. \A m \in Node : mode'[m] = "up" => m # n /\ mode[m] = "up" /\ registry'[m] = registry[m]
        BY <2>1 DEF RegistryInv, RegistryTypes
  <2> QED BY <2>1, <2>2, <2>3 DEF RegistryInv, NewestBound, RegistryNewest
<1>3. ASSUME NEW how \in {"drained", "expired"}, Exit(n, how) PROVE RegistryInv'
  <2>1. at' \in [Ends -> States] /\ \A e \in Ends : at'[e] = at[e] \/ at'[e] = "done"
        BY <1>3 DEF Exit, Drop, RegistryInv, RegistryTypes, States
  <2>2. UNCHANGED <<dialed, registry, newest>> /\ mode' = [mode EXCEPT ![n] = how] BY <1>3 DEF Exit
  <2>3. \A m \in Node : mode'[m] = "up" => mode[m] = "up"
        BY <2>2 DEF RegistryInv, RegistryTypes
  <2>4. \A m, p \in Node : newest[m][p] # None => <<newest[m][p], m>> \in Ends
        BY DEF RegistryInv, RegistryTypes, Ends
  <2>5. mode' \in [Node -> {"up", "stopping", "drained", "expired"}]
        BY <2>2 DEF RegistryInv, RegistryTypes
  <2> QED BY <2>1, <2>2, <2>3, <2>4, <2>5 DEF RegistryInv, RegistryTypes, NewestBound, RegistryNewest
<1> QED BY <1>1, <1>2, <1>3

\* The steps that touch none of the registry's variables.
LEMMA OtherKeepsRegistry ==
    ASSUME RegistryInv, UNCHANGED <<dialed, at, registry, newest, mode>>
    PROVE  RegistryInv'
BY DEF RegistryInv, RegistryTypes, NewestBound, RegistryNewest

LEMMA StepRegistry == RegistryInv /\ [Next]_vars => RegistryInv'
<1> SUFFICES ASSUME RegistryInv, [Next]_vars PROVE RegistryInv'
    OBVIOUS
<1>1. ASSUME NEW x \in Node, NEW y \in Node, Dial(x, y) PROVE RegistryInv'
      BY <1>1, DialKeepsRegistry
<1>2. ASSUME NEW e \in Ends, Read(e) PROVE RegistryInv'
  <2>1. CASE Fail(e) BY <2>1, DropKeepsRegistry DEF Fail, nodes
  <2>2. CASE ReadHeader(e) BY <2>2, OtherKeepsRegistry DEF ReadHeader, nodes
  <2>3. CASE ReadBody(e) BY <2>3, OtherKeepsRegistry, FinishKeepsRegistry DEF ReadBody, nodes
  <2> QED BY <1>2, <2>1, <2>2, <2>3, HandshakeKeepsRegistry, BindKeepsRegistry, EnterKeepsRegistry,
             FinishKeepsRegistry DEF Read, ReadLost, Rekey, ReadEnd, HandshakeTimeout
<1>3. ASSUME NEW e \in Ends, WriteOut(e) \/ IdleTimeout(e) \/ Idle(e) PROVE RegistryInv'
  <2>1. CASE WriteOut(e) BY <2>1, OtherKeepsRegistry, FinishKeepsRegistry DEF WriteOut, nodes
  <2> QED BY <1>3, <2>1, FinishKeepsRegistry DEF IdleTimeout, Idle
<1>4. ASSUME NEW m \in net.send, TrySend(m[1], m[2], m) PROVE RegistryInv'
      BY <1>4, OtherKeepsRegistry DEF TrySend, nodes
<1>5. ASSUME NEW c \in Conn, Lose(c) PROVE RegistryInv'
      BY <1>5, OtherKeepsRegistry DEF Lose, nodes
<1>6. ASSUME NEW n \in Node, Restart(n) \/ Shutdown(n) \/ Drained(n) \/ Expire(n) PROVE RegistryInv'
      BY <1>6, NodeKeepsRegistry DEF Drained, Expire
<1>7. CASE UNCHANGED vars BY <1>7, OtherKeepsRegistry DEF vars, nodes
<1> QED BY <1>1, <1>2, <1>3, <1>4, <1>5, <1>6, <1>7 DEF Next

\* pool.rs insert and remove: whatever sessions cross, replace one another and
\* end, on any node and for any peer, what the registry names is the session
\* registered last, for as long as its task runs.
THEOREM RegistryNamesNewest == Spec => []RegistryNewest
<1>1. RegistryInv => RegistryNewest BY DEF RegistryInv
<1> QED BY <1>1, InitRegistry, StepRegistry, PTL DEF Spec

----------------------------------------------------------------------------
Kinds == {"e", "ee", "s", "binding", "gossip"}
Wired == net.send \cup {Frame(k) : k \in Kinds}

\* The variables the traffic is about; a task has sent one frame before its
\* first list, and has room for the frame whose length it read.
TrafficTypes ==
    /\ net \in Network
    /\ dialed \in Seq(net.dial) /\ Len(dialed) <= MaxDials
    /\ at \in [Ends -> States]
    /\ stream \in [Conn -> {"open", "closed", "stalled"}]
    /\ wire \in [Ends -> Seq(Wired)]
    /\ reading \in [Ends -> {"whole", "header", "lost"}]
    /\ queue \in [Ends -> Seq(net.send)] /\ \A e \in Ends : Len(queue[e]) <= QueueCap
    /\ accepted \in [Ends -> Seq(net.send)] /\ arrived \in [Ends -> Seq(net.send)]
    /\ sent \in [Ends -> 0..MaxFrames] /\ received \in [Ends -> 0..MaxFrames]
    /\ \A e \in Ends :
          /\ at[e] \in {"binding", "enter"} => sent[e] = 1
          /\ reading[e] = "header" => Running(e) /\ wire[e] # <<>> /\ received[e] < MaxFrames

\* What no stream was opened for.
Fresh(e) ==
    /\ Gone(e) /\ wire[e] = <<>> /\ reading[e] = "whole" /\ queue[e] = <<>>
    /\ accepted[e] = <<>> /\ arrived[e] = <<>>

\* The order of a session's frames: what comes when, what is awaited, and what
\* was sent at most (an acceptor sends nothing before the answer to "e").
Rank(f) ==
    CASE f = Frame("e") -> 1 [] f = Frame("ee") -> 2 [] f = Frame("s") -> 2
      [] f = Frame("binding") -> 3 [] f = Frame("gossip") -> 4 [] OTHER -> 5

Awaited(s) == CASE s = "e" -> 1 [] s \in {"ee", "s"} -> 2 [] s = "binding" -> 3 [] OTHER -> 4

Written(s) == CASE s \in {"e", "ee"} -> 1 [] s = "s" -> 2 [] s \in {"binding", "enter"} -> 3 [] OTHER -> 5

Ordered(w) == \A i, j \in DOMAIN w : i < j => Rank(w[i]) < Rank(w[j]) \/ Rank(w[j]) = 5

\* Frames from rank low to rank high, in their order.
Between(w, low, high) == Ordered(w) /\ \A i \in DOMAIN w : Rank(w[i]) \in low..high

\* On its way to e is what it awaits and what the other end has sent.
WireAt(e) ==
    /\ ~ Has(e) => Fresh(e)
    /\ Has(e) => /\ Between(wire[e], Awaited(at[e]), Written(at[Opposite(e)]))
                 /\ Gone(e) => wire[e] = <<>>
                 /\ Gone(e) \/ Awaited(at[e]) <= Written(at[Opposite(e)]) + 1

\* What arrived of the payloads acc, then what is on its way after the first h
\* frames, then what is queued: acc without a gap, and, where nothing was cut
\* off, all of it.
Flow(acc, arr, w, h, q, intact, payloads) ==
    /\ h \in 0..Len(w)
    /\ Len(arr) + Len(w) - h <= Len(acc)
    /\ \A i \in 1..h : w[i] \notin payloads
    /\ \A i \in h + 1..Len(w) : w[i] = acc[Len(arr) + i - h]
    /\ \A i \in 1..Len(arr) : arr[i] = acc[i]
    /\ intact => /\ Len(arr) + Len(w) - h + Len(q) = Len(acc)
                 /\ \A i \in 1..Len(q) : q[i] = acc[Len(arr) + Len(w) - h + i]

Intact(e) == stream[e[1]] = "open" /\ ~ Gone(e) /\ ~ Gone(Opposite(e))

FlowAt(e) ==
    Has(e) => \E h \in Nat : Flow(accepted[Opposite(e)], arrived[e], wire[e], h, queue[Opposite(e)],
                                  Intact(e), net.send)

TrafficInv == TrafficTypes /\ \A e \in Ends : WireAt(e) /\ FlowAt(e)

\* The steps of a flow: a payload is queued,
LEMMA FlowQueue ==
    ASSUME NEW S, NEW W, NEW acc \in Seq(S), NEW arr \in Seq(S), NEW w \in Seq(W), NEW q \in Seq(S),
           NEW h, NEW intact, Flow(acc, arr, w, h, q, intact, S), NEW m \in S
    PROVE  Flow(Append(acc, m), arr, w, h, Append(q, m), intact, S)
<1> DEFINE a == Append(acc, m)  p == Append(q, m)  n == Len(arr) + Len(w) - h
<1>1. /\ Len(a) = Len(acc) + 1 /\ a[Len(a)] = m /\ \A i \in 1..Len(acc) : a[i] = acc[i]
      /\ Len(p) = Len(q) + 1 /\ p[Len(p)] = m /\ \A i \in 1..Len(q) : p[i] = q[i]
      OBVIOUS
<1>2. h \in 0..Len(w) /\ n \in 0..Len(acc) BY DEF Flow
<1>3. \A i \in h + 1..Len(w) : w[i] = a[Len(arr) + i - h] BY <1>1, <1>2 DEF Flow
<1>4. \A i \in 1..Len(arr) : arr[i] = a[i] BY <1>1, <1>2 DEF Flow
<1>5. ASSUME intact PROVE n + Len(p) = Len(a) /\ \A i \in 1..Len(p) : p[i] = a[n + i]
  <2>0. Len(q) \in Nat /\ Len(acc) \in Nat OBVIOUS
  <2> HIDE DEF a, p, n
  <2>1. n + Len(q) = Len(acc) /\ \A i \in 1..Len(q) : q[i] = acc[n + i] BY <1>5 DEF Flow, n
  <2>2. ASSUME NEW i \in 1..Len(p) PROVE p[i] = a[n + i]
    <3>1. CASE i \in 1..Len(q)
      <4>1. n + i \in 1..Len(acc) BY <1>2, <2>0, <2>1, <3>1
      <4> QED BY <1>1, <2>1, <3>1, <4>1
    <3>2. CASE i = Len(p)
      <4>0. i = Len(q) + 1 /\ Len(a) = Len(acc) + 1 /\ n \in Nat BY <1>1, <1>2, <2>0, <3>2
      <4>3. n + (Len(q) + 1) = (n + Len(q)) + 1 BY <2>0, <4>0
      <4>1. n + i = Len(a) BY <2>1, <4>0, <4>3
      <4>2. p[i] = m /\ a[n + i] = m BY <1>1, <3>2, <4>1
      <4> QED BY <4>2
    <3> QED BY <1>1, <2>0, <3>1, <3>2
  <2> QED BY <1>1, <1>2, <2>0, <2>1, <2>2
<1>6. n <= Len(a) /\ \A i \in 1..h : w[i] \notin S BY <1>1, <1>2 DEF Flow
<1> HIDE DEF a, p
<1>7. Flow(a, arr, w, h, p, intact, S) BY <1>2, <1>3, <1>4, <1>5, <1>6 DEF Flow
<1> QED BY <1>7 DEF a, p

\* written,
LEMMA FlowWrite ==
    ASSUME NEW S, NEW W, NEW acc \in Seq(S), NEW arr \in Seq(S), NEW w \in Seq(W), NEW q \in Seq(S),
           NEW h, Flow(acc, arr, w, h, q, TRUE, S), q # <<>>
    PROVE  Flow(acc, arr, Append(w, Head(q)), h, Tail(q), TRUE, S)
<1> DEFINE v == Append(w, Head(q))  p == Tail(q)  n == Len(arr) + Len(w) - h
<1>1. /\ Len(v) = Len(w) + 1 /\ v[Len(v)] = q[1] /\ \A i \in 1..Len(w) : v[i] = w[i]
      /\ Len(p) = Len(q) - 1 /\ Len(p) \in Nat /\ \A i \in 1..Len(p) : p[i] = q[i + 1]
      OBVIOUS
<1>2. h \in 0..Len(w) /\ n \in Nat /\ n + Len(q) = Len(acc) /\ \A i \in 1..Len(q) : q[i] = acc[n + i]
      BY DEF Flow
<1>3. 1 \in 1..Len(q) /\ \A i \in 1..Len(p) : i + 1 \in 1..Len(q) /\ (n + 1) + i = n + (i + 1)
      BY <1>1, <1>2
<1>4. v[Len(v)] = acc[n + 1] /\ \A i \in 1..Len(p) : p[i] = acc[(n + 1) + i]
      BY <1>1, <1>2, <1>3
<1>5. \A i \in 1..h : v[i] \notin S BY <1>1, <1>2 DEF Flow
<1>6. \A i \in h + 1..Len(v) : v[i] = acc[Len(arr) + i - h]
  <2> TAKE i \in h + 1..Len(v)
  <2>1. CASE i = Len(v) BY <1>1, <1>2, <1>4, <2>1
  <2>2. CASE i \in h + 1..Len(w) BY <1>1, <1>2, <2>2 DEF Flow
  <2> QED BY <1>1, <1>2, <2>1, <2>2
<1>7. Len(arr) + Len(v) - h = n + 1 BY <1>1, <1>2
<1>8. h \in 0..Len(v) /\ n + 1 + Len(p) = Len(acc) /\ n + 1 <= Len(acc)
  <2>1. Len(v) = Len(w) + 1 /\ Len(p) = Len(q) - 1 /\ Len(p) \in Nat /\ Len(w) \in Nat /\ Len(q) \in Nat
        BY <1>1
  <2>2. h \in 0..Len(w) /\ n \in Nat /\ n + Len(q) = Len(acc) BY <1>2
  <2> HIDE DEF v, p, n
  <2>3. \A k \in Nat : 0..k \subseteq 0..k + 1 OBVIOUS
  <2>4. h \in 0..Len(v) BY <2>1, <2>2, <2>3
  <2>5. \A j, k \in Nat : k = j - 1 => n + 1 + k = n + j /\ n + 1 <= n + j BY <2>2
  <2>6. n + 1 + Len(p) = n + Len(q) /\ n + 1 <= n + Len(q) BY <2>1, <2>5
  <2> QED BY <2>2, <2>4, <2>6
<1>9. \A i \in 1..Len(arr) : arr[i] = acc[i] BY DEF Flow
<1> HIDE DEF v, p, n
<1>10. /\ Len(arr) + Len(v) - h <= Len(acc)
       /\ Len(arr) + Len(v) - h + Len(p) = Len(acc)
       /\ \A i \in 1..Len(p) : p[i] = acc[Len(arr) + Len(v) - h + i]
       BY <1>4, <1>7, <1>8
<1>11. Flow(acc, arr, v, h, p, TRUE, S) BY <1>5, <1>6, <1>8, <1>9, <1>10 DEF Flow
<1> QED BY <1>11 DEF v, p

\* or lost with its stream;
LEMMA FlowCut ==
    ASSUME NEW S, NEW W, NEW acc \in Seq(S), NEW arr \in Seq(S), NEW w \in Seq(W), NEW q, NEW p,
           NEW h, NEW intact, Flow(acc, arr, w, h, q, intact, S), NEW still, still => intact /\ p = q
    PROVE  Flow(acc, arr, w, h, p, still, S) /\ (~ still => Flow(acc, arr, <<>>, 0, p, still, S))
BY DEF Flow

\* it arrives;
LEMMA FlowArrive ==
    ASSUME NEW S, NEW W, NEW acc \in Seq(S), NEW arr \in Seq(S), NEW w \in Seq(W), NEW q \in Seq(S),
           NEW h, NEW intact, Flow(acc, arr, w, h, q, intact, S), w # <<>>, Head(w) \in S
    PROVE  Flow(acc, Append(arr, Head(w)), Tail(w), h, q, intact, S)
<1> DEFINE a == Append(arr, Head(w))  v == Tail(w)
<1>1. h = 0 BY DEF Flow
<1>2. /\ Len(a) = Len(arr) + 1 /\ a[Len(a)] = w[1] /\ \A i \in 1..Len(arr) : a[i] = arr[i]
      /\ Len(v) = Len(w) - 1 /\ Len(v) \in Nat /\ \A i \in 1..Len(v) : v[i] = w[i + 1]
      OBVIOUS
<1>3. \A i \in 1..Len(w) : w[i] = acc[Len(arr) + i] BY <1>1 DEF Flow
<1>4. \A i \in 1..Len(v) : v[i] = acc[Len(a) + i]
  <2> TAKE i \in 1..Len(v)
  <2>1. i + 1 \in 1..Len(w) /\ Len(arr) + (i + 1) = Len(a) + i BY <1>2
  <2> QED BY <1>2, <1>3, <2>1
<1>5. \A i \in 1..Len(a) : a[i] = acc[i]
  <2> TAKE i \in 1..Len(a)
  <2>1. CASE i = Len(a) BY <1>2, <1>3, <2>1
  <2>2. CASE i \in 1..Len(arr) BY <1>2, <2>2 DEF Flow
  <2> QED BY <1>2, <2>1, <2>2
<1>6. Len(a) + Len(v) = Len(arr) + Len(w) /\ Len(a) \in Nat BY <1>2
<1>7. /\ Len(arr) + Len(w) <= Len(acc)
      /\ intact => /\ Len(arr) + Len(w) + Len(q) = Len(acc)
                   /\ \A i \in 1..Len(q) : q[i] = acc[Len(arr) + Len(w) + i]
      BY <1>1 DEF Flow
<1> HIDE DEF a, v
<1>8. Flow(acc, a, v, 0, q, intact, S)
  <2>1. 0 \in 0..Len(v) /\ 1..0 = {} /\ Len(a) + Len(v) - 0 = Len(arr) + Len(w) BY <1>2, <1>6
  <2>2. \A i \in 0 + 1..Len(v) : v[i] = acc[Len(a) + i - 0] BY <1>2, <1>4, <1>6
  <2> QED BY <1>5, <1>7, <2>1, <2>2 DEF Flow
<1> QED BY <1>1, <1>8 DEF a, v

\* and other frames come and go.
LEMMA FlowSkip ==
    ASSUME NEW S, NEW W, NEW acc \in Seq(S), NEW arr \in Seq(S), NEW w \in Seq(W), NEW q \in Seq(S),
           NEW h, NEW intact, Flow(acc, arr, w, h, q, intact, S), w # <<>>, Head(w) \notin S
    PROVE  Flow(acc, arr, Tail(w), h - 1, q, intact, S)
<1>1. h > 0
  <2>1. CASE h = 0
    <3>1. w[1] = acc[Len(arr) + 1] /\ Len(arr) + 1 \in 1..Len(acc) BY <2>1 DEF Flow
    <3> QED BY <3>1
  <2> QED BY <2>1 DEF Flow
<1> DEFINE v == Tail(w)  k == h - 1
<1>2. Len(v) = Len(w) - 1 /\ Len(v) \in Nat /\ \A i \in 1..Len(v) : v[i] = w[i + 1] OBVIOUS
<1>0. h \in 1..Len(w) /\ Len(w) \in Nat BY <1>1 DEF Flow
<1>3. k \in 0..Len(v) /\ Len(v) - k = Len(w) - h BY <1>0, <1>2
<1>4. \A i \in 1..k : v[i] \notin S
  <2> TAKE i \in 1..k
  <2>1. i \in 1..Len(v) /\ i + 1 \in 1..h BY <1>0, <1>2
  <2> QED BY <1>2, <2>1 DEF Flow
<1>5. \A i \in k + 1..Len(v) : v[i] = acc[Len(arr) + i - k]
  <2> TAKE i \in k + 1..Len(v)
  <2>1. i \in 1..Len(v) /\ i + 1 \in h + 1..Len(w) /\ Len(arr) + (i + 1) - h = Len(arr) + i - k
        BY <1>0, <1>2
  <2> QED BY <1>2, <2>1 DEF Flow
<1>6. Len(arr) + Len(v) - k = Len(arr) + Len(w) - h BY <1>2, <1>3
<1> HIDE DEF v, k
<1>7. Flow(acc, arr, v, k, q, intact, S) BY <1>3, <1>4, <1>5, <1>6 DEF Flow
<1> QED BY <1>7 DEF v, k

LEMMA FlowFrames ==
    ASSUME NEW S, NEW W, NEW acc \in Seq(S), NEW arr \in Seq(S), NEW w \in Seq(W), NEW q \in Seq(S),
           NEW h, NEW intact, Flow(acc, arr, w, h, q, intact, S), \A i \in 1..Len(w) : w[i] \notin S,
           NEW v \in Seq(W), \A i \in 1..Len(v) : v[i] \notin S
    PROVE  Flow(acc, arr, w \o v, Len(w) + Len(v), q, intact, S)
<1>1. h = Len(w)
  <2>1. CASE h < Len(w)
    <3>1. w[Len(w)] = acc[Len(arr) + Len(w) - h] /\ Len(arr) + Len(w) - h \in 1..Len(acc) BY <2>1 DEF Flow
    <3> QED BY <2>1, <3>1 DEF Flow
  <2> QED BY <2>1 DEF Flow
<1>2. Len(w \o v) = Len(w) + Len(v) /\ \A i \in 1..Len(w) + Len(v) : (w \o v)[i] \notin S
  <2>1. \A i \in 1..Len(w \o v) : (w \o v)[i] = IF i <= Len(w) THEN w[i] ELSE v[i - Len(w)]
        BY ConcatProperties
  <2> QED BY <2>1, ConcatProperties
<1> QED BY <1>1, <1>2 DEF Flow

\* The two ends of a stream.
LEMMA OppositeEnd ==
    ASSUME TrafficTypes, NEW e \in Ends, Has(e)
    PROVE  /\ Opposite(e) \in Ends /\ Has(Opposite(e)) /\ Opposite(Opposite(e)) = e
           /\ Opposite(e) # e /\ Opposite(e)[1] = e[1] /\ e = <<e[1], e[2]>>
<1>1. dialed[e[1]] \in {p \in Node \X Node : p[1] # p[2]}
      BY NetworkAssumption DEF TrafficTypes, Deployment, Has
<1> QED BY <1>1 DEF Opposite, Other, Has, Ends

\* Frames and payloads have their ranks.
LEMMA RankRange == ASSUME NEW f PROVE Rank(f) \in 1..5
BY DEF Rank

LEMMA FrameRanks ==
    /\ Rank(Frame("e")) = 1 /\ Rank(Frame("ee")) = 2 /\ Rank(Frame("s")) = 2
    /\ Rank(Frame("binding")) = 3 /\ Rank(Frame("gossip")) = 4
<1>1. \A k, l \in Kinds : Frame(k) = Frame(l) => k = l BY DEF Frame, Kinds
<1>2. Frame("ee") # Frame("e") /\ Frame("s") # Frame("e") /\ Frame("s") # Frame("ee") BY <1>1 DEF Kinds
<1>3. \A k \in {"e", "ee", "s"} : Frame("binding") # Frame(k) /\ Frame("gossip") # Frame(k)
      BY <1>1 DEF Kinds
<1>4. Frame("gossip") # Frame("binding") BY <1>1 DEF Kinds
<1> QED BY <1>2, <1>3, <1>4 DEF Rank

LEMMA PayloadRank ==
    ASSUME net \in Network, NEW m \in net.send
    PROVE  Rank(m) = 5 /\ \A k : m # Frame(k)
<1>1. m \in Payload BY NetworkAssumption DEF Deployment
<1>2. Len(m) = 3 BY <1>1 DEF Payload
<1>3. \A k : Len(Frame(k)) = 1 BY DEF Frame
<1>4. \A k : m # Frame(k) BY <1>2, <1>3
<1> QED BY <1>4 DEF Rank

\* What is left after the first frame comes after it;
LEMMA BetweenTail ==
    ASSUME NEW W, NEW w \in Seq(W), w # <<>>, NEW low \in Nat, NEW high \in Nat, Between(w, low, high)
    PROVE  /\ Between(Tail(w), low, high)
           /\ Rank(Head(w)) < 5 => Between(Tail(w), Rank(Head(w)) + 1, high)
           /\ Rank(Head(w)) \in low..high
<1> DEFINE v == Tail(w)
<1>1. /\ Head(w) = w[1] /\ DOMAIN w = 1..Len(w) /\ 1 \in DOMAIN w
      /\ DOMAIN v = 1..Len(v) /\ Len(v) = Len(w) - 1 /\ \A i \in DOMAIN v : v[i] = w[i + 1]
      OBVIOUS
<1>2. \A i \in DOMAIN v : i \in Nat /\ i + 1 \in DOMAIN w /\ 1 < i + 1 BY <1>1
<1> HIDE DEF v
<1>3. \A i \in DOMAIN v : Rank(v[i]) \in low..high BY <1>1, <1>2 DEF Between
<1>4. Ordered(v)
  <2> SUFFICES ASSUME NEW i \in DOMAIN v, NEW j \in DOMAIN v, i < j
               PROVE  Rank(v[i]) < Rank(v[j]) \/ Rank(v[j]) = 5
      BY DEF Ordered
  <2>1. i + 1 \in DOMAIN w /\ j + 1 \in DOMAIN w /\ i + 1 < j + 1 BY <1>2
  <2>2. Rank(w[i + 1]) < Rank(w[j + 1]) \/ Rank(w[j + 1]) = 5 BY <2>1 DEF Between, Ordered
  <2> QED BY <1>1, <2>2
<1>5. ASSUME Rank(Head(w)) < 5, NEW i \in DOMAIN v PROVE Rank(v[i]) \in Rank(Head(w)) + 1..high
  <2>1. Rank(w[1]) < Rank(w[i + 1]) \/ Rank(w[i + 1]) = 5 BY <1>1, <1>2 DEF Between, Ordered
  <2> QED BY <1>1, <1>3, <1>5, <2>1, RankRange
<1>6. Rank(Head(w)) \in low..high BY <1>1 DEF Between
<1> QED BY <1>3, <1>4, <1>5, <1>6 DEF Between, v

\* and what is written after it.
LEMMA BetweenConcat ==
    ASSUME NEW W, NEW w \in Seq(W), NEW v \in Seq(W), NEW low \in Nat, NEW high \in Nat, NEW top \in Nat,
           Between(w, low, high), Between(v, low, top), high <= top,
           \A i \in DOMAIN v : Rank(v[i]) > high \/ Rank(v[i]) = 5
    PROVE  Between(w \o v, low, top)
<1> DEFINE u == w \o v
<1>1. /\ DOMAIN u = 1..Len(w) + Len(v) /\ Len(w) \in Nat /\ Len(v) \in Nat
      /\ DOMAIN w = 1..Len(w) /\ DOMAIN v = 1..Len(v)
      /\ \A i \in DOMAIN u : u[i] = IF i <= Len(w) THEN w[i] ELSE v[i - Len(w)]
      BY ConcatProperties
<1> HIDE DEF u
<1>2. \A i \in DOMAIN u : \/ i \in DOMAIN w /\ u[i] = w[i]
                          \/ i > Len(w) /\ i - Len(w) \in DOMAIN v /\ u[i] = v[i - Len(w)]
      BY <1>1
<1>3. \A i \in DOMAIN u : Rank(u[i]) \in low..top BY <1>2, RankRange DEF Between
<1>4. Ordered(u)
  <2> SUFFICES ASSUME NEW i \in DOMAIN u, NEW j \in DOMAIN u, i < j
               PROVE  Rank(u[i]) < Rank(u[j]) \/ Rank(u[j]) = 5
      BY DEF Ordered
  <2>1. i \in Nat /\ j \in Nat BY <1>1
  <2>2. CASE i \in DOMAIN w /\ u[i] = w[i] /\ j \in DOMAIN w /\ u[j] = w[j]
        BY <2>2 DEF Between, Ordered
  <2>3. CASE i \in DOMAIN w /\ u[i] = w[i] /\ j - Len(w) \in DOMAIN v /\ u[j] = v[j - Len(w)]
    <3>1. Rank(w[i]) <= high BY <2>3, RankRange DEF Between
    <3> QED BY <2>3, <3>1, RankRange
  <2>4. CASE i - Len(w) \in DOMAIN v /\ u[i] = v[i - Len(w)] /\ j - Len(w) \in DOMAIN v /\ u[j] = v[j - Len(w)]
    <3>1. i - Len(w) < j - Len(w) BY <1>1, <2>1
    <3> QED BY <2>4, <3>1 DEF Between, Ordered
  <2>5. j \in DOMAIN w => i \in DOMAIN w BY <1>1, <2>1
  <2>6. i > Len(w) => j > Len(w) BY <1>1, <2>1
  <2>7. \A k \in DOMAIN w : ~ k > Len(w) BY <1>1
  <2> QED BY <1>2, <2>2, <2>3, <2>4, <2>5, <2>6, <2>7
<1> QED BY <1>3, <1>4 DEF Between, u

\* What is known of an end is kept where neither end moves.
Still(f) ==
    /\ at'[f] = at[f] /\ wire'[f] = wire[f] /\ reading'[f] = reading[f] /\ queue'[f] = queue[f]
    /\ accepted'[f] = accepted[f] /\ arrived'[f] = arrived[f]

LEMMA StillEnd ==
    ASSUME NEW f \in Ends, WireAt(f), FlowAt(f), UNCHANGED <<net, dialed, stream>>,
           Still(f), Has(f) => Still(Opposite(f))
    PROVE  WireAt(f)' /\ FlowAt(f)'
<1>1. Has(f)' = Has(f) /\ Opposite(f)' = Opposite(f) BY DEF Has, Opposite, Other
<1>2. WireAt(f)' BY <1>1 DEF WireAt, Still, Fresh, Gone
<1>3. Has(f) => Intact(f)' = Intact(f) BY <1>1 DEF Intact, Gone, Still
<1>4. FlowAt(f)' BY <1>1, <1>3 DEF FlowAt, Still
<1> QED BY <1>2, <1>4

LEMMA TrafficInit == Init => TrafficInv
<1> SUFFICES ASSUME Init PROVE TrafficInv
    OBVIOUS
<1>1. TrafficTypes
      BY BoundsAssumption, MaxFramesAssumption DEF Init, TrafficTypes, States, Handshaking, Running
<1>2. \A e \in Ends : ~ Has(e) /\ Fresh(e) BY DEF Init, Has, Fresh, Gone
<1> QED BY <1>1, <1>2 DEF TrafficInv, WireAt, FlowAt

\* A task under way is one of a stream.
LEMMA BusyHas ==
    ASSUME TrafficInv, NEW e \in Ends, ~ Gone(e)
    PROVE  Has(e) /\ Opposite(e) \in Ends /\ Opposite(e) # e
BY OppositeEnd DEF TrafficInv, WireAt, Fresh

\* Ends that are cut off.
LEMMA DropTraffic ==
    ASSUME TrafficInv, NEW E, Drop(E),
           UNCHANGED <<net, dialed, stream, sent, received, accepted, arrived>>
    PROVE  TrafficInv'
<1>1. \A f \in Ends : Has(f)' = Has(f) /\ Opposite(f)' = Opposite(f) BY DEF Has, Opposite, Other
<1>2. \A f \in Ends :
          \/ at'[f] = "done" /\ wire'[f] = <<>> /\ queue'[f] = <<>> /\ reading'[f] = "whole"
          \/ at'[f] = at[f] /\ wire'[f] = wire[f] /\ queue'[f] = queue[f] /\ reading'[f] = reading[f]
      BY DEF Drop
<1>3. TrafficTypes'
  <2>1. /\ at' \in [Ends -> States] /\ wire' \in [Ends -> Seq(Wired)]
        /\ queue' \in [Ends -> Seq(net.send)] /\ reading' \in [Ends -> {"whole", "header", "lost"}]
    <3> USE DEF Drop, TrafficInv, TrafficTypes
    <3>1. at' \in [Ends -> States] BY DEF States
    <3>2. wire' \in [Ends -> Seq(Wired)] /\ queue' \in [Ends -> Seq(net.send)]
      <4>1. <<>> \in Seq(Wired) /\ <<>> \in Seq(net.send) OBVIOUS
      <4> QED BY <4>1
    <3>3. reading' \in [Ends -> {"whole", "header", "lost"}] OBVIOUS
    <3> QED BY <3>1, <3>2, <3>3
  <2>2. \A f \in Ends : Len(queue'[f]) <= QueueCap
        BY <1>2, BoundsAssumption DEF TrafficInv, TrafficTypes
  <2>3. \A f \in Ends : /\ at'[f] \in {"binding", "enter"} => sent'[f] = 1
                        /\ reading'[f] = "header" => Running(f)' /\ wire'[f] # <<>> /\ received'[f] < MaxFrames
        BY <1>2 DEF TrafficInv, TrafficTypes, Running
  <2> QED BY <2>1, <2>2, <2>3 DEF TrafficInv, TrafficTypes, Wired
<1>4. ASSUME NEW f \in Ends PROVE WireAt(f)' /\ FlowAt(f)'
  <2> DEFINE o == Opposite(f)
  <2>1. CASE ~ Has(f) BY <1>1, <1>2, <2>1 DEF TrafficInv, WireAt, FlowAt, Fresh, Gone
  <2>2. CASE Has(f)
    <3>1. o \in Ends BY <2>2, OppositeEnd DEF TrafficInv
    <3>2. Between(wire[f], Awaited(at[f]), Written(at[o])) /\ (Gone(f) => wire[f] = <<>>)
          /\ (Gone(f) \/ Awaited(at[f]) <= Written(at[o]) + 1)
          BY <2>2 DEF TrafficInv, WireAt
    <3>3. at'[o] = at[o] \/ at'[o] = "done" BY <1>2, <3>1
    <3>4. Written(at[o]) \in 1..5 /\ Written("done") = 5 /\ Awaited(at[f]) \in 1..4 BY DEF Written, Awaited
    <3>5. Written(at[o]) <= Written(at'[o]) /\ Written(at'[o]) \in 1..5 BY <3>3, <3>4
    <3>6. ASSUME at'[f] = at[f] /\ wire'[f] = wire[f] PROVE WireAt(f)'
      <4>1. Between(wire[f], Awaited(at[f]), Written(at'[o])) BY <3>2, <3>4, <3>5, RankRange DEF Between
      <4>2. Gone(f)' = Gone(f) BY <3>6 DEF Gone
      <4> QED BY <1>1, <2>2, <3>2, <3>4, <3>5, <3>6, <4>1, <4>2 DEF WireAt
    <3>7. ASSUME at'[f] = "done" /\ wire'[f] = <<>> PROVE WireAt(f)'
      <4>1. \A low, high : Between(<<>>, low, high) BY DEF Between, Ordered
      <4>2. Gone(f)' BY <3>7 DEF Gone
      <4> QED BY <1>1, <2>2, <3>7, <4>1, <4>2 DEF WireAt
    <3>8. WireAt(f)' BY <1>2, <3>6, <3>7
    <3>9. PICK h \in Nat : Flow(accepted[o], arrived[f], wire[f], h, queue[o], Intact(f), net.send)
          BY <2>2 DEF TrafficInv, FlowAt
    <3>10. /\ accepted[o] \in Seq(net.send) /\ arrived[f] \in Seq(net.send) /\ wire[f] \in Seq(Wired)
           BY <3>1 DEF TrafficInv, TrafficTypes
    <3>11. Intact(f)' => Intact(f) /\ queue'[o] = queue[o] /\ wire'[f] = wire[f]
           BY <1>1, <1>2, <2>2, <3>1 DEF Intact, Gone
    <3>12. wire'[f] \in {wire[f], <<>>} BY <1>2
    <3> DEFINE F(w, g) == Flow(accepted[o], arrived[f], w, g, queue'[o], Intact(f)', net.send)
    <3>13. F(wire[f], h) /\ (~ Intact(f)' => F(<<>>, 0)) BY <3>9, <3>10, <3>11, FlowCut
    <3>14. \E k \in Nat : F(wire'[f], k)
      <4>1. CASE wire'[f] = wire[f] BY <3>13, <4>1
      <4>2. CASE wire'[f] # wire[f]
        <5>1. wire'[f] = <<>> /\ F(<<>>, 0) BY <3>11, <3>12, <3>13, <4>2
        <5> QED BY <5>1
      <4> QED BY <4>1, <4>2
    <3>15. FlowAt(f)' BY <1>1, <2>2, <3>14 DEF FlowAt
    <3> QED BY <3>8, <3>15
  <2> QED BY <2>1, <2>2
<1> QED BY <1>3, <1>4 DEF TrafficInv, Ends

\* A new stream: nothing was there before.
LEMMA DialTraffic ==
    ASSUME TrafficInv, NEW x \in Node, NEW y \in Node, Dial(x, y)
    PROVE  TrafficInv'
<1> DEFINE c == Len(dialed) + 1  ex == <<c, x>>  ey == <<c, y>>
<1>1. /\ <<x, y>> \in net.dial /\ c <= MaxDials /\ dialed' = Append(dialed, <<x, y>>)
      /\ at' = [at EXCEPT ![ex] = "ee", ![ey] = "e"] /\ wire' = [wire EXCEPT ![ey] = <<Frame("e")>>]
      /\ UNCHANGED <<net, stream, reading, queue, accepted, sent, received, arrived>>
      BY BoundsAssumption DEF Dial, traffic, TrafficInv, TrafficTypes
<1>2. x # y BY <1>1, NetworkAssumption DEF TrafficInv, TrafficTypes, Deployment
<1>3. /\ dialed' \in Seq(net.dial) /\ Len(dialed') = c /\ dialed'[c] = <<x, y>>
      /\ DOMAIN dialed = 1..c - 1 /\ DOMAIN dialed' = 1..c /\ c \in Nat
      /\ \A d \in DOMAIN dialed : dialed'[d] = dialed[d]
      BY <1>1 DEF TrafficInv, TrafficTypes
<1>4. c \in Conn /\ ex \in Ends /\ ey \in Ends /\ ex # ey /\ c \notin DOMAIN dialed
      BY <1>1, <1>2, <1>3, BoundsAssumption DEF Ends, Conn
<1> HIDE DEF c
<1>5. \A n \in Node : ~ Has(<<c, n>>) /\ Fresh(<<c, n>>)
      BY <1>4 DEF TrafficInv, WireAt, Has, Ends
<1>6. /\ at'[ex] = "ee" /\ at'[ey] = "e" /\ wire'[ey] = <<Frame("e")>> /\ wire'[ex] = <<>>
      /\ \A f \in Ends : f \notin {ex, ey} => Still(f)
      BY <1>1, <1>4, <1>5 DEF TrafficInv, TrafficTypes, Still, Fresh
<1>7. TrafficTypes'
  <2>1. at' \in [Ends -> States] BY <1>1 DEF TrafficInv, TrafficTypes, States, Handshaking
  <2>2. wire' \in [Ends -> Seq(Wired)]
    <3>1. <<Frame("e")>> \in Seq(Wired) BY DEF Wired, Kinds
    <3> QED BY <1>1, <3>1 DEF TrafficInv, TrafficTypes
  <2>3. \A f \in Ends : /\ at'[f] \in {"binding", "enter"} => sent'[f] = 1
                        /\ reading'[f] = "header" => Running(f)' /\ wire'[f] # <<>> /\ received'[f] < MaxFrames
    <3> TAKE f \in Ends
    <3>1. CASE f \in {ex, ey} BY <1>1, <1>4, <1>5, <1>6, <3>1 DEF Fresh
    <3>2. CASE f \notin {ex, ey} BY <1>1, <1>6, <3>2 DEF TrafficInv, TrafficTypes, Still, Running
    <3> QED BY <3>1, <3>2
  <2> QED BY <1>1, <1>3, <2>1, <2>2, <2>3 DEF TrafficInv, TrafficTypes, Wired
<1>8. ASSUME NEW f \in Ends PROVE WireAt(f)' /\ FlowAt(f)'
  <2>1. CASE f[1] # c
    <3>1. Has(f)' = Has(f) /\ (Has(f) => Opposite(f)' = Opposite(f) /\ Opposite(f)[1] # c)
          BY <1>3, <2>1 DEF Has, Opposite, Other
    <3>2. Has(f) => Opposite(f) \in Ends BY OppositeEnd DEF TrafficInv
    <3>3. Still(f) /\ (Has(f) => Still(Opposite(f))) BY <1>6, <2>1, <3>1, <3>2
    <3>4. WireAt(f)' BY <3>1, <3>3 DEF TrafficInv, WireAt, Still, Fresh, Gone
    <3>5. Has(f) => Intact(f)' = Intact(f) BY <1>1, <3>1, <3>3 DEF Intact, Gone, Still
    <3>6. FlowAt(f)' BY <1>1, <3>1, <3>3, <3>5 DEF TrafficInv, FlowAt, Still
    <3> QED BY <3>4, <3>6
  <2>2. CASE f[1] = c /\ f[2] \notin {x, y}
    <3>1. f = <<c, f[2]>> /\ f[2] \in Node /\ f \notin {ex, ey} BY <2>2 DEF Ends
    <3>2. ~ Has(f)' /\ Fresh(f) /\ Still(f) BY <1>3, <1>5, <1>6, <2>2, <3>1 DEF Has
    <3> QED BY <3>2 DEF WireAt, FlowAt, Fresh, Gone, Still
  <2>3. ASSUME f = ex \/ f = ey PROVE WireAt(f)' /\ FlowAt(f)'
    <3> DEFINE o == IF f = ex THEN ey ELSE ex
    <3>1. Has(f)' /\ Opposite(f)' = o /\ o \in Ends
      <4>0. c \in DOMAIN dialed' /\ dialed'[c][1] = x /\ dialed'[c][2] = y /\ f[1] = c BY <1>3, <1>4, <2>3 DEF Conn
      <4>1. CASE f = ex
        <5>1. f[2] = x /\ o = ey BY <4>1
        <5> QED BY <1>4, <4>0, <5>1 DEF Has, Opposite, Other
      <4>2. CASE f = ey
        <5>1. f[2] = y /\ o = ex BY <1>4, <4>2
        <5> QED BY <1>2, <1>4, <4>0, <5>1 DEF Has, Opposite, Other
      <4> QED BY <2>3, <4>1, <4>2
    <3>2. Awaited("e") = 1 /\ Awaited("ee") = 2 /\ Written("e") = 1 /\ Written("ee") = 1
          BY DEF Awaited, Written
    <3>3. Between(<<>>, 2, 1) /\ Between(<<Frame("e")>>, 1, 1)
          BY FrameRanks DEF Between, Ordered
    <3>4. ~ Gone(f)' BY <1>6, <2>3 DEF Gone
    <3>5. WireAt(f)' BY <1>4, <1>6, <2>3, <3>1, <3>2, <3>3, <3>4 DEF WireAt
    <3>6. Fresh(f) /\ Fresh(o) BY <1>5, <2>3
    <3>7. \A i \in 1..1 : <<Frame("e")>>[i] \notin net.send
          BY PayloadRank DEF TrafficInv, TrafficTypes
    <3>8. Flow(<<>>, <<>>, wire'[f], Len(wire'[f]), <<>>, Intact(f)', net.send)
      <4>1. CASE f = ex BY <1>6, <4>1 DEF Flow
      <4>2. CASE f = ey BY <1>6, <3>7, <4>2 DEF Flow
      <4> QED BY <2>3, <4>1, <4>2
    <3>9. Len(wire'[f]) \in Nat BY <1>7 DEF TrafficTypes
    <3>10. FlowAt(f)' BY <1>1, <3>1, <3>6, <3>8, <3>9 DEF FlowAt, Fresh
    <3> QED BY <3>5, <3>10
  <2>4. f[1] = c /\ f[2] \in {x, y} => f = ex \/ f = ey BY DEF Ends
  <2> QED BY <2>1, <2>2, <2>3, <2>4
<1> QED BY <1>7, <1>8 DEF TrafficInv, Ends

\* e takes a frame that carries no payload.
LEMMA TookFrame ==
    ASSUME TrafficInv, NEW e \in Ends, ~ Gone(e), NEW o, o = Opposite(e),
           UNCHANGED <<net, dialed, stream>>, at'[o] = at[o], accepted'[o] = accepted[o],
           queue'[o] = queue[o], arrived'[e] = arrived[e],
           wire[e] # <<>>, Rank(Head(wire[e])) < 5, wire'[e] = Tail(wire[e]),
           ~ Gone(e)', Awaited(at'[e]) <= Rank(Head(wire[e])) + 1
    PROVE  WireAt(e)' /\ FlowAt(e)'
<1> DEFINE w == wire[e]
<1>1. Has(e) /\ o \in Ends BY BusyHas
<1>2. Has(e)' /\ Opposite(e)' = o BY <1>1 DEF Has, Opposite, Other
<1>3. Between(w, Awaited(at[e]), Written(at[o])) BY <1>1 DEF TrafficInv, WireAt
<1>4. Awaited(at[e]) \in Nat /\ Written(at[o]) \in Nat /\ Awaited(at'[e]) \in Nat BY DEF Awaited, Written
<1>5. w \in Seq(Wired) /\ accepted[o] \in Seq(net.send) /\ arrived[e] \in Seq(net.send) /\ queue[o] \in Seq(net.send)
      BY <1>1 DEF TrafficInv, TrafficTypes
<1>6. Between(Tail(w), Rank(Head(w)) + 1, Written(at[o])) /\ Rank(Head(w)) <= Written(at[o])
      BY <1>3, <1>4, <1>5, BetweenTail
<1>7. Between(Tail(w), Awaited(at'[e]), Written(at[o]))
      BY <1>4, <1>6, RankRange DEF Between
<1>8. Awaited(at'[e]) <= Written(at[o]) + 1 BY <1>4, <1>6, RankRange
<1>9. WireAt(e)' BY <1>2, <1>7, <1>8 DEF WireAt
<1>10. Head(w) \notin net.send BY PayloadRank DEF TrafficInv, TrafficTypes
<1>11. PICK h \in Nat : Flow(accepted[o], arrived[e], w, h, queue[o], Intact(e), net.send)
       BY <1>1 DEF TrafficInv, FlowAt
<1>12. Flow(accepted[o], arrived[e], Tail(w), h - 1, queue[o], Intact(e), net.send)
       BY <1>5, <1>10, <1>11, FlowSkip
<1>13. h - 1 \in Nat BY <1>11, <1>12 DEF Flow
<1>14. Intact(e)' = Intact(e) BY <1>2 DEF Intact, Gone
<1>15. FlowAt(e)' BY <1>2, <1>12, <1>13, <1>14 DEF FlowAt
<1> QED BY <1>9, <1>15

\* e writes frames that carry none.
LEMMA WroteFrames ==
    ASSUME TrafficInv, NEW e \in Ends, ~ Gone(e), NEW o, o = Opposite(e),
           UNCHANGED <<net, dialed, stream>>, at'[o] = at[o], accepted'[e] = accepted[e],
           queue'[e] = queue[e], arrived'[o] = arrived[o], ~ Gone(e)',
           NEW v \in Seq(Wired), Ordered(v), Written(at[e]) <= Written(at'[e]),
           \A i \in DOMAIN v : Rank(v[i]) \in Written(at[e]) + 1..Written(at'[e]) /\ Rank(v[i]) < 5,
           v # <<>> => Written(at[e]) < 5,
           wire'[o] = wire[o] \/ (wire'[o] = wire[o] \o v /\ ~ Gone(o))
    PROVE  WireAt(o)' /\ FlowAt(o)'
<1> DEFINE w == wire[o]
<1>1. Has(e) /\ o \in Ends /\ Has(o) /\ Opposite(o) = e BY BusyHas, OppositeEnd DEF TrafficInv
<1>2. Has(o)' /\ Opposite(o)' = e BY <1>1 DEF Has, Opposite, Other
<1>3. /\ Between(w, Awaited(at[o]), Written(at[e])) /\ (Gone(o) => w = <<>>)
      /\ Gone(o) \/ Awaited(at[o]) <= Written(at[e]) + 1
      BY <1>1 DEF TrafficInv, WireAt
<1>4. Awaited(at[o]) \in Nat /\ Written(at[e]) \in Nat /\ Written(at'[e]) \in Nat BY DEF Awaited, Written
<1>5. w \in Seq(Wired) /\ accepted[e] \in Seq(net.send) /\ arrived[o] \in Seq(net.send) /\ queue[e] \in Seq(net.send)
      BY <1>1 DEF TrafficInv, TrafficTypes
<1>6. Gone(o)' = Gone(o) /\ Intact(o)' = Intact(o) BY <1>2, <1>1 DEF Intact, Gone
<1>7. PICK h \in Nat : Flow(accepted[e], arrived[o], w, h, queue[e], Intact(o), net.send)
      BY <1>1 DEF TrafficInv, FlowAt
<1>8. CASE wire'[o] = w
  <2>1. Between(w, Awaited(at[o]), Written(at'[e])) BY <1>3, <1>4, RankRange DEF Between
  <2>2. WireAt(o)' BY <1>2, <1>3, <1>4, <1>6, <1>8, <2>1 DEF WireAt
  <2>3. FlowAt(o)' BY <1>2, <1>6, <1>7, <1>8 DEF FlowAt
  <2> QED BY <2>2, <2>3
<1>9. CASE wire'[o] = w \o v /\ ~ Gone(o) /\ v # <<>>
  <2>1. Between(v, Awaited(at[o]), Written(at'[e])) BY <1>3, <1>4, <1>9, RankRange DEF Between
  <2>2. \A i \in DOMAIN v : Rank(v[i]) > Written(at[e]) BY <1>4, RankRange
  <2>3. Between(w \o v, Awaited(at[o]), Written(at'[e])) BY <1>3, <1>4, <1>5, <2>1, <2>2, BetweenConcat
  <2>4. WireAt(o)' BY <1>2, <1>3, <1>4, <1>6, <1>9, <2>3 DEF WireAt
  <2>5. DOMAIN w = 1..Len(w) /\ DOMAIN v = 1..Len(v) /\ Len(w) + Len(v) \in Nat BY <1>5
  <2>6. \A f \in net.send : Rank(f) = 5 BY PayloadRank DEF TrafficInv, TrafficTypes
  <2>7. \A i \in 1..Len(w) : w[i] \notin net.send BY <1>3, <1>4, <1>9, <2>5, <2>6, RankRange DEF Between
  <2>8. \A i \in 1..Len(v) : v[i] \notin net.send BY <2>5, <2>6
  <2>9. Flow(accepted[e], arrived[o], w \o v, Len(w) + Len(v), queue[e], Intact(o), net.send)
        BY <1>5, <1>7, <2>7, <2>8, FlowFrames
  <2>10. FlowAt(o)' BY <1>2, <1>6, <1>9, <2>5, <2>9 DEF FlowAt
  <2> QED BY <2>4, <2>10
<1>10. v = <<>> => w \o v = w BY <1>5
<1> QED BY <1>8, <1>9, <1>10

\* What write_frame does to the other end's wire.
LEMMA WriteFrameWire ==
    ASSUME TrafficInv, NEW e \in Ends, Has(e), NEW w \in [Ends -> Seq(Wired)], NEW v \in Seq(Wired)
    PROVE  /\ WriteFrame(w, e, v) \in [Ends -> Seq(Wired)]
           /\ \A f \in Ends : f # Opposite(e) => WriteFrame(w, e, v)[f] = w[f]
           /\ \/ /\ stream[e[1]] = "open" /\ ~ Gone(Opposite(e))
                 /\ WriteFrame(w, e, v)[Opposite(e)] = w[Opposite(e)] \o v
              \/ /\ ~ (stream[e[1]] = "open" /\ ~ Gone(Opposite(e)))
                 /\ WriteFrame(w, e, v)[Opposite(e)] = w[Opposite(e)]
<1>1. Opposite(e) \in Ends BY OppositeEnd DEF TrafficInv
<1>2. w[Opposite(e)] \o v \in Seq(Wired) BY <1>1, ConcatProperties
<1> QED BY <1>1, <1>2 DEF WriteFrame

\* An answer follows what was written before it.
LEMMA AnswerFrames ==
    ASSUME NEW s \in Handshaking, NEW next, next = IF s = "e" THEN "s" ELSE "binding"
    PROVE  /\ Answer(s) \in Seq(Wired) /\ Ordered(Answer(s)) /\ Written(s) <= Written(next) /\ Written(s) < 5
           /\ \A i \in DOMAIN Answer(s) : /\ Rank(Answer(s)[i]) \in Written(s) + 1..Written(next)
                                          /\ Rank(Answer(s)[i]) < 5
           /\ Rank(Frame(s)) < 5 /\ Awaited(next) = Rank(Frame(s)) + 1
<1>1. \A k \in Kinds : Frame(k) \in Wired BY DEF Wired
<1>2. CASE s = "e"
  <2>1. Answer(s) = <<Frame("ee")>> /\ next = "s" BY <1>2 DEF Answer
  <2>2. Written(s) = 1 /\ Written(next) = 2 /\ Awaited(next) = 2 BY <1>2, <2>1 DEF Written, Awaited
  <2>3. DOMAIN Answer(s) = {1} /\ Answer(s)[1] = Frame("ee") BY <2>1
  <2>4. Answer(s) \in Seq(Wired) /\ Ordered(Answer(s)) BY <1>1, <2>1, <2>3 DEF Ordered, Kinds
  <2> QED BY <1>2, <2>2, <2>3, <2>4, FrameRanks
<1>3. CASE s = "ee"
  <2>1. Answer(s) = <<Frame("s"), Frame("binding")>> /\ next = "binding" BY <1>3 DEF Answer
  <2>2. Written(s) = 1 /\ Written(next) = 3 /\ Awaited(next) = 3 BY <1>3, <2>1 DEF Written, Awaited
  <2>3. DOMAIN Answer(s) = {1, 2} /\ Answer(s)[1] = Frame("s") /\ Answer(s)[2] = Frame("binding") BY <2>1
  <2>4. Ordered(Answer(s)) BY <2>3, FrameRanks DEF Ordered
  <2>5. Answer(s) \in Seq(Wired) BY <1>1, <2>1 DEF Kinds
  <2> QED BY <1>3, <2>2, <2>3, <2>4, <2>5, FrameRanks
<1>4. CASE s = "s"
  <2>1. Answer(s) = <<Frame("binding")>> /\ next = "binding" BY <1>4 DEF Answer
  <2>2. Written(s) = 2 /\ Written(next) = 3 /\ Awaited(next) = 3 BY <1>4, <2>1 DEF Written, Awaited
  <2>3. DOMAIN Answer(s) = {1} /\ Answer(s)[1] = Frame("binding") BY <2>1
  <2>4. Answer(s) \in Seq(Wired) /\ Ordered(Answer(s)) BY <1>1, <2>1, <2>3 DEF Ordered, Kinds
  <2> QED BY <1>4, <2>2, <2>3, <2>4, FrameRanks
<1> QED BY <1>2, <1>3, <1>4 DEF Handshaking

\* A step of e concerns the two ends of its stream.
LEMMA TwoEnds ==
    ASSUME TrafficInv, NEW e \in Ends, ~ Gone(e), NEW o, o = Opposite(e),
           UNCHANGED <<net, dialed, stream>>, TrafficTypes', \A f \in Ends \ {e, o} : Still(f),
           WireAt(e)', FlowAt(e)', WireAt(o)', FlowAt(o)'
    PROVE  TrafficInv'
<1>1. Has(e) /\ o \in Ends /\ Opposite(o) = e BY BusyHas, OppositeEnd DEF TrafficInv
<1>2. ASSUME NEW f \in Ends, f \notin {e, o} PROVE WireAt(f)' /\ FlowAt(f)'
  <2>1. Has(f) => Opposite(f) \in Ends /\ Opposite(Opposite(f)) = f BY OppositeEnd DEF TrafficInv
  <2>2. Has(f) => Opposite(f) \in Ends \ {e, o} BY <1>1, <1>2, <2>1
  <2> QED BY <1>2, <2>2, StillEnd DEF TrafficInv
<1> QED BY <1>2 DEF TrafficInv, Ends

\* What the types say of the ends a step moves.
EndTypes(f) ==
    /\ at[f] \in {"binding", "enter"} => sent[f] = 1
    /\ reading[f] = "header" => Running(f) /\ wire[f] # <<>> /\ received[f] < MaxFrames

LEMMA HandshakeTraffic == ASSUME TrafficInv, NEW e \in Ends, Handshake(e) PROVE TrafficInv'
<1>1. /\ at[e] \in Handshaking /\ wire[e] # <<>> /\ Head(wire[e]) = Frame(at[e])
      /\ UNCHANGED <<net, dialed, stream, reading, queue, accepted, received, arrived>>
      BY DEF Handshake, traffic
<1>2. ~ Gone(e) /\ reading[e] # "header" 
      BY <1>1 DEF Gone, Handshaking, Running, TrafficInv, TrafficTypes
<1>3. PICK o \in Ends : o = Opposite(e) /\ o # e BY <1>2, BusyHas
<1> DEFINE next == IF at[e] = "e" THEN "s" ELSE "binding"
           w == [wire EXCEPT ![e] = Tail(@)]
           v == Answer(at[e])
<1>4. /\ v \in Seq(Wired) /\ Ordered(v) /\ Written(at[e]) <= Written(next) /\ Written(at[e]) < 5
      /\ \A i \in DOMAIN v : Rank(v[i]) \in Written(at[e]) + 1..Written(next) /\ Rank(v[i]) < 5
      /\ Rank(Frame(at[e])) < 5 /\ Awaited(next) = Rank(Frame(at[e])) + 1
      BY <1>1, AnswerFrames
<1>5. /\ at' = [at EXCEPT ![e] = next] /\ wire' = WriteFrame(w, e, v)
      /\ sent' = [sent EXCEPT ![e] = IF at[e] = "e" THEN 0 ELSE 1]
      BY DEF Handshake
<1>6. next \in {"s", "binding"} OBVIOUS
<1> HIDE DEF next, v
<1>7. w \in [Ends -> Seq(Wired)] /\ w[e] = Tail(wire[e]) /\ \A f \in Ends : f # e => w[f] = wire[f]
      BY <1>1 DEF TrafficInv, TrafficTypes
<1> HIDE DEF w
<1>8. /\ wire' \in [Ends -> Seq(Wired)]
      /\ wire'[e] = Tail(wire[e]) /\ \A f \in Ends \ {e, o} : wire'[f] = wire[f]
      /\ wire'[o] = wire[o] \/ (wire'[o] = wire[o] \o v /\ ~ Gone(o))
  <2>1. Has(e) BY <1>2, BusyHas
  <2>2. /\ WriteFrame(w, e, v) \in [Ends -> Seq(Wired)]
        /\ \A f \in Ends : f # o => WriteFrame(w, e, v)[f] = w[f]
        /\ \/ ~ Gone(o) /\ WriteFrame(w, e, v)[o] = w[o] \o v
           \/ WriteFrame(w, e, v)[o] = w[o]
        BY <1>3, <1>4, <1>7, <2>1, WriteFrameWire
  <2> QED BY <1>3, <1>5, <1>7, <2>2
<1>9. at' \in [Ends -> States] /\ at'[e] = next /\ \A f \in Ends : f # e => at'[f] = at[f]
      BY <1>5, <1>6 DEF States, Handshaking, TrafficInv, TrafficTypes
<1>10. ~ Gone(e)' BY <1>6, <1>9 DEF Gone
<1>11. \A f \in Ends : EndTypes(f)'
  <2> TAKE f \in Ends
  <2>1. CASE f = e
    <3>1. at[e] = "e" => next = "s" BY DEF next
    <3>2. sent'[e] = IF at[e] = "e" THEN 0 ELSE 1 BY <1>5 DEF TrafficInv, TrafficTypes
    <3> QED BY <1>1, <1>2, <1>6, <1>9, <2>1, <3>1, <3>2 DEF EndTypes
  <2>2. CASE f # e
    <3>1. wire'[f] = <<>> => wire[f] = <<>>
      <4>1. ASSUME f = o, wire'[o] = wire[o] \o v, wire[o] # <<>> PROVE wire'[o] # <<>>
        <5>1. Len(wire'[o]) = Len(wire[o]) + Len(v) /\ Len(wire[o]) > 0 BY <1>4, <4>1, ConcatProperties
        <5> QED BY <1>4, <5>1
      <4> QED BY <1>8, <2>2, <4>1
    <3> QED BY <1>1, <1>5, <1>9, <2>2, <3>1 DEF EndTypes, Running, TrafficInv, TrafficTypes
  <2> QED BY <2>1, <2>2
<1>12. sent' \in [Ends -> 0..MaxFrames] BY <1>5, MaxFramesAssumption DEF TrafficInv, TrafficTypes
<1>13. TrafficTypes' BY <1>1, <1>8, <1>9, <1>11, <1>12 DEF Wired, EndTypes, TrafficInv, TrafficTypes
<1>14. WireAt(e)' /\ FlowAt(e)' 
  <2>1. /\ at'[o] = at[o] /\ accepted'[o] = accepted[o] /\ queue'[o] = queue[o] /\ arrived'[e] = arrived[e]
        /\ Rank(Head(wire[e])) < 5 /\ Awaited(at'[e]) <= Rank(Head(wire[e])) + 1
        BY <1>1, <1>3, <1>4, <1>9, RankRange
  <2>2. UNCHANGED <<net, dialed, stream>> BY <1>1
  <2> QED BY <1>1, <1>2, <1>3, <1>8, <1>10, <2>1, <2>2, TookFrame
<1>15. WireAt(o)' /\ FlowAt(o)' BY <1>1, <1>2, <1>3, <1>4, <1>8, <1>9, <1>10, WroteFrames
<1>16. \A f \in Ends \ {e, o} : Still(f) BY <1>1, <1>8, <1>9 DEF Still
<1> QED BY <1>1, <1>2, <1>3, <1>13, <1>14, <1>15, <1>16, TwoEnds

\* The binding is in.
LEMMA BindTraffic == ASSUME TrafficInv, NEW e \in Ends, Bind(e) PROVE TrafficInv'
<1>0. CASE Fail(e) BY <1>0, DropTraffic DEF Fail
<1>a. CASE /\ at' = [at EXCEPT ![e] = "enter"] /\ wire' = [wire EXCEPT ![e] = Tail(@)]
           /\ received' = [received EXCEPT ![e] = 1]
           /\ UNCHANGED <<net, dialed, stream, reading, queue, accepted, sent, arrived>>
  <2>1. at[e] = "binding" /\ wire[e] # <<>> /\ Head(wire[e]) = Frame("binding") BY DEF Bind
  <2>2. ~ Gone(e) /\ reading[e] # "header" 
        BY <2>1 DEF Gone, Running, TrafficInv, TrafficTypes
  <2>3. PICK o \in Ends : o = Opposite(e) /\ o # e BY <2>2, BusyHas
  <2>4. at' \in [Ends -> States] /\ at'[e] = "enter" /\ \A f \in Ends : f # e => at'[f] = at[f]
        BY <1>a DEF States, TrafficInv, TrafficTypes
  <2>5. wire' \in [Ends -> Seq(Wired)] /\ wire'[e] = Tail(wire[e]) /\ \A f \in Ends : f # e => wire'[f] = wire[f]
        BY <1>a, <2>1 DEF TrafficInv, TrafficTypes
  <2>6. ~ Gone(e)' BY <2>4 DEF Gone
  <2>7. \A f \in Ends : EndTypes(f)'
        BY <1>a, <2>1, <2>2, <2>4, <2>5 DEF EndTypes, Running, TrafficInv, TrafficTypes
  <2>8. received' \in [Ends -> 0..MaxFrames] BY <1>a, MaxFramesAssumption DEF TrafficInv, TrafficTypes
  <2>9. TrafficTypes' BY <1>a, <2>4, <2>5, <2>7, <2>8 DEF Wired, EndTypes, TrafficInv, TrafficTypes
  <2>10. Awaited("enter") = 4 /\ Written("enter") = 3 /\ Written("binding") = 3 BY DEF Awaited, Written
  <2>11. WireAt(e)' /\ FlowAt(e)'
    <3>1. /\ at'[o] = at[o] /\ accepted'[o] = accepted[o] /\ queue'[o] = queue[o]
          /\ arrived'[e] = arrived[e]
          /\ Rank(Head(wire[e])) < 5 /\ Awaited(at'[e]) <= Rank(Head(wire[e])) + 1
          BY <1>a, <2>1, <2>3, <2>4, <2>10, FrameRanks
    <3>2. UNCHANGED <<net, dialed, stream>> BY <1>a
    <3> QED BY <2>1, <2>2, <2>3, <2>5, <2>6, <3>1, <3>2, TookFrame
  <2>12. WireAt(o)' /\ FlowAt(o)'
    <3>1. <<>> \in Seq(Wired) /\ Ordered(<<>>) BY DEF Ordered
    <3>2. /\ at'[o] = at[o] /\ accepted'[e] = accepted[e] /\ queue'[e] = queue[e]
          /\ arrived'[o] = arrived[o] /\ wire'[o] = wire[o] /\ Written(at[e]) <= Written(at'[e])
          BY <1>a, <2>1, <2>3, <2>4, <2>5, <2>10
    <3>3. UNCHANGED <<net, dialed, stream>> /\ DOMAIN <<>> = {} BY <1>a
    <3> QED BY <2>2, <2>3, <2>6, <3>1, <3>2, <3>3, WroteFrames
  <2>13. \A f \in Ends \ {e, o} : Still(f) BY <1>a, <2>4, <2>5 DEF Still
  <2> QED BY <1>a, <2>2, <2>3, <2>9, <2>11, <2>12, <2>13, TwoEnds
<1> QED BY <1>0, <1>a DEF Bind, traffic

\* The list goes out.
LEMMA EnterTraffic == ASSUME TrafficInv, NEW e \in Ends, Enter(e) PROVE TrafficInv'
<1>0. CASE Fail(e) BY <1>0, DropTraffic DEF Fail
<1> DEFINE v == <<Frame("gossip")>>
<1>a. CASE /\ at' = [at EXCEPT ![e] = "run"] /\ wire' = WriteFrame(wire, e, v)
           /\ sent' = [sent EXCEPT ![e] = @ + 1]
           /\ UNCHANGED <<net, dialed, stream, reading, queue, accepted, received, arrived>>
  <2>1. at[e] = "enter" BY DEF Enter
  <2>2. ~ Gone(e) /\ reading[e] # "header" 
        BY <2>1 DEF Gone, Running, TrafficInv, TrafficTypes
  <2>3. PICK o \in Ends : o = Opposite(e) /\ o # e BY <2>2, BusyHas
  <2>4. at' \in [Ends -> States] /\ at'[e] = "run" /\ \A f \in Ends : f # e => at'[f] = at[f]
        BY <1>a DEF States, TrafficInv, TrafficTypes
  <2>5. v \in Seq(Wired) /\ Ordered(v) /\ DOMAIN v = {1} /\ v[1] = Frame("gossip")
    <3>1. Frame("gossip") \in Wired BY DEF Wired, Kinds
    <3> QED BY <3>1 DEF Ordered
  <2>6. Awaited("enter") = 4 /\ Awaited("run") = 4 /\ Written("enter") = 3 /\ Written("run") = 5
        BY DEF Awaited, Written
  <2>7. \A i \in DOMAIN v : Rank(v[i]) = 4 BY <2>5, FrameRanks
  <2> HIDE DEF v
  <2>8. /\ wire' \in [Ends -> Seq(Wired)] /\ \A f \in Ends \ {o} : wire'[f] = wire[f]
        /\ wire'[o] = wire[o] \/ (wire'[o] = wire[o] \o v /\ ~ Gone(o))
    <3>1. Has(e) /\ wire \in [Ends -> Seq(Wired)] BY <2>2, BusyHas DEF TrafficInv, TrafficTypes
    <3>2. /\ WriteFrame(wire, e, v) \in [Ends -> Seq(Wired)]
          /\ \A f \in Ends : f # o => WriteFrame(wire, e, v)[f] = wire[f]
          /\ \/ ~ Gone(o) /\ WriteFrame(wire, e, v)[o] = wire[o] \o v
             \/ WriteFrame(wire, e, v)[o] = wire[o]
      <4> DEFINE w == wire
      <4>1. w \in [Ends -> Seq(Wired)] /\ v \in Seq(Wired) BY <2>5, <3>1
      <4> HIDE DEF w
      <4>2. /\ WriteFrame(w, e, v) \in [Ends -> Seq(Wired)]
            /\ \A f \in Ends : f # o => WriteFrame(w, e, v)[f] = w[f]
            /\ \/ ~ Gone(o) /\ WriteFrame(w, e, v)[o] = w[o] \o v
               \/ WriteFrame(w, e, v)[o] = w[o]
            BY <2>3, <3>1, <4>1, WriteFrameWire
      <4> QED BY <4>2 DEF w
    <3> QED BY <1>a, <2>3, <3>2
  <2>9. ~ Gone(e)' BY <2>4 DEF Gone
  <2>10. \A f \in Ends : EndTypes(f)'
    <3> TAKE f \in Ends
    <3>1. wire'[f] = <<>> => wire[f] = <<>>
      <4>1. ASSUME f = o, wire'[o] = wire[o] \o v, wire[o] # <<>> PROVE wire'[o] # <<>>
        <5>1. Len(wire'[o]) = Len(wire[o]) + Len(v) /\ Len(wire[o]) > 0 BY <2>5, <4>1, ConcatProperties
        <5> QED BY <2>5, <5>1
      <4> QED BY <2>8, <4>1
    <3> QED BY <1>a, <2>1, <2>2, <2>4, <3>1 DEF EndTypes, Running, TrafficInv, TrafficTypes
  <2>11. sent' \in [Ends -> 0..MaxFrames] BY <1>a, <2>1, MaxFramesAssumption DEF TrafficInv, TrafficTypes
  <2>12. TrafficTypes' BY <1>a, <2>4, <2>8, <2>10, <2>11 DEF Wired, EndTypes, TrafficInv, TrafficTypes
  <2>13. WireAt(e)' /\ FlowAt(e)'
    <3>1. Has(e) /\ Has(e)' /\ Opposite(e)' = o BY <1>a, <2>2, <2>3, BusyHas DEF Has, Opposite, Other
    <3>2. WireAt(e)' BY <2>1, <2>3, <2>4, <2>6, <2>8, <2>9, <3>1 DEF WireAt, Gone, TrafficInv
    <3>3. Intact(e)' = Intact(e) BY <1>a, <2>2, <2>3, <2>4, <2>9, <3>1 DEF Intact, Gone
    <3>4. FlowAt(e)' BY <1>a, <2>3, <2>8, <3>1, <3>3 DEF FlowAt, TrafficInv
    <3> QED BY <3>2, <3>4
  <2>14. WireAt(o)' /\ FlowAt(o)'
    <3>1. /\ at'[o] = at[o] /\ accepted'[e] = accepted[e] /\ queue'[e] = queue[e]
          /\ arrived'[o] = arrived[o] /\ Written(at[e]) <= Written(at'[e])
          /\ \A i \in DOMAIN v : Rank(v[i]) \in Written(at[e]) + 1..Written(at'[e]) /\ Rank(v[i]) < 5
          BY <1>a, <2>1, <2>3, <2>4, <2>6, <2>7
    <3>2. UNCHANGED <<net, dialed, stream>> /\ Written(at[e]) < 5 BY <1>a, <2>1, <2>6
    <3> QED BY <2>2, <2>3, <2>5, <2>8, <2>9, <3>1, <3>2, WroteFrames
  <2>15. \A f \in Ends \ {e, o} : Still(f) BY <1>a, <2>4, <2>8 DEF Still
  <2> QED BY <1>a, <2>2, <2>3, <2>12, <2>13, <2>14, <2>15, TwoEnds
<1> QED BY <1>0, <1>a DEF Enter, traffic

LEMMA AppendSeq ==
    ASSUME NEW S, NEW s \in Seq(S), NEW m \in S
    PROVE  Append(s, m) \in Seq(S) /\ Len(Append(s, m)) = Len(s) + 1
BY AppendProperties

\* A payload is queued: the flow to the other end grows.
LEMMA TrySendTraffic ==
    ASSUME TrafficInv, RegistryTypes, NEW m \in net.send, TrySend(m[1], m[2], m) PROVE TrafficInv'
<1>1. m[1] \in Node /\ m[2] \in Node BY NetworkAssumption DEF TrafficInv, TrafficTypes, Deployment, Payload
<1>2. PICK e \in Ends : e = <<registry[m[1]][m[2]], m[1]>>
      BY <1>1 DEF TrySend, RegistryTypes, Ends
<1>3. /\ at[e] \in {"enter", "run"} /\ Len(queue[e]) < QueueCap
      /\ queue' = [queue EXCEPT ![e] = Append(@, m)] /\ accepted' = [accepted EXCEPT ![e] = Append(@, m)]
      /\ UNCHANGED <<net, dialed, at, stream, wire, reading, sent, received, arrived>>
      BY <1>2 DEF TrySend, QueueHasRoom
<1>4. ~ Gone(e) BY <1>3 DEF Gone
<1>5. PICK o \in Ends : o = Opposite(e) /\ o # e BY <1>4, BusyHas
<1>6. Has(e) /\ Has(o) /\ Opposite(o) = e BY <1>4, <1>5, BusyHas, OppositeEnd DEF TrafficInv
<1>7. /\ queue[e] \in Seq(net.send) /\ accepted[e] \in Seq(net.send)
      /\ wire[o] \in Seq(Wired) /\ arrived[o] \in Seq(net.send)
      BY DEF TrafficInv, TrafficTypes
<1>8. Append(queue[e], m) \in Seq(net.send) /\ Append(accepted[e], m) \in Seq(net.send)
      /\ Len(Append(queue[e], m)) = Len(queue[e]) + 1
  <2> DEFINE q == queue[e]  acc == accepted[e]
  <2>1. q \in Seq(net.send) /\ acc \in Seq(net.send) BY <1>7
  <2> HIDE DEF q, acc
  <2>2. Append(q, m) \in Seq(net.send) /\ Len(Append(q, m)) = Len(q) + 1 /\ Append(acc, m) \in Seq(net.send)
        BY <2>1, AppendSeq
  <2> QED BY <2>2 DEF q, acc
<1>9. TrafficTypes'
  <2>1. queue' \in [Ends -> Seq(net.send)] /\ accepted' \in [Ends -> Seq(net.send)]
        BY <1>3, <1>8 DEF TrafficInv, TrafficTypes
  <2>2. \A f \in Ends : Len(queue'[f]) <= QueueCap
    <3>1. Len(queue[e]) \in Nat BY <1>7
    <3> QED BY <1>3, <1>8, <3>1, BoundsAssumption DEF TrafficInv, TrafficTypes
  <2> QED BY <1>3, <2>1, <2>2 DEF TrafficInv, TrafficTypes, Wired, Running
<1>10. /\ queue'[e] = Append(queue[e], m) /\ accepted'[e] = Append(accepted[e], m)
       /\ \A f \in Ends \ {e} : queue'[f] = queue[f] /\ accepted'[f] = accepted[f]
       BY <1>3 DEF TrafficInv, TrafficTypes
<1>11. \A f \in Ends : Has(f)' = Has(f) /\ Opposite(f)' = Opposite(f) /\ Intact(f)' = Intact(f) /\ Gone(f)' = Gone(f)
       BY <1>3 DEF Has, Opposite, Other, Intact, Gone
<1>12. ASSUME NEW f \in Ends PROVE WireAt(f)'
  <2>1. ~ Has(f) => Fresh(f)' /\ f # e BY <1>3, <1>6, <1>10 DEF TrafficInv, WireAt, Fresh, Gone
  <2> QED BY <1>3, <1>11, <2>1 DEF TrafficInv, WireAt
<1>13. ASSUME NEW f \in Ends, f # o PROVE FlowAt(f)'
  <2>1. Has(f) => Opposite(f) \in Ends \ {e} BY <1>5, <1>13, OppositeEnd DEF TrafficInv
  <2> QED BY <1>3, <1>10, <1>11, <2>1 DEF TrafficInv, FlowAt
<1>14. FlowAt(o)'
  <2>1. PICK h \in Nat : Flow(accepted[e], arrived[o], wire[o], h, queue[e], Intact(o), net.send)
        BY <1>6 DEF TrafficInv, FlowAt
  <2>2. Flow(Append(accepted[e], m), arrived[o], wire[o], h, Append(queue[e], m), Intact(o), net.send)
        BY <1>7, <2>1, FlowQueue
  <2> QED BY <1>3, <1>6, <1>10, <1>11, <2>2 DEF FlowAt
<1> QED BY <1>9, <1>12, <1>13, <1>14 DEF TrafficInv, Ends

\* A length is read: a body is on its way.
LEMMA ReadHeaderTraffic == ASSUME TrafficInv, NEW e \in Ends, ReadHeader(e) PROVE TrafficInv'
<1>1. /\ Running(e) /\ received[e] < MaxFrames /\ wire[e] # <<>>
      /\ reading' = [reading EXCEPT ![e] = "header"]
      /\ UNCHANGED <<net, dialed, at, stream, wire, queue, accepted, sent, received, arrived>>
      BY MaxFramesAssumption DEF ReadHeader, traffic, RekeyRequired, TrafficInv, TrafficTypes
<1>2. \A f \in Ends : f # e => reading'[f] = reading[f] BY <1>1 DEF TrafficInv, TrafficTypes
<1>3. TrafficTypes' BY <1>1 DEF TrafficInv, TrafficTypes, Wired, Running
<1>4. Has(e) BY <1>1, BusyHas DEF Running, Gone
<1>5. ASSUME NEW f \in Ends PROVE WireAt(f)' /\ FlowAt(f)'
  <2>1. Has(f)' = Has(f) /\ Opposite(f)' = Opposite(f) /\ Intact(f)' = Intact(f) /\ Gone(f)' = Gone(f)
        BY <1>1 DEF Has, Opposite, Other, Intact, Gone
  <2>2. ~ Has(f) => Fresh(f)' BY <1>1, <1>2, <1>4 DEF TrafficInv, WireAt, Fresh, Gone
  <2> QED BY <1>1, <2>1, <2>2 DEF TrafficInv, WireAt, FlowAt
<1> QED BY <1>3, <1>5 DEF TrafficInv, Ends

LEMMA FinishTraffic == ASSUME TrafficInv, NEW e, Finish(e) PROVE TrafficInv'
BY DropTraffic DEF Finish

\* A body is read, the list's or a payload's.
LEMMA ReadBodyTraffic == ASSUME TrafficInv, NEW e \in Ends, ReadBody(e) PROVE TrafficInv'
<1> DEFINE m == Head(wire[e])
<1>1. CASE Finish(e) BY <1>1, FinishTraffic
<1>2. CASE /\ Running(e) /\ reading[e] = "header"
           /\ wire' = [wire EXCEPT ![e] = Tail(@)] /\ reading' = [reading EXCEPT ![e] = "whole"]
           /\ received' = [received EXCEPT ![e] = @ + 1]
           /\ arrived' = [arrived EXCEPT ![e] = IF m # Frame("gossip") THEN Append(@, m) ELSE @]
           /\ UNCHANGED <<net, dialed, at, stream, queue, accepted, sent>>
  <2>1. ~ Gone(e) /\ ~ Gone(e)' /\ at[e] = "run" BY <1>2 DEF Gone, Running
  <2>2. PICK o \in Ends : o = Opposite(e) /\ o # e BY <2>1, BusyHas
  <2>3. Has(e) /\ Has(o) /\ Opposite(o) = e BY <2>1, <2>2, BusyHas, OppositeEnd DEF TrafficInv
  <2>4. /\ wire[e] \in Seq(Wired) /\ wire[e] # <<>> /\ received[e] \in 0..MaxFrames - 1
        /\ arrived[e] \in Seq(net.send) /\ accepted[o] \in Seq(net.send) /\ queue[o] \in Seq(net.send)
        BY <1>2, MaxFramesAssumption DEF TrafficInv, TrafficTypes
  <2>5. m \in Wired /\ Tail(wire[e]) \in Seq(Wired) BY <2>4
  <2>6. Between(wire[e], 4, Written(at[o])) /\ Written(at[o]) \in Nat /\ 4 <= Written(at[o]) + 1
    <3>1. Awaited("run") = 4 BY DEF Awaited
    <3>2. Written(at[o]) \in Nat BY DEF Written
    <3> QED BY <2>1, <2>2, <2>3, <3>1, <3>2 DEF TrafficInv, WireAt
  <2>7. Between(Tail(wire[e]), 4, Written(at[o])) /\ Rank(m) >= 4 BY <2>4, <2>6, BetweenTail, RankRange
  <2>8. m = Frame("gossip") \/ m \in net.send
    <3>1. ASSUME NEW k \in Kinds, m = Frame(k) PROVE k = "gossip" BY <2>7, <3>1, FrameRanks DEF Kinds
    <3> QED BY <2>5, <3>1 DEF Wired
  <2>9. /\ wire'[e] = Tail(wire[e]) /\ reading'[e] = "whole"
        /\ arrived'[e] = IF m = Frame("gossip") THEN arrived[e] ELSE Append(arrived[e], m)
        /\ \A f \in Ends \ {e} : wire'[f] = wire[f] /\ reading'[f] = reading[f] /\ arrived'[f] = arrived[f]
                                 /\ received'[f] = received[f]
        BY <1>2 DEF TrafficInv, TrafficTypes
  <2>10. TrafficTypes'
    <3>1. wire' \in [Ends -> Seq(Wired)] BY <1>2, <2>5 DEF TrafficInv, TrafficTypes
    <3>2. arrived'[e] \in Seq(net.send)
      <4> DEFINE arr == arrived[e]
      <4>1. arr \in Seq(net.send) BY <2>4
      <4>2. arrived'[e] = IF m = Frame("gossip") THEN arr ELSE Append(arr, m) BY <2>9
      <4> HIDE DEF arr, m
      <4>3. m \in net.send => Append(arr, m) \in Seq(net.send) BY <4>1, AppendSeq
      <4> QED BY <2>8, <4>1, <4>2, <4>3
    <3>3. arrived' \in [Ends -> Seq(net.send)] BY <1>2, <2>9, <3>2 DEF TrafficInv, TrafficTypes
    <3>4. received' \in [Ends -> 0..MaxFrames]
      <4>1. received[e] + 1 \in 0..MaxFrames BY <2>4, MaxFramesAssumption
      <4> QED BY <1>2, <4>1 DEF TrafficInv, TrafficTypes
    <3>5. reading' \in [Ends -> {"whole", "header", "lost"}] BY <1>2 DEF TrafficInv, TrafficTypes
    <3>6. \A f \in Ends : EndTypes(f)' BY <1>2, <2>1, <2>9 DEF EndTypes, Running, TrafficInv, TrafficTypes
    <3> QED BY <1>2, <3>1, <3>3, <3>4, <3>5, <3>6 DEF EndTypes, Wired, TrafficInv, TrafficTypes
  <2>11. Has(e)' /\ Opposite(e)' = o /\ Has(o)' /\ Opposite(o)' = e
         BY <1>2, <2>2, <2>3 DEF Has, Opposite, Other
  <2>12. Intact(e)' = Intact(e) /\ Intact(o)' = Intact(o) /\ Gone(o)' = Gone(o)
         BY <1>2, <2>2, <2>3, <2>11 DEF Intact, Gone
  <2>13. WireAt(e)'
    <3>1. Awaited("run") = 4 BY DEF Awaited
    <3> QED BY <1>2, <2>1, <2>6, <2>7, <2>9, <2>11, <3>1 DEF WireAt
  <2>14. FlowAt(e)'
    <3>1. PICK h \in Nat : Flow(accepted[o], arrived[e], wire[e], h, queue[o], Intact(e), net.send)
          BY <2>2, <2>3 DEF TrafficInv, FlowAt
    <3>2. CASE m \in net.send
      <4>1. m # Frame("gossip") BY <3>2, PayloadRank DEF TrafficInv, TrafficTypes
      <4>2. Flow(accepted[o], arrived'[e], wire'[e], h, queue[o], Intact(e), net.send)
            BY <2>4, <2>9, <3>1, <3>2, <4>1, FlowArrive
      <4> QED BY <1>2, <2>11, <2>12, <3>1, <4>2 DEF FlowAt
    <3>3. CASE m \notin net.send
      <4>1. Flow(accepted[o], arrived'[e], wire'[e], h - 1, queue[o], Intact(e), net.send)
            BY <2>4, <2>8, <2>9, <3>1, <3>3, FlowSkip
      <4>2. h - 1 \in Nat BY <3>1, <4>1 DEF Flow
      <4> QED BY <1>2, <2>11, <2>12, <4>1, <4>2 DEF FlowAt
    <3> QED BY <3>2, <3>3
  <2>15. WireAt(o)' BY <1>2, <2>2, <2>3, <2>9, <2>11, <2>12 DEF TrafficInv, WireAt
  <2>16. FlowAt(o)' BY <1>2, <2>2, <2>3, <2>9, <2>11, <2>12 DEF TrafficInv, FlowAt
  <2>17. \A f \in Ends \ {e, o} : Still(f) BY <1>2, <2>9 DEF Still
  <2> QED BY <1>2, <2>1, <2>2, <2>10, <2>13, <2>14, <2>15, <2>16, <2>17, TwoEnds
<1> QED BY <1>1, <1>2 DEF ReadBody, traffic

\* A queued payload is written; a length that was read is forgotten.
LEMMA WriteOutTraffic == ASSUME TrafficInv, NEW e \in Ends, WriteOut(e) PROVE TrafficInv'
<1> DEFINE m == Head(queue[e])
<1>1. CASE Finish(e) BY <1>1, FinishTraffic
<1>2. CASE /\ wire' = WriteFrame(wire, e, <<m>>)
           /\ queue' = [queue EXCEPT ![e] = Tail(@)]
           /\ sent' = [sent EXCEPT ![e] = @ + 1]
           /\ reading' = [reading EXCEPT ![e] = IF @ = "header" THEN "lost" ELSE @]
           /\ UNCHANGED <<net, dialed, at, stream, received, accepted, arrived>>
  <2>0. Running(e) /\ queue[e] # <<>> /\ sent[e] \in 0..MaxFrames - 1
        BY MaxFramesAssumption DEF WriteOut, RekeyRequired, TrafficInv, TrafficTypes
  <2>1. ~ Gone(e) /\ ~ Gone(e)' /\ at[e] = "run" BY <1>2, <2>0 DEF Gone, Running
  <2>2. PICK o \in Ends : o = Opposite(e) /\ o # e BY <2>1, BusyHas
  <2>3. Has(e) /\ Has(o) /\ Opposite(o) = e BY <2>1, <2>2, BusyHas, OppositeEnd DEF TrafficInv
  <2>4. /\ queue[e] \in Seq(net.send) /\ wire[o] \in Seq(Wired) /\ wire \in [Ends -> Seq(Wired)]
        /\ accepted[e] \in Seq(net.send) /\ arrived[o] \in Seq(net.send)
        BY DEF TrafficInv, TrafficTypes
  <2>5. m \in net.send /\ Tail(queue[e]) \in Seq(net.send) /\ Len(Tail(queue[e])) <= Len(queue[e])
    <3> DEFINE q == queue[e]
    <3>1. q \in Seq(net.send) /\ q # <<>> BY <2>0, <2>4
    <3> HIDE DEF q
    <3>2. Head(q) \in net.send /\ Tail(q) \in Seq(net.send) /\ Len(Tail(q)) <= Len(q)
          BY <3>1, HeadTailProperties, LenProperties
    <3> QED BY <3>2 DEF q
  <2> HIDE DEF m
  <2>6. m \in Wired /\ <<m>> \in Seq(Wired) BY <2>5 DEF Wired
  <2>7. /\ wire' \in [Ends -> Seq(Wired)] /\ \A f \in Ends \ {o} : wire'[f] = wire[f]
        /\ \/ stream[e[1]] = "open" /\ ~ Gone(o) /\ wire'[o] = wire[o] \o <<m>>
           \/ ~ (stream[e[1]] = "open" /\ ~ Gone(o)) /\ wire'[o] = wire[o]
    <3> DEFINE w == wire  v == <<m>>
    <3>1. w \in [Ends -> Seq(Wired)] /\ v \in Seq(Wired) BY <2>4, <2>6
    <3> HIDE DEF w, v
    <3>2. /\ WriteFrame(w, e, v) \in [Ends -> Seq(Wired)]
          /\ \A f \in Ends : f # o => WriteFrame(w, e, v)[f] = w[f]
          /\ \/ stream[e[1]] = "open" /\ ~ Gone(o) /\ WriteFrame(w, e, v)[o] = w[o] \o v
             \/ ~ (stream[e[1]] = "open" /\ ~ Gone(o)) /\ WriteFrame(w, e, v)[o] = w[o]
          BY <2>2, <2>3, <3>1, WriteFrameWire
    <3> QED BY <1>2, <3>2 DEF w, v
  <2>8. /\ queue'[e] = Tail(queue[e]) /\ reading'[e] \in {"whole", "lost"}
        /\ \A f \in Ends \ {e} : queue'[f] = queue[f] /\ reading'[f] = reading[f] /\ sent'[f] = sent[f]
        BY <1>2 DEF TrafficInv, TrafficTypes
  <2>9. wire[o] \o <<m>> = Append(wire[o], m) /\ wire[o] \o <<m>> # <<>>
    <3> DEFINE w == wire[o]
    <3>1. w \in Seq(Wired) BY <2>4
    <3> HIDE DEF w
    <3>2. w \o <<m>> = Append(w, m) /\ w \o <<m>> # <<>> BY <2>6, <3>1
    <3> QED BY <3>2 DEF w
  <2>10. TrafficTypes'
    <3>1. queue' \in [Ends -> Seq(net.send)] BY <1>2, <2>5 DEF TrafficInv, TrafficTypes
    <3>2. \A f \in Ends : Len(queue'[f]) <= QueueCap
      <4>1. queue[e] \in Seq(net.send) /\ Len(queue[e]) <= QueueCap BY DEF TrafficInv, TrafficTypes
      <4>2. Len(queue'[e]) <= QueueCap
        <5>1. Len(queue[e]) \in Nat /\ Len(Tail(queue[e])) \in Nat BY <2>4, <2>5, LenProperties
        <5> QED BY <2>5, <2>8, <4>1, <5>1, BoundsAssumption
      <4> QED BY <2>8, <4>2 DEF TrafficInv, TrafficTypes
    <3>3. sent' \in [Ends -> 0..MaxFrames]
      <4>1. sent[e] + 1 \in 0..MaxFrames BY <2>0, MaxFramesAssumption
      <4> QED BY <1>2, <4>1 DEF TrafficInv, TrafficTypes
    <3>4. reading' \in [Ends -> {"whole", "header", "lost"}] BY <1>2 DEF TrafficInv, TrafficTypes
    <3>5. \A f \in Ends : EndTypes(f)'
      <4> TAKE f \in Ends
      <4>1. wire'[f] = <<>> => wire[f] = <<>> BY <2>7, <2>9
      <4> QED BY <1>2, <2>1, <2>8, <4>1 DEF EndTypes, Running, TrafficInv, TrafficTypes
    <3> QED BY <1>2, <2>7, <3>1, <3>2, <3>3, <3>4, <3>5 DEF EndTypes, Wired, TrafficInv, TrafficTypes
  <2>11. Has(e)' /\ Opposite(e)' = o /\ Has(o)' /\ Opposite(o)' = e
         BY <1>2, <2>2, <2>3 DEF Has, Opposite, Other
  <2>12. Intact(e)' = Intact(e) /\ Intact(o)' = Intact(o) /\ Gone(o)' = Gone(o)
         BY <1>2, <2>2, <2>3, <2>11 DEF Intact, Gone
  <2>13. WireAt(e)' /\ FlowAt(e)' BY <1>2, <2>1, <2>2, <2>3, <2>7, <2>8, <2>11, <2>12 DEF TrafficInv, WireAt, FlowAt
  <2>14. WireAt(o)'
    <3>1. Between(wire[o], Awaited(at[o]), 5) /\ (Gone(o) => wire[o] = <<>>)
          /\ (Gone(o) \/ Awaited(at[o]) <= 5 + 1) /\ Awaited(at[o]) \in 1..4
      <4>1. Written("run") = 5 /\ Awaited(at[o]) \in 1..4 BY DEF Written, Awaited
      <4> QED BY <2>1, <2>3, <4>1 DEF TrafficInv, WireAt
    <3>2. Between(wire'[o], Awaited(at[o]), 5)
      <4>1. Rank(m) = 5 BY <2>5, PayloadRank DEF TrafficInv, TrafficTypes
      <4>2. DOMAIN <<m>> = {1} /\ <<m>>[1] = m OBVIOUS
      <4>3. Between(<<m>>, Awaited(at[o]), 5) BY <3>1, <4>1, <4>2 DEF Between, Ordered
      <4>4. Between(wire[o] \o <<m>>, Awaited(at[o]), 5)
        <5> DEFINE w == wire[o]  low == Awaited(at[o])  v == <<m>>
        <5>1. /\ w \in Seq(Wired) /\ v \in Seq(Wired) /\ low \in Nat /\ Between(w, low, 5) /\ Between(v, low, 5)
              /\ \A i \in DOMAIN v : Rank(v[i]) > 5 \/ Rank(v[i]) = 5
              BY <2>4, <2>6, <3>1, <4>1, <4>2, <4>3
        <5> HIDE DEF w, low, v
        <5>2. Between(w \o v, low, 5) BY <5>1, BetweenConcat
        <5> QED BY <5>2 DEF w, low, v
      <4> QED BY <2>7, <3>1, <4>4
    <3>3. Written("run") = 5 BY DEF Written
    <3> QED BY <1>2, <2>1, <2>7, <2>11, <2>12, <3>1, <3>2, <3>3 DEF WireAt
  <2>15. FlowAt(o)'
    <3>1. PICK h \in Nat : Flow(accepted[e], arrived[o], wire[o], h, queue[e], Intact(o), net.send)
          BY <2>2, <2>3 DEF TrafficInv, FlowAt
    <3>2. Intact(o) => stream[e[1]] = "open" /\ ~ Gone(o) /\ wire'[o] = Append(wire[o], m)
          BY <2>2, <2>3, <2>7, <2>9, OppositeEnd DEF Intact, TrafficInv
    <3>3. stream[e[1]] = "open" /\ ~ Gone(o) => Intact(o)
          BY <2>1, <2>2, <2>3, OppositeEnd DEF Intact, TrafficInv
    <3>4. CASE Intact(o)
      <4> DEFINE acc == accepted[e]  arr == arrived[o]  w == wire[o]  q == queue[e]
      <4>1. /\ acc \in Seq(net.send) /\ arr \in Seq(net.send) /\ w \in Seq(Wired) /\ q \in Seq(net.send)
            /\ q # <<>> /\ Flow(acc, arr, w, h, q, TRUE, net.send)
            BY <2>0, <2>4, <3>1, <3>4
      <4> HIDE DEF acc, arr, w, q
      <4>2. Flow(acc, arr, Append(w, Head(q)), h, Tail(q), TRUE, net.send) BY <4>1, FlowWrite
      <4> QED BY <1>2, <2>8, <2>11, <2>12, <3>1, <3>2, <3>4, <4>2 DEF FlowAt, acc, arr, w, q, m
    <3>5. CASE ~ Intact(o)
      <4>1. Flow(accepted[e], arrived[o], wire[o], h, queue'[e], Intact(o), net.send)
            BY <2>4, <3>1, <3>5, FlowCut
      <4>2. wire'[o] = wire[o] BY <2>7, <3>3, <3>5
      <4> QED BY <1>2, <2>11, <2>12, <3>1, <4>1, <4>2 DEF FlowAt
    <3> QED BY <3>4, <3>5
  <2>16. \A f \in Ends \ {e, o} : Still(f) BY <1>2, <2>7, <2>8 DEF Still
  <2> QED BY <1>2, <2>1, <2>2, <2>10, <2>13, <2>14, <2>15, <2>16, TwoEnds
<1> QED BY <1>1, <1>2 DEF WriteOut

\* The router loses a stream, with what is on its way.
LEMMA LoseTraffic == ASSUME TrafficInv, NEW c \in Conn, Lose(c) PROVE TrafficInv'
<1>1. PICK s \in {"closed", "stalled"} : stream' = [stream EXCEPT ![c] = s] BY DEF Lose
<1>2. /\ wire' = [e \in Ends |-> IF e[1] = c /\ reading[e] = "whole" THEN <<>> ELSE wire[e]]
      /\ UNCHANGED <<net, dialed, at, reading, queue, accepted, sent, received, arrived>>
      BY DEF Lose, traffic
<1>3. /\ stream' \in [Conn -> {"open", "closed", "stalled"}] /\ stream'[c] # "open"
      /\ \A d \in Conn : d # c => stream'[d] = stream[d]
      BY <1>1 DEF TrafficInv, TrafficTypes
<1>4. \A f \in Ends : wire'[f] = wire[f] \/ (wire'[f] = <<>> /\ f[1] = c /\ reading[f] = "whole") BY <1>2
<1>5. TrafficTypes'
  <2>1. wire' \in [Ends -> Seq(Wired)]
    <3>1. <<>> \in Seq(Wired) OBVIOUS
    <3> QED BY <1>2, <3>1 DEF TrafficInv, TrafficTypes
  <2>2. \A f \in Ends : EndTypes(f)' BY <1>2, <1>4 DEF EndTypes, Running, TrafficInv, TrafficTypes
  <2> QED BY <1>2, <1>3, <2>1, <2>2 DEF EndTypes, Wired, TrafficInv, TrafficTypes
<1>6. ASSUME NEW f \in Ends PROVE WireAt(f)' /\ FlowAt(f)'
  <2>1. Has(f)' = Has(f) /\ Opposite(f)' = Opposite(f) /\ Gone(f)' = Gone(f) /\ f[1] \in Conn
        BY <1>2 DEF Has, Opposite, Other, Gone, Ends
  <2>2. \A low, high : Between(<<>>, low, high) BY DEF Between, Ordered
  <2>3. WireAt(f)' BY <1>2, <1>4, <2>1, <2>2 DEF TrafficInv, WireAt, Fresh
  <2>4. CASE ~ Has(f) BY <2>1, <2>3, <2>4 DEF FlowAt
  <2>5. CASE Has(f) /\ f[1] # c
    <3>1. wire'[f] = wire[f] /\ Intact(f)' = Intact(f) BY <1>2, <1>3, <1>4, <2>1, <2>5 DEF Intact, Gone
    <3> QED BY <1>2, <2>1, <2>3, <3>1 DEF TrafficInv, FlowAt
  <2>6. CASE Has(f) /\ f[1] = c
    <3>1. ~ Intact(f)' BY <1>3, <2>6 DEF Intact
    <3>2. PICK o \in Ends : o = Opposite(f) BY <2>6, OppositeEnd DEF TrafficInv
    <3>3. PICK h \in Nat : Flow(accepted[o], arrived[f], wire[f], h, queue[o], Intact(f), net.send)
          BY <2>6, <3>2 DEF TrafficInv, FlowAt
    <3>4. accepted[o] \in Seq(net.send) /\ arrived[f] \in Seq(net.send) /\ wire[f] \in Seq(Wired)
          BY DEF TrafficInv, TrafficTypes
    <3>5. /\ Flow(accepted[o], arrived[f], wire[f], h, queue[o], FALSE, net.send)
          /\ Flow(accepted[o], arrived[f], <<>>, 0, queue[o], FALSE, net.send)
          BY <3>3, <3>4, FlowCut
    <3>6. \E k \in Nat : Flow(accepted[o], arrived[f], wire'[f], k, queue[o], FALSE, net.send)
          BY <1>4, <3>5
    <3>7. /\ accepted'[o] = accepted[o] /\ arrived'[f] = arrived[f] /\ queue'[o] = queue[o] /\ net' = net
          /\ Opposite(f)' = o
          BY <1>2, <2>1, <3>2
    <3>8. Intact(f)' = FALSE BY <3>1 DEF Intact
    <3>9. FlowAt(f)' BY <3>6, <3>7, <3>8 DEF FlowAt
    <3> QED BY <2>3, <3>9
  <2> QED BY <2>3, <2>4, <2>5, <2>6
<1> QED BY <1>5, <1>6 DEF TrafficInv, Ends

LEMMA SameTraffic ==
    ASSUME TrafficInv,
           UNCHANGED <<net, dialed, at, stream, wire, reading, queue, sent, received, accepted, arrived>>
    PROVE  TrafficInv'
<1>1. TrafficTypes' BY DEF TrafficInv, TrafficTypes, Wired, Running
<1>2. ASSUME NEW f \in Ends PROVE WireAt(f)' /\ FlowAt(f)'
  <2>1. \A g \in {f, Opposite(f)} : Still(g) BY DEF Still
  <2> QED BY <1>2, <2>1, StillEnd DEF TrafficInv
<1> QED BY <1>1, <1>2 DEF TrafficInv, Ends

LEMMA StepTraffic == RegistryInv /\ TrafficInv /\ [Next]_vars => TrafficInv'
<1> SUFFICES ASSUME RegistryInv, TrafficInv, [Next]_vars PROVE TrafficInv'
    OBVIOUS
<1>1. ASSUME NEW x \in Node, NEW y \in Node, Dial(x, y) PROVE TrafficInv'
      BY <1>1, DialTraffic
<1>2. ASSUME NEW e \in Ends, Read(e) PROVE TrafficInv'
  <2>1. CASE Fail(e) BY <2>1, DropTraffic DEF Fail
  <2> QED BY <1>2, <2>1, HandshakeTraffic, BindTraffic, EnterTraffic, ReadHeaderTraffic, ReadBodyTraffic,
             FinishTraffic DEF Read, ReadLost, Rekey, ReadEnd, HandshakeTimeout
<1>3. ASSUME NEW e \in Ends, WriteOut(e) \/ IdleTimeout(e) \/ Idle(e) PROVE TrafficInv'
      BY <1>3, WriteOutTraffic, FinishTraffic DEF IdleTimeout, Idle
<1>4. ASSUME NEW m \in net.send, TrySend(m[1], m[2], m) PROVE TrafficInv'
      BY <1>4, TrySendTraffic DEF RegistryInv
<1>5. ASSUME NEW c \in Conn, Lose(c) PROVE TrafficInv'
      BY <1>5, LoseTraffic
<1>6. ASSUME NEW n \in Node, Restart(n) \/ Shutdown(n) \/ Drained(n) \/ Expire(n) PROVE TrafficInv'
  <2>1. CASE Restart(n) BY <2>1, DropTraffic DEF Restart
  <2>2. CASE Shutdown(n) BY <2>2, SameTraffic DEF Shutdown, traffic
  <2>3. CASE Drained(n) \/ Expire(n) BY <2>3, DropTraffic DEF Drained, Expire, Exit
  <2> QED BY <1>6, <2>1, <2>2, <2>3
<1>7. CASE UNCHANGED vars BY <1>7, SameTraffic DEF vars, traffic
<1> QED BY <1>1, <1>2, <1>3, <1>4, <1>5, <1>6, <1>7 DEF Next

LEMMA PrefixProperties ==
    ASSUME NEW S, NEW s \in Seq(S), NEW n \in 0..Len(s)
    PROVE  LET p == SubSeq(s, 1, n)
           IN  p \in Seq(S) /\ Len(p) = n /\ \A i \in 1..n : p[i] = s[i]
OBVIOUS

\* What has arrived of a flow is a beginning of it.
LEMMA FlowPrefix ==
    ASSUME TrafficInv
    PROVE  \A e \in Ends : Has(e) =>
               LET from == accepted[Opposite(e)]
               IN  Len(arrived[e]) <= Len(from) /\ arrived[e] = SubSeq(from, 1, Len(arrived[e]))
<1> SUFFICES ASSUME NEW e \in Ends, Has(e), NEW o \in Ends, o = Opposite(e)
             PROVE  Len(arrived[e]) <= Len(accepted[o]) /\ arrived[e] = SubSeq(accepted[o], 1, Len(arrived[e]))
    BY OppositeEnd DEF TrafficInv
<1> DEFINE acc == accepted[o]  arr == arrived[e]  w == wire[e]
<1>1. acc \in Seq(net.send) /\ arr \in Seq(net.send) /\ w \in Seq(Wired) BY DEF TrafficInv, TrafficTypes
<1>2. PICK h \in Nat : Flow(acc, arr, w, h, queue[o], Intact(e), net.send) BY DEF TrafficInv, FlowAt
<1> HIDE DEF acc, arr, w
<1>3. Len(arr) <= Len(acc) /\ Len(arr) \in Nat /\ Len(acc) \in Nat /\ \A i \in 1..Len(arr) : arr[i] = acc[i]
      BY <1>1, <1>2, LenProperties DEF Flow
<1>4. arr = SubSeq(acc, 1, Len(arr))
  <2> DEFINE p == SubSeq(acc, 1, Len(arr))
  <2>1. p \in Seq(net.send) /\ Len(p) = Len(arr) /\ \A i \in 1..Len(arr) : p[i] = acc[i]
    <3> DEFINE n == Len(arr)
    <3>1. n \in 0..Len(acc) BY <1>3
    <3> HIDE DEF n
    <3> QED BY <1>1, <3>1, PrefixProperties DEF n
  <2> HIDE DEF p
  <2>2. arr = p BY <1>1, <1>3, <2>1, SeqEqual
  <2> QED BY <2>2 DEF p
<1> QED BY <1>3, <1>4 DEF acc, arr, w

\* The token bucket of each session: full until its first frame, and never short
\* by more than what was read; what is dropped is paid for by frames before it.
BucketAt(e) ==
    /\ IsFiniteSet(shed[e]) /\ shed[e] \subseteq DOMAIN arrived[e]
    /\ ~ Has(e) \/ at[e] \in Handshaking \cup {"binding"} => received[e] = 0
    /\ at[e] \in {"enter", "run"} => received[e] > 0
    /\ received[e] = 0 => shed[e] = {} /\ tokens[e] = Burst
    /\ received[e] > 0 => Cardinality(shed[e]) + Burst <= tokens[e] + (received[e] - 1)
    /\ shed[e] # {} => Cardinality(shed[e]) <= (received[e] - 1) - Burst

BucketTypes == tokens \in [Ends -> 0..Burst] /\ shed \in [Ends -> SUBSET Nat]

BucketInv == BucketTypes /\ \A e \in Ends : BucketAt(e)

LEMMA BucketInit == Init => BucketInv
<1> SUFFICES ASSUME Init PROVE BucketInv
    OBVIOUS
<1>1. Burst \in Nat BY BurstAssumption
<1>2. BucketTypes BY <1>1 DEF Init, BucketTypes
<1>3. ASSUME NEW e \in Ends PROVE BucketAt(e)
  <2>1. at[e] = "done" /\ received[e] = 0 /\ tokens[e] = Burst /\ shed[e] = {} BY DEF Init
  <2>2. IsFiniteSet({}) /\ Cardinality({}) = 0 BY FS_EmptySet
  <2> QED BY <2>1, <2>2 DEF BucketAt
<1> QED BY <1>2, <1>3 DEF BucketInv

\* Tasks begin, go on and end, and no frame is read.
LEMMA BucketKept ==
    ASSUME BucketInv, UNCHANGED <<received, arrived, tokens, shed>>,
           \A e \in Ends : Has(e) => Has(e)',
           \A e \in Ends : \/ at'[e] = at[e] \/ at'[e] = "done"
                           \/ ~ Has(e) /\ at'[e] \in Handshaking
                           \/ at[e] \in Handshaking /\ at'[e] \in {"s", "binding"}
                           \/ at[e] = "enter" /\ at'[e] = "run"
    PROVE  BucketInv'
<1>1. ASSUME NEW e \in Ends PROVE BucketAt(e)'
  <2>1. BucketAt(e) BY DEF BucketInv
  <2>2. /\ Has(e) => Has(e)'
        /\ \/ at'[e] = at[e] \/ at'[e] = "done"
           \/ ~ Has(e) /\ at'[e] \in Handshaking
           \/ at[e] \in Handshaking /\ at'[e] \in {"s", "binding"}
           \/ at[e] = "enter" /\ at'[e] = "run"
        OBVIOUS
  <2>3. received'[e] = received[e] /\ arrived'[e] = arrived[e] /\ tokens'[e] = tokens[e] /\ shed'[e] = shed[e]
        OBVIOUS
  <2>4. ~ Has(e)' \/ at'[e] \in Handshaking \cup {"binding"} => ~ Has(e) \/ at[e] \in Handshaking \cup {"binding"}
        BY <2>2 DEF Handshaking
  <2>5. at'[e] \in {"enter", "run"} => at[e] \in {"enter", "run"} BY <2>2 DEF Handshaking
  <2> QED BY <2>1, <2>3, <2>4, <2>5 DEF BucketAt
<1> QED BY <1>1 DEF BucketInv, BucketTypes

\* The binding is the first frame received, and the limiter does not see it.
LEMMA BindBucket ==
    ASSUME TrafficInv, BucketInv, NEW e \in Ends, Bind(e) PROVE BucketInv'
<1>1. CASE Fail(e) BY <1>1, BucketKept DEF Fail, Drop, Has, limiter
<1>2. CASE /\ at' = [at EXCEPT ![e] = "enter"] /\ received' = [received EXCEPT ![e] = 1]
           /\ UNCHANGED <<dialed, arrived, tokens, shed>>
  <2>1. at[e] = "binding" BY DEF Bind
  <2>2. BucketTypes' BY <1>2 DEF BucketInv, BucketTypes
  <2>3. ASSUME NEW f \in Ends PROVE BucketAt(f)'
    <3>1. BucketAt(f) /\ Has(f)' = Has(f) BY <1>2 DEF BucketInv, Has
    <3>2. CASE f = e
      <4>1. received[e] = 0 /\ shed[e] = {} /\ tokens[e] = Burst BY <2>1, <3>1, <3>2 DEF BucketAt
      <4>2. at'[e] = "enter" /\ received'[e] = 1 /\ Has(e) BY <1>2 DEF Bind, TrafficInv, TrafficTypes
      <4>3. Cardinality({}) = 0 /\ Burst \in Nat BY FS_EmptySet, BurstAssumption
      <4> QED BY <1>2, <3>1, <3>2, <4>1, <4>2, <4>3 DEF BucketAt, Handshaking
    <3>3. CASE f # e
      <4>1. at'[f] = at[f] /\ received'[f] = received[f] BY <1>2, <3>3 DEF TrafficInv, TrafficTypes
      <4> QED BY <1>2, <3>1, <4>1 DEF BucketAt
    <3> QED BY <3>2, <3>3
  <2> QED BY <2>2, <2>3 DEF BucketInv
<1> QED BY <1>1, <1>2 DEF Bind, limiter

\* A frame takes a token or, when there is none, is dropped: then more frames
\* were read than the bucket held.
LEMMA ReadBodyBucket ==
    ASSUME TrafficInv, BucketInv, NEW e \in Ends, ReadBody(e) PROVE BucketInv'
<1> DEFINE m == Head(wire[e])  payload == m # Frame("gossip")
<1>1. PICK t \in tokens[e]..Burst :
          \/ Finish(e)
          \/ /\ received' = [received EXCEPT ![e] = @ + 1]
             /\ arrived' = [arrived EXCEPT ![e] = IF payload THEN Append(@, m) ELSE @]
             /\ tokens' = [tokens EXCEPT ![e] = IF Passes(t) THEN t - 1 ELSE t]
             /\ shed' = [shed EXCEPT ![e] = IF payload /\ ~ Passes(t) THEN @ \cup {Len(arrived'[e])} ELSE @]
             /\ UNCHANGED <<dialed, at>>
      BY DEF ReadBody
<1>2. CASE Finish(e) BY <1>2, BucketKept DEF Finish, Drop, Has, limiter
<1>3. CASE ~ Finish(e)
  <2> HIDE DEF m
  <2>1. Burst \in Nat /\ tokens[e] \in 0..Burst /\ received[e] \in Nat /\ at[e] = "run"
        /\ shed[e] \in SUBSET Nat /\ arrived[e] \in Seq(net.send)
        BY BurstAssumption, MaxFramesAssumption DEF ReadBody, Running, BucketInv, BucketTypes, TrafficInv, TrafficTypes
  <2>2. t \in Nat /\ tokens[e] <= t /\ t <= Burst BY <1>1, <2>1
  <2>3. BucketAt(e) BY DEF BucketInv
  <2>4. received[e] > 0 /\ Has(e) /\ Has(e)' BY <1>1, <1>3, <2>1, <2>3 DEF BucketAt, Has
  <2>5. /\ received'[e] = received[e] + 1 /\ at'[e] = "run"
        /\ tokens'[e] = (IF t >= 1 THEN t - 1 ELSE 0)
        /\ arrived'[e] = (IF payload THEN Append(arrived[e], m) ELSE arrived[e])
    <3>1. /\ received' = [received EXCEPT ![e] = @ + 1] /\ received \in [Ends -> 0..MaxFrames]
          /\ tokens' = [tokens EXCEPT ![e] = IF Passes(t) THEN t - 1 ELSE t] /\ tokens \in [Ends -> 0..Burst]
          /\ arrived' = [arrived EXCEPT ![e] = IF payload THEN Append(@, m) ELSE @]
          /\ arrived \in [Ends -> Seq(net.send)] /\ at' = at
          BY <1>1, <1>3 DEF BucketInv, BucketTypes, TrafficInv, TrafficTypes
    <3> HIDE DEF payload
    <3>2. received'[e] = received[e] + 1 /\ at'[e] = "run" BY <2>1, <3>1
    <3>3. tokens'[e] = (IF Passes(t) THEN t - 1 ELSE t) BY <3>1
    <3>4. arrived'[e] = (IF payload THEN Append(arrived[e], m) ELSE arrived[e]) BY <3>1
    <3> QED BY <2>2, <3>2, <3>3, <3>4 DEF Passes
  <2>6. DOMAIN arrived[e] = 1..Len(arrived[e]) /\ Len(arrived[e]) \in Nat BY <2>1
  <2>7. /\ DOMAIN arrived[e] \subseteq DOMAIN arrived'[e]
        /\ payload => /\ Len(arrived'[e]) = Len(arrived[e]) + 1
                      /\ Len(arrived'[e]) \in DOMAIN arrived'[e]
                      /\ Len(arrived'[e]) \notin DOMAIN arrived[e]
    <3> DEFINE arr == arrived[e]
    <3>1. arr \in Seq(net.send) /\ arrived'[e] = (IF payload THEN Append(arr, m) ELSE arr) BY <2>1, <2>5
    <3> HIDE DEF arr
    <3> QED BY <3>1 DEF arr
  <2>8. shed'[e] = IF payload /\ t = 0 THEN shed[e] \cup {Len(arrived'[e])} ELSE shed[e]
    <3>1. /\ shed' = [shed EXCEPT ![e] = IF payload /\ ~ Passes(t) THEN @ \cup {Len(arrived'[e])} ELSE @]
          /\ shed \in [Ends -> SUBSET Nat]
          BY <1>1, <1>3 DEF BucketInv, BucketTypes
    <3>2. Passes(t) <=> t # 0 BY <2>2 DEF Passes
    <3> HIDE DEF payload
    <3> QED BY <3>1, <3>2
  <2> HIDE DEF payload
  <2>9. IsFiniteSet(shed[e]) /\ Cardinality(shed[e]) \in Nat BY <2>3, FS_CardinalityType DEF BucketAt
  <2>a. \A i \in shed[e] : i \in DOMAIN arrived[e] /\ i \in DOMAIN arrived'[e]
    <3>1. shed[e] \subseteq DOMAIN arrived[e] BY <2>3 DEF BucketAt
    <3>2. DOMAIN arrived[e] \subseteq DOMAIN arrived'[e] BY <2>7
    <3> QED BY <3>1, <3>2
  <2>10. BucketTypes'
    <3>1. tokens'[e] \in 0..Burst BY <2>1, <2>2, <2>5
    <3>2. shed'[e] \in SUBSET Nat BY <2>1, <2>6, <2>7, <2>8
    <3> QED BY <1>1, <1>3, <3>1, <3>2 DEF BucketInv, BucketTypes
  <2>11. BucketAt(e)'
    <3>1. CASE payload /\ t = 0
      <4>1. shed'[e] = shed[e] \cup {Len(arrived'[e])} /\ Len(arrived'[e]) \notin shed[e]
            BY <2>7, <2>8, <2>a, <3>1
      <4>2. IsFiniteSet(shed'[e]) /\ Cardinality(shed'[e]) = Cardinality(shed[e]) + 1
            BY <2>9, <4>1, FS_AddElement
      <4>3. shed'[e] \subseteq DOMAIN arrived'[e] BY <2>7, <2>a, <3>1, <4>1
      <4>4. Cardinality(shed[e]) + Burst <= received[e] - 1 BY <2>1, <2>2, <2>3, <2>4, <3>1 DEF BucketAt
      <4>5. tokens'[e] = 0 /\ received'[e] = received[e] + 1 BY <2>5, <3>1
      <4>6. Cardinality(shed'[e]) + Burst <= tokens'[e] + (received'[e] - 1)
            /\ Cardinality(shed'[e]) <= (received'[e] - 1) - Burst
            BY <2>1, <2>9, <4>2, <4>4, <4>5
      <4> QED BY <2>1, <2>4, <2>5, <4>2, <4>3, <4>6 DEF BucketAt, Handshaking
    <3>2. CASE ~ (payload /\ t = 0)
      <4>1. shed'[e] = shed[e] BY <2>8, <3>2
      <4>2. Cardinality(shed[e]) + Burst <= tokens'[e] + (received'[e] - 1)
            BY <2>1, <2>2, <2>3, <2>4, <2>5, <2>9 DEF BucketAt
      <4>3. shed[e] # {} => Cardinality(shed[e]) <= (received'[e] - 1) - Burst
            BY <2>1, <2>3, <2>5, <2>9 DEF BucketAt
      <4>4. shed'[e] \subseteq DOMAIN arrived'[e] BY <2>a, <4>1
      <4> QED BY <2>1, <2>4, <2>5, <2>9, <4>1, <4>2, <4>3, <4>4 DEF BucketAt, Handshaking
    <3> QED BY <3>1, <3>2
  <2>12. ASSUME NEW f \in Ends, f # e PROVE BucketAt(f)'
    <3>1. /\ received'[f] = received[f] /\ arrived'[f] = arrived[f] /\ tokens'[f] = tokens[f] /\ shed'[f] = shed[f]
          /\ at'[f] = at[f] /\ Has(f)' = Has(f)
          BY <1>1, <1>3, <2>12 DEF BucketInv, BucketTypes, TrafficInv, TrafficTypes, Has
    <3> QED BY <3>1 DEF BucketInv, BucketAt
  <2> QED BY <2>10, <2>11, <2>12 DEF BucketInv
<1> QED BY <1>2, <1>3

LEMMA StepBucket == TrafficInv /\ BucketInv /\ [Next]_vars => BucketInv'
<1> SUFFICES ASSUME TrafficInv, BucketInv, [Next]_vars PROVE BucketInv'
    OBVIOUS
<1>0. CASE UNCHANGED <<dialed, at, received, arrived, tokens, shed>> BY <1>0, BucketKept DEF Has
<1>a. ASSUME NEW e \in Ends, Fail(e) \/ Finish(e) PROVE BucketInv'
      BY <1>a, BucketKept DEF Fail, Finish, Drop, Has, limiter
<1>1. ASSUME NEW x \in Node, NEW y \in Node, Dial(x, y) PROVE BucketInv'
  <2>1. /\ dialed' = Append(dialed, <<x, y>>) /\ UNCHANGED <<received, arrived, tokens, shed>>
        /\ at' = [at EXCEPT ![<<Len(dialed) + 1, x>>] = "ee", ![<<Len(dialed) + 1, y>>] = "e"]
        BY <1>1 DEF Dial, limiter
  <2>2. DOMAIN dialed \subseteq DOMAIN dialed' /\ Len(dialed) + 1 \notin DOMAIN dialed
        /\ \A d \in DOMAIN dialed : dialed'[d] = dialed[d]
    <3> DEFINE s == dialed
    <3>1. s \in Seq(net.dial) /\ dialed' = Append(s, <<x, y>>) BY <2>1 DEF TrafficInv, TrafficTypes
    <3> HIDE DEF s
    <3>2. /\ DOMAIN s = 1..Len(s) /\ Len(s) \in Nat /\ DOMAIN dialed' = 1..Len(s) + 1
          /\ \A d \in 1..Len(s) : dialed'[d] = s[d]
          BY <3>1
    <3>3. DOMAIN s \subseteq DOMAIN dialed' /\ Len(s) + 1 \notin DOMAIN s BY <3>2
    <3> QED BY <3>2, <3>3 DEF s
  <2>3. \A e \in Ends : Has(e) => Has(e)' BY <2>2 DEF Has
  <2>4. \A e \in Ends : at'[e] = at[e] \/ (~ Has(e) /\ at'[e] \in Handshaking)
    <3> DEFINE c == Len(dialed) + 1
    <3>1. c \notin DOMAIN dialed /\ at \in [Ends -> States] BY <2>2 DEF TrafficInv, TrafficTypes
    <3> HIDE DEF c
    <3>2. at' = [at EXCEPT ![<<c, x>>] = "ee", ![<<c, y>>] = "e"] BY <2>1 DEF c
    <3>3. \A e \in Ends : at'[e] = at[e] \/ (e[1] = c /\ at'[e] \in {"e", "ee"}) BY <3>1, <3>2
    <3> QED BY <3>1, <3>3 DEF Has, Handshaking
  <2> QED BY <2>1, <2>3, <2>4, BucketKept
<1>2. ASSUME NEW e \in Ends, Read(e) PROVE BucketInv'
  <2>1. CASE Handshake(e)
    <3>1. \A f \in Ends : at'[f] = at[f] \/ (at[f] \in Handshaking /\ at'[f] \in {"s", "binding"})
          BY <2>1 DEF Handshake, TrafficInv, TrafficTypes
    <3> QED BY <2>1, <3>1, BucketKept DEF Handshake, Has, limiter
  <2>2. CASE Enter(e)
    <3>1. CASE at[e] = "enter" /\ at' = [at EXCEPT ![e] = "run"] /\ UNCHANGED <<dialed, received, arrived, tokens, shed>>
      <4>1. \A f \in Ends : at'[f] = at[f] \/ (at[f] = "enter" /\ at'[f] = "run")
            BY <3>1 DEF TrafficInv, TrafficTypes
      <4> QED BY <3>1, <4>1, BucketKept DEF Has
    <3> QED BY <1>a, <2>2, <3>1 DEF Enter, limiter
  <2>3. CASE ReadHeader(e) BY <1>0, <2>3 DEF ReadHeader, limiter
  <2> QED BY <1>2, <1>a, <2>1, <2>2, <2>3, BindBucket, ReadBodyBucket
          DEF Read, ReadLost, Rekey, ReadEnd, HandshakeTimeout
<1>3. ASSUME NEW e \in Ends, WriteOut(e) \/ IdleTimeout(e) \/ Idle(e) PROVE BucketInv'
  <2>1. CASE WriteOut(e) BY <1>0, <1>a, <2>1 DEF WriteOut, limiter
  <2> QED BY <1>3, <1>a, <2>1 DEF IdleTimeout, Idle
<1>4. ASSUME NEW m \in net.send, TrySend(m[1], m[2], m) PROVE BucketInv' BY <1>0, <1>4 DEF TrySend, limiter
<1>5. ASSUME NEW c \in Conn, Lose(c) PROVE BucketInv' BY <1>0, <1>5 DEF Lose, limiter
<1>6. ASSUME NEW n \in Node, Restart(n) \/ Shutdown(n) \/ Drained(n) \/ Expire(n) PROVE BucketInv'
  <2>1. CASE Shutdown(n) BY <1>0, <2>1 DEF Shutdown, limiter
  <2>2. CASE Restart(n) BY <2>2, BucketKept DEF Restart, Drop, Has, limiter
  <2>3. CASE Drained(n) \/ Expire(n) BY <2>3, BucketKept DEF Drained, Expire, Exit, Drop, Has, limiter
  <2> QED BY <1>6, <2>1, <2>2, <2>3
<1>7. CASE UNCHANGED vars BY <1>0, <1>7 DEF vars
<1> QED BY <1>1, <1>2, <1>3, <1>4, <1>5, <1>6, <1>7 DEF Next

\* connection.rs select!, noise.rs, limit.rs: whatever reads are cancelled by a
\* write, streams lost and tasks ended, what arrives of a session's payloads is
\* what was queued, in that order and from the first one on; handlers get all of it
\* but for, at any pace, the frames beyond the first Burst.
THEOREM PayloadsInOrder == Spec => []InOrderWithinLimit
<1>1. Init => RegistryInv /\ TrafficInv /\ BucketInv BY InitRegistry, TrafficInit, BucketInit
<1>2. (RegistryInv /\ TrafficInv /\ BucketInv) /\ [Next]_vars => (RegistryInv /\ TrafficInv /\ BucketInv)'
      BY StepRegistry, StepTraffic, StepBucket
<1>3. TrafficInv /\ BucketInv => InOrderWithinLimit BY FlowPrefix DEF BucketInv, BucketAt, InOrderWithinLimit
<1> QED BY <1>1, <1>2, <1>3, PTL DEF Spec
----------------------------------------------------------------------------
\* n's sessions that a pool counts, and those it may have counted.
Serving(n) == {c \in Conn : at[<<c, n>>] \in {"enter", "run"}}
Served(n) == {c \in Conn : Has(<<c, n>>) /\ at[<<c, n>>] \in {"enter", "run", "done"}}

\* A pool may count a session that is over (its first write failed), and none
\* that runs is left out.
LiveInv ==
    /\ live \in [Node -> Nat]
    /\ \A n \in Node : Cardinality(Serving(n)) <= live[n] /\ live[n] <= Cardinality(Served(n))

LEMMA ConnSets ==
    /\ IsFiniteSet(Conn) /\ Cardinality(Conn) = MaxDials
    /\ \A S \in SUBSET Conn : IsFiniteSet(S) /\ Cardinality(S) \in 0..MaxDials
    /\ \A S, T \in SUBSET Conn : S \subseteq T => Cardinality(S) <= Cardinality(T)
<1>1. IsFiniteSet(Conn) /\ Cardinality(Conn) = MaxDials BY FS_Interval, BoundsAssumption DEF Conn
<1>2. ASSUME NEW S \in SUBSET Conn PROVE IsFiniteSet(S) /\ Cardinality(S) \in 0..MaxDials
      BY <1>1, FS_Subset, FS_CardinalityType, BoundsAssumption
<1>3. ASSUME NEW S \in SUBSET Conn, NEW T \in SUBSET Conn, S \subseteq T
      PROVE  Cardinality(S) <= Cardinality(T)
      BY <1>2, <1>3, FS_Subset
<1> QED BY <1>1, <1>2, <1>3

\* Streams are opened, tasks begin and end; the count is left alone.
LEMMA LiveKept ==
    ASSUME LiveInv, live' = live,
           \A n \in Node : Serving(n)' \subseteq Serving(n) /\ Served(n) \subseteq Served(n)'
    PROVE  LiveInv'
<1> SUFFICES ASSUME NEW n \in Node
             PROVE  Cardinality(Serving(n)') <= live[n] /\ live[n] <= Cardinality(Served(n)')
    BY DEF LiveInv
<1> DEFINE A == Serving(n)  B == Served(n)  X == Serving(n)'  Y == Served(n)'
<1>1. /\ A \in SUBSET Conn /\ B \in SUBSET Conn /\ X \in SUBSET Conn /\ Y \in SUBSET Conn
      BY DEF Serving, Served
<1>2. X \subseteq A /\ B \subseteq Y /\ Cardinality(A) <= live[n] /\ live[n] <= Cardinality(B) /\ live[n] \in Nat
      BY DEF LiveInv
<1> HIDE DEF A, B, X, Y
<1>3. Cardinality(X) <= Cardinality(A) /\ Cardinality(B) <= Cardinality(Y) BY <1>1, <1>2, ConnSets
<1>4. \A S \in {A, B, X, Y} : Cardinality(S) \in 0..MaxDials BY <1>1, ConnSets
<1>5. Cardinality(X) <= live[n] /\ live[n] <= Cardinality(Y) BY <1>2, <1>3, <1>4, BoundsAssumption
<1> QED BY <1>5 DEF X, Y

\* Tasks only go on before or after they are counted.
LEMMA LiveMoves ==
    ASSUME LiveInv, live' = live, dialed' = dialed,
           \A e \in Ends : at'[e] = at[e] \/ at'[e] = "done"
                           \/ (at[e] \in Handshaking /\ at'[e] \in {"s", "binding"})
                           \/ (at[e] = "enter" /\ at'[e] = "run")
    PROVE  LiveInv'
<1> SUFFICES ASSUME NEW n \in Node PROVE Serving(n)' \subseteq Serving(n) /\ Served(n) \subseteq Served(n)'
    BY LiveKept
<1>1. \A c \in Conn : <<c, n>> \in Ends BY DEF Ends
<1>2. \A c \in Conn : Has(<<c, n>>)' = Has(<<c, n>>) BY DEF Has
<1>3. \A c \in Conn : at'[<<c, n>>] \in {"enter", "run"} => at[<<c, n>>] \in {"enter", "run"} BY <1>1
<1>4. \A c \in Conn : at[<<c, n>>] \in {"enter", "run", "done"} => at'[<<c, n>>] \in {"enter", "run", "done"}
      BY <1>1 DEF Handshaking
<1>5. Serving(n)' \subseteq Serving(n) BY <1>3 DEF Serving
<1>6. Served(n) \subseteq Served(n)' BY <1>2, <1>4 DEF Served
<1> QED BY <1>5, <1>6

LEMMA LiveInit == Init => LiveInv
<1> SUFFICES ASSUME Init PROVE LiveInv
    OBVIOUS
<1>1. ASSUME NEW n \in Node PROVE Serving(n) = {} /\ Served(n) = {}
  <2>1. \A c \in Conn : at[<<c, n>>] = "done" /\ ~ Has(<<c, n>>) BY DEF Init, Has, Ends
  <2> QED BY <2>1 DEF Serving, Served
<1>2. Cardinality({}) = 0 BY FS_EmptySet
<1>3. \A n \in Node : Cardinality(Serving(n)) = 0 /\ Cardinality(Served(n)) = 0 BY <1>1, <1>2
<1>4. live \in [Node -> Nat] /\ \A n \in Node : live[n] = 0 BY DEF Init
<1> QED BY <1>3, <1>4 DEF LiveInv

\* A session is counted when it is registered,
LEMMA BindLive ==
    ASSUME RegistryTypes, LiveInv, NEW e \in Ends, Bind(e) PROVE LiveInv'
<1>1. CASE Fail(e) BY <1>1, LiveMoves DEF Fail, Drop, nodes
<1>2. CASE at' = [at EXCEPT ![e] = "enter"] /\ live' = [live EXCEPT ![e[2]] = @ + 1] /\ dialed' = dialed
  <2>1. at[e] = "binding" /\ Has(e) BY DEF Bind
  <2>2. PICK c \in Conn, m \in Node : e = <<c, m>> BY DEF Ends
  <2>3. at'[e] = "enter" /\ \A f \in Ends : f # e => at'[f] = at[f] BY <1>2 DEF RegistryTypes
  <2>4. live' \in [Node -> Nat] /\ live'[m] = live[m] + 1 /\ \A n \in Node : n # m => live'[n] = live[n]
        BY <1>2, <2>2 DEF LiveInv
  <2>5. \A d \in Conn, n \in Node : /\ <<d, n>> \in Ends
                                    /\ <<d, n>> = e <=> d = c /\ n = m
                                    /\ Has(<<d, n>>)' = Has(<<d, n>>)
        BY <1>2, <2>2 DEF Ends, Has
  <2>6. ASSUME NEW n \in Node, n # m PROVE Serving(n)' = Serving(n) /\ Served(n)' = Served(n)
        BY <2>3, <2>5, <2>6 DEF Serving, Served
  <2>7. Serving(m)' = Serving(m) \cup {c} /\ c \notin Serving(m)
        BY <2>1, <2>2, <2>3, <2>5 DEF Serving
  <2>8. Served(m)' = Served(m) \cup {c} /\ c \notin Served(m)
        BY <2>1, <2>2, <2>3, <2>5 DEF Served
  <2>9. IsFiniteSet(Serving(m)) /\ IsFiniteSet(Served(m))
    <3>1. Serving(m) \in SUBSET Conn /\ Served(m) \in SUBSET Conn BY DEF Serving, Served
    <3> QED BY <3>1, ConnSets
  <2>10. Cardinality(Serving(m)') = Cardinality(Serving(m)) + 1 /\ Cardinality(Served(m)') = Cardinality(Served(m)) + 1
         BY <2>7, <2>8, <2>9, FS_AddElement
  <2>11. Cardinality(Serving(m)) \in Nat /\ Cardinality(Served(m)) \in Nat BY <2>9, FS_CardinalityType
  <2>12. Cardinality(Serving(m)') <= live'[m] /\ live'[m] <= Cardinality(Served(m)')
         BY <2>4, <2>10, <2>11 DEF LiveInv
  <2> QED BY <2>4, <2>6, <2>12 DEF LiveInv
<1> QED BY <1>1, <1>2 DEF Bind, Counted

\* and counted off when its loop ends.
LEMMA FinishLive ==
    ASSUME RegistryTypes, LiveInv, NEW e \in Ends, Has(e), Running(e), Finish(e) PROVE LiveInv'
<1>1. PICK c \in Conn, m \in Node : e = <<c, m>> BY DEF Ends
<1>2. at'[e] = "done" /\ dialed' = dialed /\ \A f \in Ends : f # e => at'[f] = at[f] BY DEF Finish, Drop
<1>3. live' = [live EXCEPT ![m] = IF @ > 0 THEN @ - 1 ELSE 0] BY <1>1 DEF Finish
<1>4. \A d \in Conn, n \in Node : /\ <<d, n>> \in Ends
                                  /\ <<d, n>> = e <=> d = c /\ n = m
                                  /\ Has(<<d, n>>)' = Has(<<d, n>>)
      BY <1>1, <1>2 DEF Ends, Has
<1>5. ASSUME NEW n \in Node, n # m PROVE Serving(n)' = Serving(n) /\ Served(n)' = Served(n)
      BY <1>2, <1>4, <1>5 DEF Serving, Served
<1>6. Serving(m)' = Serving(m) \ {c} /\ c \in Serving(m)
      BY <1>1, <1>2, <1>4 DEF Serving, Running
<1>7. Served(m)' = Served(m) BY <1>1, <1>2, <1>4 DEF Served, Running
<1>8. IsFiniteSet(Serving(m)) /\ IsFiniteSet(Served(m))
  <2>1. Serving(m) \in SUBSET Conn /\ Served(m) \in SUBSET Conn BY DEF Serving, Served
  <2> QED BY <2>1, ConnSets
<1>9. Cardinality(Serving(m)') = Cardinality(Serving(m)) - 1 BY <1>6, <1>8, FS_RemoveElement
<1>10. Cardinality(Serving(m)) \in Nat /\ Cardinality(Served(m)) \in Nat /\ Cardinality(Serving(m)') \in Nat
  <2>1. IsFiniteSet(Serving(m)') BY <1>6, <1>8, FS_RemoveElement
  <2> QED BY <1>8, <2>1, FS_CardinalityType
<1>11. live[m] \in Nat /\ Cardinality(Serving(m)) <= live[m] /\ live[m] <= Cardinality(Served(m)) BY DEF LiveInv
<1>12. live[m] > 0 /\ live[m] - 1 \in Nat BY <1>9, <1>10, <1>11
<1>13. live' \in [Node -> Nat] /\ live'[m] = live[m] - 1 /\ \A n \in Node : n # m => live'[n] = live[n]
       BY <1>3, <1>12 DEF LiveInv
<1>14. Cardinality(Serving(m)') <= live'[m] /\ live'[m] <= Cardinality(Served(m)')
       BY <1>7, <1>9, <1>10, <1>11, <1>13
<1> QED BY <1>5, <1>13, <1>14 DEF LiveInv

LEMMA DialLive ==
    ASSUME RegistryTypes, LiveInv, NEW x \in Node, NEW y \in Node, Dial(x, y) PROVE LiveInv'
<1>1. /\ dialed' = Append(dialed, <<x, y>>) /\ live' = live
      /\ at' = [at EXCEPT ![<<Len(dialed) + 1, x>>] = "ee", ![<<Len(dialed) + 1, y>>] = "e"]
      BY DEF Dial, nodes
<1>2. /\ DOMAIN dialed = 1..Len(dialed) /\ Len(dialed) \in Nat /\ DOMAIN dialed \subseteq DOMAIN dialed'
      /\ \A d \in DOMAIN dialed : dialed'[d] = dialed[d] /\ d # Len(dialed) + 1
  <2> DEFINE s == dialed
  <2>1. s \in Seq(Node \X Node) /\ dialed' = Append(s, <<x, y>>) BY <1>1 DEF RegistryTypes
  <2> HIDE DEF s
  <2>2. /\ DOMAIN s = 1..Len(s) /\ Len(s) \in Nat /\ DOMAIN dialed' = 1..Len(s) + 1
        /\ \A d \in 1..Len(s) : dialed'[d] = s[d]
        BY <2>1
  <2>3. \A d \in 1..Len(s) : d # Len(s) + 1 /\ d \in 1..Len(s) + 1 BY <2>2
  <2> QED BY <2>2, <2>3 DEF s
<1>3. \A f \in Ends : /\ at'[f] = at[f] \/ at'[f] \in {"ee", "e"}
                      /\ f[1] # Len(dialed) + 1 => at'[f] = at[f]
  <2> DEFINE c == Len(dialed) + 1  ex == <<c, x>>  ey == <<c, y>>
  <2>1. at' = [at EXCEPT ![ex] = "ee", ![ey] = "e"] /\ ex[1] = c /\ ey[1] = c BY <1>1
  <2>2. at \in [Ends -> States] BY DEF RegistryTypes
  <2> HIDE DEF ex, ey, c
  <2>3. \A f \in Ends : /\ at'[f] = at[f] \/ at'[f] \in {"ee", "e"}
                        /\ f[1] # c => at'[f] = at[f]
        BY <2>1, <2>2
  <2> QED BY <2>3 DEF c
<1> SUFFICES ASSUME NEW n \in Node PROVE Serving(n)' \subseteq Serving(n) /\ Served(n) \subseteq Served(n)'
    BY <1>1, LiveKept
<1>4. \A d \in Conn : <<d, n>> \in Ends BY DEF Ends
<1>5. Serving(n)' \subseteq Serving(n) BY <1>3, <1>4 DEF Serving
<1>6. \A d \in Conn : Has(<<d, n>>) => Has(<<d, n>>)' /\ at'[<<d, n>>] = at[<<d, n>>]
      BY <1>2, <1>3, <1>4 DEF Has
<1>7. Served(n) \subseteq Served(n)' BY <1>6 DEF Served
<1> QED BY <1>5, <1>7

LEMMA RestartLive ==
    ASSUME RegistryTypes, LiveInv, NEW n \in Node, Restart(n) PROVE LiveInv'
<1>1. /\ live' = [live EXCEPT ![n] = 0] /\ dialed' = dialed
      /\ \A e \in Ends : at'[e] = IF e \in EndsOf(n) THEN "done" ELSE at[e]
      BY DEF Restart, Drop
<1>2. \A d \in Conn, m \in Node : /\ <<d, m>> \in Ends
                                  /\ <<d, m>> \in EndsOf(n) <=> m = n
                                  /\ Has(<<d, m>>)' = Has(<<d, m>>)
      BY <1>1 DEF Ends, EndsOf, Has
<1>3. live' \in [Node -> Nat] /\ live'[n] = 0 /\ \A m \in Node : m # n => live'[m] = live[m]
      BY <1>1 DEF LiveInv
<1>4. ASSUME NEW m \in Node, m # n PROVE Serving(m)' = Serving(m) /\ Served(m)' = Served(m)
      BY <1>1, <1>2, <1>4 DEF Serving, Served
<1>5. Serving(n)' = {} BY <1>1, <1>2 DEF Serving
<1>6. Cardinality(Served(n)') \in Nat
  <2>1. Served(n)' \in SUBSET Conn BY DEF Served
  <2> QED BY <2>1, ConnSets, BoundsAssumption
<1>7. Cardinality(Serving(n)') = 0 BY <1>5, FS_EmptySet
<1> QED BY <1>3, <1>4, <1>6, <1>7 DEF LiveInv

LEMMA StepLive == RegistryInv /\ TrafficInv /\ LiveInv /\ [Next]_vars => LiveInv'
<1> SUFFICES ASSUME RegistryInv, RegistryTypes, TrafficInv, LiveInv, [Next]_vars PROVE LiveInv'
    BY DEF RegistryInv
<1>0. \A e \in Ends : Running(e) => Has(e) BY BusyHas DEF Running, Gone
<1>1. ASSUME NEW x \in Node, NEW y \in Node, Dial(x, y) PROVE LiveInv'
      BY <1>1, DialLive
<1>2. ASSUME NEW e \in Ends, Read(e) PROVE LiveInv'
  <2>1. CASE Fail(e) BY <2>1, LiveMoves DEF Fail, Drop, nodes
  <2>2. CASE Handshake(e)
    <3>1. \A f \in Ends : at'[f] = at[f] \/ (at[f] \in Handshaking /\ at'[f] \in {"s", "binding"})
          BY <2>2 DEF Handshake, RegistryTypes
    <3> QED BY <2>2, <3>1, LiveMoves DEF Handshake, nodes
  <2>3. CASE Enter(e)
    <3>1. CASE at[e] = "enter" /\ at' = [at EXCEPT ![e] = "run"] /\ UNCHANGED <<dialed, live>>
      <4>1. \A f \in Ends : at'[f] = at[f] \/ (at[f] = "enter" /\ at'[f] = "run") BY <3>1 DEF RegistryTypes
      <4> QED BY <3>1, <4>1, LiveMoves
    <3> QED BY <2>1, <2>3, <3>1 DEF Enter, nodes
  <2>4. CASE UNCHANGED <<dialed, at, live>> BY <2>4, LiveMoves
  <2>5. CASE Running(e) /\ Finish(e) BY <1>0, <2>5, FinishLive
  <2> QED BY <1>2, <2>1, <2>2, <2>3, <2>4, <2>5, BindLive
          DEF Read, ReadHeader, ReadBody, ReadLost, Rekey, ReadEnd, HandshakeTimeout, nodes
<1>3. ASSUME NEW e \in Ends, WriteOut(e) \/ IdleTimeout(e) \/ Idle(e) PROVE LiveInv'
  <2>1. CASE UNCHANGED <<dialed, at, live>> BY <2>1, LiveMoves
  <2>2. CASE Running(e) /\ Finish(e) BY <1>0, <2>2, FinishLive
  <2> QED BY <1>3, <2>1, <2>2 DEF WriteOut, IdleTimeout, Idle, nodes
<1>4. CASE UNCHANGED <<dialed, at, live>> BY <1>4, LiveMoves
<1>5. ASSUME NEW m \in net.send, TrySend(m[1], m[2], m) PROVE LiveInv' BY <1>4, <1>5 DEF TrySend, nodes
<1>6. ASSUME NEW c \in Conn, Lose(c) PROVE LiveInv' BY <1>4, <1>6 DEF Lose, nodes
<1>7. ASSUME NEW n \in Node, Restart(n) \/ Shutdown(n) \/ Drained(n) \/ Expire(n) PROVE LiveInv'
  <2>1. CASE Shutdown(n) BY <1>4, <2>1 DEF Shutdown
  <2>2. CASE Drained(n) \/ Expire(n) BY <2>2, LiveMoves DEF Drained, Expire, Exit, Drop
  <2> QED BY <1>7, <2>1, <2>2, RestartLive
<1>8. CASE UNCHANGED vars BY <1>4, <1>8 DEF vars, nodes
<1> QED BY <1>1, <1>2, <1>3, <1>5, <1>6, <1>7, <1>8 DEF Next

SessionsInv == RegistryInv /\ TrafficInv /\ BucketInv /\ LiveInv

LEMMA InitSessions == Init => SessionsInv
BY InitRegistry, TrafficInit, BucketInit, LiveInit DEF SessionsInv

LEMMA StepSessions == SessionsInv /\ [Next]_vars => SessionsInv'
BY StepRegistry, StepTraffic, StepBucket, StepLive DEF SessionsInv

LEMMA SessionsTyped == ASSUME SessionsInv PROVE TypeOK
<1>1. TrafficTypes /\ RegistryTypes BY DEF SessionsInv, TrafficInv, RegistryInv
<1>2. ASSUME NEW e \in Ends
      PROVE  /\ \A i \in DOMAIN wire[e] : wire[e][i] \in net.send \cup {Frame(k) : k \in {"e", "ee", "s", "binding", "gossip"}}
             /\ reading[e] \in {"whole", "header", "lost"}
             /\ reading[e] = "header" => wire[e] # <<>> /\ Head(wire[e]) \in net.send \cup {Frame("gossip")}
             /\ Len(queue[e]) <= QueueCap
             /\ sent[e] \in 0..MaxFrames /\ received[e] \in 0..MaxFrames
             /\ tokens[e] \in 0..Burst /\ shed[e] \subseteq DOMAIN arrived[e]
  <2>1. wire[e] \in Seq(Wired) BY <1>1 DEF TrafficTypes
  <2>2. \A i \in DOMAIN wire[e] : wire[e][i] \in Wired BY <2>1
  <2>3. ASSUME reading[e] = "header" PROVE wire[e] # <<>> /\ Head(wire[e]) \in net.send \cup {Frame("gossip")}
    <3>1. Running(e) /\ wire[e] # <<>> BY <1>1, <2>3 DEF TrafficTypes
    <3>2. Has(e) BY <3>1, BusyHas DEF SessionsInv, Running, Gone
    <3>3. Between(wire[e], 4, Written(at[Opposite(e)]))
      <4>1. Awaited("run") = 4 BY DEF Awaited
      <4> QED BY <3>1, <3>2, <4>1 DEF Running, SessionsInv, TrafficInv, WireAt
    <3>4. Head(wire[e]) = wire[e][1] /\ 1 \in DOMAIN wire[e] BY <2>1, <3>1
    <3>5. Rank(Head(wire[e])) >= 4 /\ Head(wire[e]) \in Wired BY <2>2, <3>3, <3>4, RankRange DEF Between
    <3>6. ASSUME NEW k \in Kinds, Head(wire[e]) = Frame(k) PROVE k = "gossip"
          BY <3>5, <3>6, FrameRanks DEF Kinds
    <3> QED BY <3>1, <3>5, <3>6 DEF Wired
  <2>4. tokens[e] \in 0..Burst /\ shed[e] \subseteq DOMAIN arrived[e]
        BY DEF SessionsInv, BucketInv, BucketTypes, BucketAt
  <2> QED BY <1>1, <2>2, <2>3, <2>4 DEF TrafficTypes, Wired, Kinds
<1>3. ASSUME NEW n \in Node PROVE live[n] \in 0..MaxDials
  <2>1. Served(n) \in SUBSET Conn BY DEF Served
  <2>2. Cardinality(Served(n)) \in 0..MaxDials BY <2>1, ConnSets
  <2> QED BY <2>2, BoundsAssumption DEF SessionsInv, LiveInv
<1>4. \A c \in DOMAIN dialed : dialed[c] \in net.dial BY <1>1 DEF TrafficTypes
<1> QED BY <1>1, <1>2, <1>3, <1>4 DEF TypeOK, TrafficTypes, RegistryTypes, States

\* framing.rs, pool.rs: among the rest, a body follows a length that was read, a
\* writer queue keeps its bound, and a pool counts no more sessions than there
\* were streams.
THEOREM SessionTypes == Spec => []TypeOK
<1> QED BY InitSessions, StepSessions, SessionsTyped, PTL DEF Spec

LEMMA DrainedAlone ==
    ASSUME SessionsInv, [Next]_vars, NEW n \in Node, mode[n] = "stopping", mode'[n] = "drained",
           NEW e \in EndsOf(n)
    PROVE  at[e] \notin {"enter", "run"}
<1>1. mode \in [Node -> {"up", "stopping", "drained", "expired"}]
      BY DEF SessionsInv, RegistryInv, RegistryTypes
<1>2. ASSUME mode' = mode PROVE FALSE BY <1>2
<1>3. \A m \in Node : ~ Restart(m) BY <1>2 DEF Restart
<1>4. \A m \in Node : Shutdown(m) => FALSE BY <1>1 DEF Shutdown
<1>5. \A m \in Node : Expire(m) => FALSE BY <1>1 DEF Expire, Exit
<1>6. \A f \in Ends : Fail(f) \/ Finish(f) => FALSE BY <1>2 DEF Fail, Finish, nodes
<1>7. \A f \in Ends : ~ Read(f)
      BY <1>2, <1>6 DEF Read, Handshake, Bind, Enter, ReadHeader, ReadBody, ReadLost, Rekey, ReadEnd,
                        HandshakeTimeout, nodes
<1>8. \A f \in Ends : ~ (WriteOut(f) \/ IdleTimeout(f) \/ Idle(f))
      BY <1>2, <1>6 DEF WriteOut, IdleTimeout, Idle, nodes
<1>9. PICK m \in Node : Drained(m)
      BY <1>2, <1>3, <1>4, <1>5, <1>7, <1>8 DEF Next, vars, nodes, Dial, TrySend, Lose
<1>10. m = n BY <1>1, <1>9 DEF Drained, Exit
<1>11. live[n] = 0 /\ Cardinality(Serving(n)) <= live[n] BY <1>9, <1>10 DEF Drained, SessionsInv, LiveInv
<1>12. Serving(n) \in SUBSET Conn BY DEF Serving
<1>13. IsFiniteSet(Serving(n)) /\ Cardinality(Serving(n)) \in Nat BY <1>12, ConnSets, BoundsAssumption
<1>14. Serving(n) = {} BY <1>11, <1>13, FS_EmptySet
<1> QED BY <1>14 DEF Serving, EndsOf

\* run.rs, pool.rs live: a node that stops before its grace period is over has
\* no session whose task still runs, though sessions may have replaced one
\* another, been lost and failed in any order before it.
THEOREM DrainedMeansDone == Spec => StopsDrained
<1>1. SessionsInv /\ [Next]_vars =>
          [\A n \in Node : mode'[n] = "drained" /\ mode[n] = "stopping" =>
               \A e \in EndsOf(n) : at[e] \notin {"enter", "run"}]_vars
      BY DrainedAlone
<1> QED BY <1>1, InitSessions, StepSessions, PTL DEF Spec, StopsDrained
=============================================================================
