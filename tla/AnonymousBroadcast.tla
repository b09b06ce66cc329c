------------------------ MODULE AnonymousBroadcast ------------------------
(***************************************************************************)
(* What the anonymous layer promises, and nothing about how: a message its *)
(* author has submitted is carried by one round only, a round carries one  *)
(* message only, the author sees it come out as it goes in, and every      *)
(* other node sees what the round carries, at most once, or nothing.       *)
(* Nobody promises that the others do see it.                              *)
(***************************************************************************)
CONSTANTS
    Msg,
    Author      \* [Msg -> the node that submits it]

VARIABLES
    submitted,  \* messages
    carried,    \* which round carried which message: [round, msg]
    shown       \* what came out of a round at a node: [node, round, msg]

vars == <<submitted, carried, shown>>

Init == submitted = {} /\ carried = {} /\ shown = {}

Submit(m) ==
    /\ m \notin submitted
    /\ submitted' = submitted \cup {m}
    /\ UNCHANGED <<carried, shown>>

Carry(c) ==
    /\ c.msg \in submitted
    /\ \A b \in carried : b.round # c.round /\ b.msg # c.msg
    /\ carried' = carried \cup {c}
    /\ shown' = shown \cup {[node |-> Author[c.msg], round |-> c.round, msg |-> c.msg]}
    /\ UNCHANGED submitted

Show(s) ==
    /\ [round |-> s.round, msg |-> s.msg] \in carried
    /\ \A t \in shown : t.node = s.node => t.round # s.round
    /\ shown' = shown \cup {s}
    /\ UNCHANGED <<submitted, carried>>

\* Rounds and nodes are whatever a step adds.
Next ==
    \/ \E m \in Msg : Submit(m)
    \/ \E c \in carried' \ carried : Carry(c)
    \/ \E s \in shown' \ shown : Show(s)

Spec == Init /\ [][Next]_vars
=============================================================================
