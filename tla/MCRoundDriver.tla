--------------------------- MODULE MCRoundDriver ---------------------------
(* Small instances of RoundDriver for TLC.                                  *)
EXTENDS RoundDriver

CONSTANTS m1, m2, m3, general, other

Duo == {1, 2}
Trio == {1, 2, 3}

\* Sessions and trust stores.
FullMesh == [n \in Node |-> Node \ {n}]
Star == [n \in Node |-> IF n = 1 THEN Node \ {1} ELSE {1}]
Neighbours == [n \in Node |-> {n} \cup Star[n]]
Everyone == [n \in Node |-> Node]

FastTwo == [n \in Node |-> IF n = 2 THEN 2 ELSE 0]
NoOffset == [n \in Node |-> 0]

Authors12 == [m \in Msg |-> IF m = m1 THEN 1 ELSE 2]
Authors121 == [m \in Msg |-> IF m = m2 THEN 2 ELSE 1]
Author2 == [m \in Msg |-> 2]
Author1 == [m \in Msg |-> 1]

OneChannel == [m \in Msg |-> general]
TwoChannels == [m \in Msg |-> IF m = m1 THEN general ELSE other]
=============================================================================
