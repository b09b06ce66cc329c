------------------------------ MODULE MCSocial ------------------------------
(* Deployments of Social for TLC: a ring of three, in which an object could *)
(* circulate, and two nodes whose sessions break.                           *)
EXTENDS Social

CONSTANTS n1, n2, n3, chan, board, bad

Note(n, topic, time) == [sender |-> n, topic |-> topic, time |-> time]
Early == Note(n1, chan, 1)
Post == Note(n2, board, 1)
Reply == Note(n1, board, 2)
Late == Note(n2, chan, 2)
Spoilt == Note(n1, bad, 1)

Everywhere(T) == [n \in Node |-> T]
Ring == [link |-> {{n1, n2}, {n2, n3}, {n1, n3}}, object |-> {Early},
         configured |-> Everywhere({chan}),
         pinned |-> [n \in Node |-> IF n = n3 THEN {n2} ELSE Node],
         limited |-> FALSE, maxCuts |-> 0, maxDeletes |-> 0]
Two == [link |-> {{n1, n2}}, object |-> {Early, Late},
        configured |-> [n \in Node |-> IF n = n1 THEN {chan} ELSE {}],
        pinned |-> Everywhere({}), limited |-> FALSE, maxCuts |-> 1, maxDeletes |-> 1]
Boards == [link |-> {{n1, n2}}, object |-> {Post, Reply},
           configured |-> Everywhere({board}), pinned |-> Everywhere({}),
           limited |-> FALSE, maxCuts |-> 2, maxDeletes |-> 0]
(* The same with a publisher who floods faster than the limit. *)
Fast == [Boards EXCEPT !.limited = TRUE, !.maxCuts = 1]
Objects == {Early, Late, Post, Reply, Spoilt}
Networks == {Ring, Two, Boards, Fast}
(* Deployments of the disagreements. *)
OnlyBoards == {Boards}
OnlyTwo == {Two}
RingDeletes == {[Ring EXCEPT !.pinned = Everywhere(Node), !.maxDeletes = 1]}
SpoiltOnly == {[Two EXCEPT !.object = {Spoilt}, !.maxCuts = 0]}
=============================================================================
