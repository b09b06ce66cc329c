------------------------------ MODULE MCFiles -------------------------------
(* Deployments of Files for TLC. *)
EXTENDS Files

CONSTANTS n1, n2, n3, c1, c2

Size(c) == IF c = c1 THEN 2 ELSE 1
Far(n, c) == IF n = n1 THEN 1 ELSE IF n = n2 THEN 2 ELSE 3

Cut == [owner |-> n1, to |-> n3, chunks |-> <<c1, c2>>]
Short == [owner |-> n1, to |-> n3, chunks |-> <<c1>>]

Line == {{n1, n2}, {n2, n3}}
RingLinks == Line \cup {{n1, n3}}
NoContacts == [n \in Node |-> {}]
ByLine == [n \in Node |-> [m \in Node |->
    IF m = n THEN NoNode ELSE IF {n, m} \in Line THEN m ELSE n2]]
Everyone == [n \in Node |-> Node]
Room(b1, b2, b3) == [n \in Node |-> IF n = n1 THEN b1 ELSE IF n = n2 THEN b2 ELSE b3]

Base == [link |-> RingLinks, file |-> {Cut}, knows |-> Everyone, contact |-> NoContacts,
         budget |-> Room(3, 3, 3),
         hop |-> ByLine, timeouts |-> FALSE, prompt |-> FALSE, restarting |-> {},
         maxShed |-> 0]

(* A ring; the relay of the manifest stores nothing.  A restart of the        *)
(* recipient can lose the chunks and not the manifest: it has to fetch.       *)
RingNet == [Base EXCEPT !.budget = Room(3, 0, 3), !.restarting = {n3}, !.file = {Short}]
(* A line; the recipient's neighbour has room for the second chunk only, so   *)
(* the first is nowhere near, and the fetch gives up.                         *)
LineNet == [Base EXCEPT !.link = Line, !.budget = Room(3, 1, 3), !.timeouts = TRUE]
(* A ring with room everywhere.                                               *)
WideNet == [Base EXCEPT !.restarting = {n2}]
(* n2 does not know the owner, and gets its chunks from n3 only. *)
StrangerNet == [Base EXCEPT !.file = {Short}, !.link = {{n1, n3}, {n2, n3}},
                            !.hop = [n \in Node |-> [m \in Node |-> m]],
                            !.knows = [n \in Node |-> IF n = n2 THEN {} ELSE Node]]
(* The ring without a restart, where a session may be over its limit once. *)
FastNet == [RingNet EXCEPT !.restarting = {}, !.maxShed = 1]
Files2 == {Cut, Short}
Networks == {RingNet, LineNet, WideNet, StrangerNet, FastNet}

(* Contacts as they would be if the node recorded its peers. *)
KnownPeers == [n \in Node |-> {m \in Node : {n, m} \in Line}]
Forwarding == {[LineNet EXCEPT !.timeouts = FALSE, !.contact = KnownPeers, !.prompt = TRUE, !.budget = Room(3, 0, 3)],
               [RingNet EXCEPT !.contact = [n \in Node |-> Node \ {n}], !.prompt = TRUE, !.restarting = {}]}
NoForwarding == {[LineNet EXCEPT !.timeouts = FALSE, !.budget = Room(3, 0, 3)]}
=============================================================================
