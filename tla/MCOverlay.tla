----------------------------- MODULE MCOverlay ------------------------------
(* Deployments of Overlay for TLC. *)
EXTENDS Overlay

CONSTANTS n1, n2, n3

Line == {{n1, n2}, {n2, n3}}
Ring == Line \cup {{n1, n3}}
Base == [link |-> Line, made |-> {}, vouch |-> {}, requireVouch |-> FALSE, envelope |-> {},
         limited |-> FALSE, restarting |-> {}]

(* A line, an envelope from end to end. *)
Plain == [Base EXCEPT !.envelope = {<<n1, n3>>}]
(* A ring. *)
Cycle == [Base EXCEPT !.link = Ring]
(* A line whose end restarts. *)
End3 == [Base EXCEPT !.restarting = {n3}]
(* Vouches along a line, and a circle of two. *)
Web == [Base EXCEPT !.made = {<<n1, n2, Marginal>>, <<n2, n3, Full>>, <<n3, n2, Marginal>>}]
(* A peer vouched for in mid-session. *)
Late == [Base EXCEPT !.link = {{n1, n2}}, !.vouch = {<<n1, n2, Full>>, <<n2, n1, Marginal>>}]
(* Third parties need a vouch of the sender; n2 vouches for n3. *)
Guarded == [Base EXCEPT !.requireVouch = TRUE, !.made = {<<n2, n3, Full>>}]
(* Two nodes whose sessions may be over their limit. *)
Fast == [Base EXCEPT !.link = {{n1, n2}}, !.envelope = {<<n1, n2>>}, !.limited = TRUE]
Networks == {Guarded, Plain, End3, Web, Late, Fast}
Restarts == {End3}
Rings == {Cycle}
=============================================================================
