----------------------------- MODULE MCSessions ----------------------------
(* Deployments of Sessions for TLC. *)
EXTENDS Sessions

CONSTANTS a, b, d

Base == [dial |-> {<<a, b>>}, limit |-> 3, send |-> {}, faulty |-> {}, stopping |-> {},
         faults |-> 0, stalls |-> FALSE, stallsInBind |-> FALSE]

(* Two nodes dial each other. *)
Crossing == [Base EXCEPT !.dial = {<<a, b>>, <<b, a>>}]
(* One dials; streams close, sessions idle out, nodes crash; two of these. *)
Faulty == [Base EXCEPT !.faults = 2]
(* Streams may stall. *)
Stalling == [Base EXCEPT !.faults = 1, !.stalls = TRUE]
(* Payloads both ways, up to rekeying. *)
Busy == [Base EXCEPT !.send = {<<a, b, 1>>, <<b, a, 1>>, <<b, a, 2>>}]
(* A payload the receiver takes for a violation of its peer. *)
Rejected == [Base EXCEPT !.send = {<<a, b, 1>>}, !.faulty = {<<a, b, 1>>}]
(* b stops, maybe while a session replaces another. *)
Stop == [Base EXCEPT !.stopping = {b}, !.faults = 1]
(* Room for one peer. *)
Full == [Base EXCEPT !.dial = {<<a, b>>, <<d, b>>}, !.limit = 1]

Networks == {Crossing, Faulty, Stalling, Busy, Rejected, Stop, Full}
Fulls == {Full}
Busys == {Busy}
Stops == {Stop}
Faultys == {Faulty}
Stalls == {[Stalling EXCEPT !.stallsInBind = TRUE]}
=============================================================================
