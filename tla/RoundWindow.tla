---------------------------- MODULE RoundWindow ----------------------------
(***************************************************************************)
(* What the receiver side promises, and nothing about how: within one      *)
(* replay window an initiator's rounds are accepted with strictly          *)
(* increasing epochs, so none is accepted twice and no epoch has two       *)
(* accepted rounds.  An operator may open a fresh window.                  *)
(***************************************************************************)
EXTENDS Naturals

CONSTANTS Initiators, Bodies, MaxUsable

Rounds == [initiator : Initiators, epoch : 0..MaxUsable, body : Bodies]

VARIABLE accepted

Init == accepted = {}

Accept ==
    \E r \in Rounds :
        /\ \A a \in accepted : a.initiator = r.initiator => a.epoch < r.epoch
        /\ accepted' = accepted \cup {r}

NewWindow == accepted' = {}

Next == Accept \/ NewWindow

Spec == Init /\ [][Next]_accepted
=============================================================================
