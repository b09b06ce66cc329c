---------------------------- MODULE EpochSource ----------------------------
(***************************************************************************)
(* What the initiator side promises its peers, and nothing about how:      *)
(* epochs of one namespace are handed out in strictly increasing order and *)
(* never beyond the usable range, whatever crashes and however writes fail.*)
(* An operator may open a new namespace.                                   *)
(***************************************************************************)
EXTENDS Naturals

CONSTANT MaxUsable  \* EPOCH_MAX_USABLE

VARIABLE issued     \* epochs handed out in the current namespace

Init == issued = {}

Issue ==
    \E e \in 1..MaxUsable :
        /\ \A f \in issued : f < e
        /\ issued' = issued \cup {e}

NewNamespace == issued' = {}

Next == Issue \/ NewNamespace

Spec == Init /\ [][Next]_issued
=============================================================================
