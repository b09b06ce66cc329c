----------------------------- MODULE TrustGraph -----------------------------
(***************************************************************************)
(* fantuan-identity trust_graph.rs: the level a node gives its peers       *)
(* follows from the vouches it stores.  A vouch counts as much as its      *)
(* signer is trusted, and no more than the level it states.                *)
(***************************************************************************)
EXTENDS Integers

CONSTANT Peer

\* trust.rs TrustLevel; overrides are never set by the node, nor is Never.
Unknown == 0
Marginal == 1
Full == 2
Ultimate == 3
Level == Unknown..Ultimate

NoVouch == -1   \* no row for <<signer, subject>>

\* rel[<<signer, subject>>]: the declared levels, at most one per pair.
Relationships == [Peer \X Peer -> Level \cup {NoVouch}]
TrustMap == [Peer -> Level]

\* min(signer trust, declared level) reaches level.
Contributes(rel, trust, signer, subject, level) ==
    trust[signer] >= level /\ rel[<<signer, subject>>] >= level

\* The level of subject s: one full introducer or two marginal ones, or one.
NewLevel(rel, trust, s) ==
    IF \/ \E p \in Peer : Contributes(rel, trust, p, s, Full)
       \/ \E p, q \in Peer : /\ p # q
                             /\ Contributes(rel, trust, p, s, Marginal)
                             /\ Contributes(rel, trust, q, s, Marginal)
    THEN Full
    ELSE IF \E p \in Peer : Contributes(rel, trust, p, s, Marginal) THEN Marginal ELSE Unknown

\* Where compute starts.
Start(own) == [p \in Peer |-> IF p = own THEN Ultimate ELSE Unknown]

\* Subjects the loop would change.
Unsettled(own, rel, trust) == {s \in Peer \ {own} : trust[s] # NewLevel(rel, trust, s)}

Raise(rel, trust, s) == [trust EXCEPT ![s] = NewLevel(rel, trust, s)]

\* A map the loop would leave as it is.
IsFixpoint(own, rel, trust) == trust[own] = Ultimate /\ Unsettled(own, rel, trust) = {}

AtMost(t, u) == \A p \in Peer : t[p] <= u[p]

\* The scores every order of the subjects must lead to.
IsLeastFixpoint(own, rel, trust) ==
    /\ IsFixpoint(own, rel, trust)
    /\ \A f \in TrustMap : IsFixpoint(own, rel, f) => AtMost(trust, f)
=============================================================================
