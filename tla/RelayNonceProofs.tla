-------------------------- MODULE RelayNonceProofs --------------------------
(* Proofs about RelayNonce, for every set of tasks, block size and clock.   *)
EXTENDS RelayNonce, TLAPS

USE DEF Idle, Locked

LEMMA LargerBounds ==
    ASSUME NEW a \in Nat, NEW b \in Nat
    PROVE  Larger(a, b) \in Nat /\ a <= Larger(a, b) /\ b <= Larger(a, b)
  BY DEF Larger

LEMMA PersistedType == TypeOK => Persisted \in Nat
  BY DEF TypeOK, Persisted

LEMMA InitInv == Init => Inv
<1> SUFFICES ASSUME Init PROVE Inv
  OBVIOUS
<1>1. \A t \in Task : task[t] = [pc |-> "idle", nonce |-> 0]
  BY DEF Init
<1>2. TypeOK
  <2>1. task \in [Task -> [pc : {"idle", "taken", "reserving"} \cup Locked, nonce : Nat]]
    BY DEF Init
  <2>2. starts \in 0..MaxStarts /\ \A t \in Task : task[t].nonce <= value
    BY <1>1, BoundAssumption DEF Init
  <2>3. value \in Nat /\ reservation \in Nat /\ file \in Nat \cup {Torn} /\ gap \in BOOLEAN
    BY DEF Init
  <2>4. used \subseteq [nonce : Nat, start : 1..starts]
    BY DEF Init
  <2> QED
    BY <1>1, <2>1, <2>2, <2>3, <2>4 DEF TypeOK
<1>3. Fresh /\ Holder
  BY <1>1 DEF Fresh, Holder, Active
<1>4. Below /\ Covered /\ UniqueNonces
  BY <1>1, PersistedType DEF Init, Below, Covered, UniqueNonces, Active, Persisted
<1> QED
  BY <1>2, <1>3, <1>4 DEF Inv

\* A start continues above the file, which covers what was used.
LEMMA StartKeepsInv == Inv /\ Start => Inv'
<1> SUFFICES ASSUME Inv, Start PROVE Inv'
  OBVIOUS
<1>1. PICK now \in Clocks : value' = StartAbove(now) /\ reservation' = value'
  BY DEF Start
<1>2. now \in Nat /\ Persisted \in Nat
  BY ClockAssumption, PersistedType DEF Inv
<1>3. value' \in Nat /\ Persisted <= value'
  BY <1>1, <1>2, LargerBounds DEF StartAbove
<1>4. Persisted' = Persisted /\ used' = used
  BY DEF Start, Persisted
<1>5. \A t \in Task : task'[t] = [pc |-> "idle", nonce |-> 0]
  BY DEF Start
<1>6. TypeOK'
  <2>1. starts' \in 0..MaxStarts /\ 1..starts \subseteq 1..starts'
    BY BoundAssumption DEF Inv, TypeOK, Start
  <2>2. task' \in [Task -> [pc : {"idle", "taken", "reserving"} \cup Locked, nonce : Nat]]
    BY DEF Start
  <2>3. gap' \in BOOLEAN
    BY DEF Start, Inv, TypeOK
  <2> QED
    BY <1>1, <1>3, <1>5, <2>1, <2>2, <2>3 DEF Inv, TypeOK, Start
<1>7. ~gap' => ~gap /\ ~Unwritten
  BY DEF Start, Inv, TypeOK
<1>8. ~gap' => \A u \in used : u.nonce <= Persisted /\ u.nonce \in Nat
  BY <1>7 DEF Inv, Covered, TypeOK
<1>9. Below'
  BY <1>1, <1>2, <1>3, <1>4, <1>8 DEF Below
<1>10. Covered'
  BY <1>1, <1>3, <1>4, <1>5, <1>8 DEF Covered, Active
<1>11. Fresh' /\ Holder'
  BY <1>5 DEF Fresh, Holder, Active
<1>12. UniqueNonces'
  BY <1>4, <1>7 DEF Inv, UniqueNonces
<1> QED
  BY <1>6, <1>9, <1>10, <1>11, <1>12 DEF Inv

LEMMA TakeKeepsInv ==
    ASSUME NEW t \in Task, Inv, Take(t)
    PROVE  Inv'
<1>1. TypeOK'
  BY DEF Inv, TypeOK, Take
<1>2. Fresh'
  BY DEF Inv, TypeOK, Fresh, Below, Active, Take
<1>3. Below' /\ UniqueNonces'
  BY DEF Inv, TypeOK, Below, UniqueNonces, Take
<1>4. Covered'
  BY PersistedType DEF Inv, TypeOK, Covered, Active, Unwritten, Persisted, Take
<1>5. Holder'
  BY DEF Inv, TypeOK, Holder, Upto, Take
<1> QED
  BY <1>1, <1>2, <1>3, <1>4, <1>5 DEF Inv

\* A nonce that is returned was in no use, and the file covers it by then.
LEMMA ReturnKeepsInv ==
    ASSUME NEW t \in Task, Inv, Active(t), Return(t),
           UNCHANGED <<value, reservation, file, starts>>,
           gap' \in BOOLEAN, ~gap' => ~gap,
           ~gap' => task[t].nonce <= reservation,
           ~gap' => Unwritten' = Unwritten,
           ~gap' /\ ~Unwritten => task[t].nonce <= Persisted
    PROVE  Inv'
<1> DEFINE new == [nonce |-> task[t].nonce, start |-> starts]
<1>1. TypeOK'
  BY DEF Inv, TypeOK, Active, Return
<1>2. Fresh'
  BY DEF Inv, TypeOK, Fresh, Active, Return
<1>3. Below'
  BY DEF Inv, TypeOK, Below, Return
<1>4. Covered'
  BY PersistedType DEF Inv, TypeOK, Covered, Active, Persisted, Return
<1>5. Holder'
  BY DEF Inv, TypeOK, Holder, Upto, Return
<1>6. UniqueNonces'
  BY DEF Inv, TypeOK, Fresh, UniqueNonces, Return
<1> QED
  BY <1>1, <1>2, <1>3, <1>4, <1>5, <1>6 DEF Inv

LEMMA ReservedKeepsInv ==
    ASSUME NEW t \in Task, Inv, Reserved(t)
    PROVE  Inv'
<1>1. Active(t)
  BY DEF Reserved, Active
<1>2. Unwritten' = Unwritten
  BY DEF Inv, TypeOK, Unwritten, Reserved, Return
<1>3. task[t].nonce \in Nat /\ task[t].nonce < reservation /\ reservation \in Nat
  BY DEF Inv, TypeOK, Reserved
<1>4. ~gap /\ ~Unwritten => task[t].nonce <= Persisted
  BY <1>1, <1>3, PersistedType DEF Inv, Covered
<1> QED
  BY <1>1, <1>2, <1>3, <1>4, ReturnKeepsInv DEF Reserved, Inv, TypeOK

LEMMA NotReservedKeepsInv ==
    ASSUME NEW t \in Task, Inv, NotReserved(t)
    PROVE  Inv'
<1>1. TypeOK'
  BY DEF Inv, TypeOK, NotReserved, Goto
<1>2. Fresh'
  BY DEF Inv, TypeOK, Fresh, Active, NotReserved, Goto
<1>3. Below' /\ UniqueNonces'
  BY DEF Inv, Below, UniqueNonces, NotReserved
<1>4. Covered'
  BY DEF Inv, TypeOK, Covered, Active, Unwritten, Persisted, NotReserved, Goto
<1>5. Holder'
  BY DEF Inv, TypeOK, Holder, Upto, NotReserved, Goto
<1> QED
  BY <1>1, <1>2, <1>3, <1>4, <1>5 DEF Inv

LEMMA RaiseKeepsInv ==
    ASSUME NEW t \in Task, Inv, Raise(t)
    PROVE  Inv'
<1>1. Upto(t) \in Nat
  BY BlockAssumption DEF Inv, TypeOK, Upto
<1>2. reservation' \in Nat /\ reservation <= reservation' /\ Upto(t) <= reservation'
  BY <1>1, LargerBounds DEF Inv, TypeOK, Raise
<1>3. TypeOK'
  BY <1>2 DEF Inv, TypeOK, Raise, Goto
<1>4. Fresh' /\ UniqueNonces'
  BY DEF Inv, TypeOK, Fresh, Active, UniqueNonces, Raise, Goto
<1>5. Below'
  BY <1>2 DEF Inv, TypeOK, Below, Raise
<1>6. Covered'
  BY DEF Inv, TypeOK, Covered, Unwritten, Raise, Goto
<1>7. Holder'
  BY <1>2 DEF Inv, TypeOK, Holder, Upto, Raise, Goto
<1> QED
  BY <1>3, <1>4, <1>5, <1>6, <1>7 DEF Inv

LEMMA TruncateKeepsInv ==
    ASSUME NEW t \in Task, Inv, Truncate(t)
    PROVE  Inv'
<1>1. TypeOK'
  BY DEF Inv, TypeOK, Truncate, Goto
<1>2. Fresh' /\ Below' /\ UniqueNonces'
  BY DEF Inv, TypeOK, Fresh, Below, Active, UniqueNonces, Truncate, Goto
<1>3. Covered'
  BY DEF Inv, TypeOK, Covered, Unwritten, Truncate, Goto
<1>4. Holder'
  BY DEF Inv, TypeOK, Holder, Upto, Truncate, Goto
<1> QED
  BY <1>1, <1>2, <1>3, <1>4 DEF Inv

\* Unless the block written is below the reservation, it covers what was used.
LEMMA WriteKeepsInv ==
    ASSUME NEW t \in Task, Inv, Write(t)
    PROVE  Inv'
<1>1. Upto(t) \in Nat /\ file' = Upto(t) /\ file' # Torn /\ Persisted' = Upto(t)
  BY BlockAssumption, TornAssumption DEF Inv, TypeOK, Upto, Write, Persisted
<1>2. ~gap' => ~gap /\ reservation <= Upto(t) /\ reservation' = reservation
  <2>1. reservation \in Nat /\ reservation' = reservation
    BY DEF Inv, TypeOK, Write
  <2>2. ~gap' => ~gap /\ ~(Upto(t) < reservation)
    BY DEF Write
  <2> QED
    BY <1>1, <2>1, <2>2
<1>3. TypeOK'
  BY <1>1 DEF Inv, TypeOK, Write, Goto
<1>4. Fresh'
  BY DEF Inv, TypeOK, Fresh, Active, Write, Goto
<1>5. Below' /\ UniqueNonces'
  BY <1>2 DEF Inv, Below, UniqueNonces, Write
<1>6. Covered'
  BY <1>1, <1>2 DEF Inv, TypeOK, Below, Covered, Write
<1>7. Holder'
  BY <1>1, <1>2 DEF Inv, TypeOK, Holder, Upto, Write, Goto
<1> QED
  BY <1>3, <1>4, <1>5, <1>6, <1>7 DEF Inv

LEMMA SyncedKeepsInv ==
    ASSUME NEW t \in Task, Inv, Synced(t)
    PROVE  Inv'
<1>1. Active(t)
  BY DEF Synced, Active
<1>2. Unwritten' = Unwritten
  BY DEF Inv, TypeOK, Unwritten, Synced, Return
<1>3. task[t].nonce \in Nat /\ task[t].nonce <= Upto(t) /\ Upto(t) \in Nat
  BY BlockAssumption DEF Inv, TypeOK, Upto
<1>4. task[t].nonce <= reservation
  BY <1>3 DEF Inv, TypeOK, Holder, Synced
<1>5. task[t].nonce <= Persisted
  BY <1>3, TornAssumption DEF Inv, Holder, Synced, Persisted
<1> QED
  BY <1>1, <1>2, <1>4, <1>5, ReturnKeepsInv DEF Synced, Inv, TypeOK

LEMMA WriteFailsKeepsInv ==
    ASSUME NEW t \in Task, Inv, WriteFails(t)
    PROVE  Inv'
  BY ReturnKeepsInv DEF WriteFails, Active

\* For every number of tasks, block size and clock, and whatever is killed or
\* fails: the inductive invariant of the nonce source.
THEOREM Invariance == Spec => []Inv
<1>1. Init => Inv
  BY InitInv
<1>2. Inv /\ [Next]_vars => Inv'
  <2> SUFFICES ASSUME Inv, [Next]_vars PROVE Inv'
    OBVIOUS
  <2>1. CASE Start
    BY <2>1, StartKeepsInv
  <2>2. ASSUME NEW t \in Task, Take(t) PROVE Inv'
    BY <2>2, TakeKeepsInv
  <2>3. ASSUME NEW t \in Task, Reserved(t) PROVE Inv'
    BY <2>3, ReservedKeepsInv
  <2>4. ASSUME NEW t \in Task, NotReserved(t) PROVE Inv'
    BY <2>4, NotReservedKeepsInv
  <2>5. ASSUME NEW t \in Task, Raise(t) PROVE Inv'
    BY <2>5, RaiseKeepsInv
  <2>6. ASSUME NEW t \in Task, Truncate(t) PROVE Inv'
    BY <2>6, TruncateKeepsInv
  <2>7. ASSUME NEW t \in Task, Write(t) PROVE Inv'
    BY <2>7, WriteKeepsInv
  <2>8. ASSUME NEW t \in Task, Synced(t) PROVE Inv'
    BY <2>8, SyncedKeepsInv
  <2>9. ASSUME NEW t \in Task, WriteFails(t) PROVE Inv'
    BY <2>9, WriteFailsKeepsInv
  <2>10. CASE UNCHANGED vars
    BY <2>10 DEF vars, Inv, TypeOK, Fresh, Below, Covered, Holder, UniqueNonces,
                 Active, Persisted, Unwritten, Upto
  <2> QED
    BY <2>1, <2>2, <2>3, <2>4, <2>5, <2>6, <2>7, <2>8, <2>9, <2>10 DEF Next
<1> QED
  BY <1>1, <1>2, PTL DEF Spec

\* As long as every write of the file was completed and none replaced a higher
\* block, no nonce is handed out twice, over any number of starts.
THEOREM NoncesUnique == Spec => []UniqueNonces
<1>1. Inv => UniqueNonces
  BY DEF Inv
<1> QED
  BY <1>1, Invariance, PTL

\* Under the same condition, the file covers every nonce between two writes.
THEOREM FileCoversUsed == Spec => []FileCovers
<1>1. Inv => FileCovers
  BY DEF Inv, Covered, FileCovers, Writing, Unwritten
<1> QED
  BY <1>1, Invariance, PTL
=============================================================================
