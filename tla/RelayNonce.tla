----------------------------- MODULE RelayNonce -----------------------------
(***************************************************************************)
(* fantuan-node nonce.rs: the source of relay nonces.  Tasks take values   *)
(* from an atomic counter without a lock; the one that reaches the end of  *)
(* the reserved block raises the reservation, then writes it to a file,    *)
(* in place, under a lock.  A start continues above the file and the clock.*)
(*                                                                         *)
(* A file cut short reads as nothing or as a smaller number; both are Torn *)
(* here and read as zero.  The atomics are sequentially consistent here,   *)
(* the code's accesses are relaxed.  A counter without a file is left out. *)
(***************************************************************************)
EXTENDS Integers

CONSTANTS
    Task,           \* tasks that send relay envelopes
    Block,          \* RESERVE_BLOCK
    Clocks,         \* what the clock may show when a node starts
    Faults,         \* what may happen: subset of {"kill", "write"}
    Torn,           \* no file, or one that does not parse
    MaxValue, MaxStarts \* bounds of the exploration

ASSUME BlockAssumption == Block \in Nat \ {0}
ASSUME ClockAssumption == Clocks \subseteq Nat
ASSUME FaultAssumption == Faults \subseteq {"kill", "write"}
ASSUME TornAssumption == Torn \notin Int
ASSUME BoundAssumption == MaxValue \in Nat /\ MaxStarts \in Nat

VARIABLES
    value, reservation, \* RelayNonce: the two atomics
    file,               \* what a reader of the file sees
    task,               \* task[t]: where t is inside next, and the value it took
    starts,             \* counter behind MaxStarts; 0 before the first start
    used,               \* history: nonces returned, with the start they belong to
    gap                 \* history: a write failed, was interrupted, or was of a lower block

vars == <<value, reservation, file, task, starts, used, gap>>

Idle == [pc |-> "idle", nonce |-> 0]
Locked == {"raised", "emptied", "written"}
Writing == \E t \in Task : task[t].pc \in Locked
Unwritten == \E t \in Task : task[t].pc \in {"raised", "emptied"}

Larger(a, b) == IF a >= b THEN a ELSE b

Persisted == IF file = Torn THEN 0 ELSE file

Init ==
    /\ value = 0 /\ reservation = 0
    /\ file = Torn
    /\ task = [t \in Task |-> Idle]
    /\ starts = 0
    /\ used = {}
    /\ gap = FALSE

----------------------------------------------------------------------------
\* The previous process has ended between two calls, or was killed in some.
Ended ==
    \/ \A t \in Task : task[t] = Idle
    \/ "kill" \in Faults

\* Mutant: the clock alone.
StartAt(now) == now
StartAbove(now) == Larger(Persisted, now)

\* load
Start ==
    /\ starts < MaxStarts
    /\ Ended
    /\ \E now \in Clocks : value' = StartAbove(now) /\ reservation' = value'
    /\ starts' = starts + 1
    /\ task' = [t \in Task |-> Idle]
    /\ gap' = (gap \/ Unwritten)
    /\ UNCHANGED <<file, used>>

\* next: fetch_add.
Take(t) ==
    /\ starts > 0 /\ value < MaxValue
    /\ task[t] = Idle
    /\ value' = value + 1
    /\ task' = [task EXCEPT ![t] = [pc |-> "taken", nonce |-> value']]
    /\ UNCHANGED <<reservation, file, starts, used, gap>>

Return(t) ==
    /\ used' = used \cup {[nonce |-> task[t].nonce, start |-> starts]}
    /\ task' = [task EXCEPT ![t] = Idle]

Goto(t, pc) == task' = [task EXCEPT ![t].pc = pc]

\* The value is inside the reservation.
Reserved(t) ==
    /\ task[t].pc = "taken" /\ task[t].nonce < reservation
    /\ Return(t)
    /\ UNCHANGED <<value, reservation, file, starts, gap>>

\* It is not: reserve waits for the lock.
NotReserved(t) ==
    /\ task[t].pc = "taken" /\ task[t].nonce >= reservation
    /\ Goto(t, "reserving")
    /\ UNCHANGED <<value, reservation, file, starts, used, gap>>

Upto(t) == task[t].nonce + Block

\* Mutant: the block is raised in memory and written for the next value.
RaiseAndReturn(t) ==
    /\ task[t].pc = "reserving"
    /\ \A u \in Task : task[u].pc \notin Locked
    /\ reservation' = Larger(reservation, Upto(t))
    /\ Return(t)
    /\ UNCHANGED <<value, file, starts, gap>>

\* Mutant: without the lock.
RaiseUnlocked(t) ==
    /\ task[t].pc = "reserving"
    /\ reservation' = Larger(reservation, Upto(t))
    /\ Goto(t, "raised")
    /\ UNCHANGED <<value, file, starts, used, gap>>

\* The lock is taken and the reservation raised; it is never lowered.
Raise(t) ==
    /\ task[t].pc = "reserving"
    /\ \A u \in Task : task[u].pc \notin Locked
    /\ reservation' = Larger(reservation, Upto(t))
    /\ Goto(t, "raised")
    /\ UNCHANGED <<value, file, starts, used, gap>>

\* write_private_file: truncate, write, fsync.
Truncate(t) ==
    /\ task[t].pc = "raised"
    /\ file' = Torn
    /\ Goto(t, "emptied")
    /\ UNCHANGED <<value, reservation, starts, used, gap>>

Write(t) ==
    /\ task[t].pc = "emptied"
    /\ file' = Upto(t)
    /\ gap' = (gap \/ Upto(t) < reservation)
    /\ Goto(t, "written")
    /\ UNCHANGED <<value, reservation, starts, used>>

Synced(t) ==
    /\ task[t].pc = "written"
    /\ Return(t)
    /\ UNCHANGED <<value, reservation, file, starts, gap>>

\* The write fails, with a warning: the nonce is returned all the same.
WriteFails(t) ==
    /\ "write" \in Faults
    /\ task[t].pc \in Locked
    /\ gap' = TRUE
    /\ Return(t)
    /\ UNCHANGED <<value, reservation, file, starts>>

Next ==
    \/ Start
    \/ \E t \in Task :
        \/ Take(t) \/ Reserved(t) \/ NotReserved(t) \/ Raise(t)
        \/ Truncate(t) \/ Write(t) \/ Synced(t) \/ WriteFails(t)

Spec == Init /\ [][Next]_vars

----------------------------------------------------------------------------
(* Properties *)

TypeOK ==
    /\ value \in Nat /\ reservation \in Nat
    /\ file \in Nat \cup {Torn}
    /\ task \in [Task -> [pc : {"idle", "taken", "reserving"} \cup Locked, nonce : Nat]]
    /\ \A t \in Task : task[t].nonce <= value /\ (task[t].pc # "idle" => starts > 0)
    /\ \A s, t \in Task : task[s].pc \in Locked /\ task[t].pc \in Locked => s = t
    /\ starts \in 0..MaxStarts
    /\ used \subseteq [nonce : Nat, start : 1..starts]
    /\ gap \in BOOLEAN

\* "A node must never hand out a nonce it has used before, not even across a
\* restart": tasks that race for a block, kills and clocks set back included, a
\* nonce is only repeated when a write of the file failed, was interrupted, or
\* replaced a higher block by a lower one.
UniqueNonces == ~gap => \A u, v \in used : u.nonce = v.nonce => u = v

\* "A reservation block is persisted before any nonce inside it is handed out":
\* without such a gap, and between two writes, the file covers every nonce used.
FileCovers == ~gap /\ ~Writing => \A u \in used : u.nonce <= Persisted

\* Disagreement: a block is on the disk before a nonce of it is used (nonce.rs:11,
\* PROTOCOL.md section 13.3), a second task's included.
PersistedFirst == ~gap => \A u \in used : u.nonce <= Persisted

\* The inductive invariant: a nonce in a task is new (Fresh), nothing used is
\* above the counter or the reservation (Below), the file is as far as the
\* reservation except before the first write of a start (Covered), and the task
\* that holds the lock writes a block inside the reservation (Holder).
Active(t) == task[t].pc # "idle"

Fresh ==
    /\ \A s, t \in Task : Active(s) /\ Active(t) /\ task[s].nonce = task[t].nonce => s = t
    /\ ~gap => \A t \in Task : Active(t) => \A u \in used : u.nonce # task[t].nonce

Below == ~gap => \A u \in used : u.nonce <= value /\ u.nonce <= reservation

Covered ==
    ~gap /\ ~Unwritten =>
        /\ \A u \in used : u.nonce <= Persisted
        /\ \/ reservation <= Persisted
           \/ reservation <= value /\ \A t \in Task : Active(t) => reservation < task[t].nonce

Holder ==
    \A t \in Task :
        /\ task[t].pc \in Locked => Upto(t) <= reservation
        /\ task[t].pc = "written" => file = Upto(t) /\ (~gap => reservation <= file)

Inv == TypeOK /\ Fresh /\ Below /\ Covered /\ Holder /\ UniqueNonces

\* "The lock serialises the compare-and-swap with the write so the file can only
\* ever move forward."
FileForward == [][\A t \in Task : Write(t) => file' >= reservation]_vars
=============================================================================
