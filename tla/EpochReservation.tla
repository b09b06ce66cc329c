------------------------- MODULE EpochReservation --------------------------
(***************************************************************************)
(* fantuan-anon reservation.rs: the epochs an initiator signs its rounds   *)
(* with come from blocks reserved in one small file.  The file is written  *)
(* in place (truncate, write, fsync), so a write has a middle.             *)
(*                                                                         *)
(* file is what a reader sees, disk what the last fsync made durable: a    *)
(* killed process loses neither, a power loss may leave any of the two or  *)
(* a short file.                                                           *)
(***************************************************************************)
EXTENDS Integers

CONSTANTS
    Block,          \* epochs reserved by one durable write
    MaxUsable,      \* EPOCH_MAX_USABLE
    Absent, Torn,   \* no file; a file decode_reservation rejects
    MaxNamespaces   \* bound: operator initializations

ASSUME BlockAssumption == Block \in Nat \ {0}
ASSUME UsableAssumption == MaxUsable \in Nat \ {0}
ASSUME FileAssumption == Absent \notin Int /\ Torn \notin Int /\ Absent # Torn
ASSUME BoundAssumption == MaxNamespaces \in Nat

VARIABLES
    file, disk,     \* rounds.epoch: reserved_upto, Absent or Torn
    phase,          \* what the process is doing
    target,         \* reserved_upto of the write under way
    reserved, next, \* EpochReservation: reserved_upto and next
    established,    \* the identity existed before this start
    issued,         \* history: epochs handed out in this namespace
    namespaces      \* counter behind MaxNamespaces

vars == <<file, disk, phase, target, reserved, next, established, issued, namespaces>>

\* "down": no process; "halted": open returned a HALT error; "idle": between
\* calls; "writing", "syncing": inside write_reservation.
Phase == {"down", "halted", "idle", "writing", "syncing"}
Content == Nat \cup {Absent, Torn}

\* Mutant: the block is counted from the epoch taken, without clamping.
ExtendUnclamped(n) == n + Block

\* take: the block that starts at the epoch being taken, clamped to the range.
ExtendByBlock(n) == IF n + Block - 1 <= MaxUsable THEN n + Block - 1 ELSE MaxUsable

Init ==
    /\ file = Absent /\ disk = Absent
    /\ phase = "down"
    /\ target = 0 /\ reserved = 0 /\ next = 1
    /\ established = FALSE
    /\ issued = {}
    /\ namespaces = 0

\* Mutant: open continues inside the block the file covers.
ResumeInBlock ==
    /\ phase = "down" /\ file \in Nat
    /\ phase' = "idle"
    /\ reserved' = file /\ next' = IF file = 0 THEN 1 ELSE file
    /\ established' = TRUE
    /\ UNCHANGED <<file, disk, target, issued, namespaces>>

\* open, the file decodes: the whole previous block is abandoned.
Resume ==
    /\ phase = "down" /\ file \in Nat
    /\ phase' = "idle"
    /\ reserved' = file /\ next' = file + 1
    /\ established' = TRUE
    /\ UNCHANGED <<file, disk, target, issued, namespaces>>

\* open, no file or one that does not decode.
RefuseToOpen ==
    /\ phase = "down"
    /\ file = Torn \/ (file = Absent /\ established)
    /\ phase' = "halted"
    /\ UNCHANGED <<file, disk, target, reserved, next, established, issued, namespaces>>

\* write_reservation: the truncating open has emptied the file.
BeginWrite(upto) ==
    /\ phase' = "writing"
    /\ target' = upto
    /\ file' = Torn

\* open on a fresh identity.
OpenFresh ==
    /\ phase = "down" /\ file = Absent /\ ~established
    /\ BeginWrite(0)
    /\ established' = TRUE
    /\ UNCHANGED <<disk, reserved, next, issued, namespaces>>

\* initialize, by the operator: the namespace starts over.
OperatorInitialize ==
    /\ phase \in {"down", "halted"}
    /\ namespaces < MaxNamespaces
    /\ namespaces' = namespaces + 1
    /\ BeginWrite(0)
    /\ issued' = {}
    /\ established' = TRUE
    /\ UNCHANGED <<disk, reserved, next>>

\* take, inside the reserved block.
TakeReserved ==
    /\ phase = "idle"
    /\ next <= MaxUsable /\ next <= reserved
    /\ issued' = issued \cup {next}
    /\ next' = next + 1
    /\ UNCHANGED <<file, disk, phase, target, reserved, established, namespaces>>

\* Mutant: no fsync before the epoch is handed out.
SyncSkipped ==
    /\ phase = "syncing"
    /\ phase' = "idle"
    /\ reserved' = target
    /\ IF target = 0
       THEN next' = 1 /\ UNCHANGED issued
       ELSE next' = next + 1 /\ issued' = issued \cup {next}
    /\ UNCHANGED <<file, disk, target, established, namespaces>>

\* take, with the block used up.
TakeReserves ==
    /\ phase = "idle"
    /\ next <= MaxUsable /\ next > reserved
    /\ BeginWrite(ExtendByBlock(next))
    /\ UNCHANGED <<disk, reserved, next, established, issued, namespaces>>

\* target = 0 is the write of initialize; take always reserves something.
Failed == IF target = 0 THEN "down" ELSE "idle"

WriteFails ==
    /\ phase = "writing"
    /\ phase' = Failed
    /\ UNCHANGED <<file, disk, target, reserved, next, established, issued, namespaces>>

WriteDone ==
    /\ phase = "writing"
    /\ phase' = "syncing"
    /\ file' = target
    /\ UNCHANGED <<disk, target, reserved, next, established, issued, namespaces>>

SyncFails ==
    /\ phase = "syncing"
    /\ phase' = Failed
    /\ UNCHANGED <<file, disk, target, reserved, next, established, issued, namespaces>>

\* The write is durable: initialize resumes from it, take hands out its epoch.
SyncDone ==
    /\ phase = "syncing"
    /\ phase' = "idle"
    /\ disk' = file
    /\ reserved' = target
    /\ IF target = 0
       THEN next' = 1 /\ UNCHANGED issued
       ELSE next' = next + 1 /\ issued' = issued \cup {next}
    /\ UNCHANGED <<file, target, established, namespaces>>

\* The process is killed, or stops: the kernel still holds what it wrote.
Crash ==
    /\ phase # "down"
    /\ phase' = "down"
    /\ UNCHANGED <<file, disk, target, reserved, next, established, issued, namespaces>>

\* The machine stops: what was not synced may be there, in part, or not.
PowerLoss ==
    /\ phase' = "down"
    /\ \E kept \in {disk, file} \cup (IF disk = file THEN {} ELSE {Torn}) :
            file' = kept /\ disk' = kept
    /\ UNCHANGED <<target, reserved, next, established, issued, namespaces>>

Next ==
    \/ Resume \/ RefuseToOpen \/ OpenFresh \/ OperatorInitialize
    \/ TakeReserved \/ TakeReserves
    \/ WriteFails \/ WriteDone \/ SyncFails \/ SyncDone
    \/ Crash \/ PowerLoss

Spec == Init /\ [][Next]_vars

----------------------------------------------------------------------------
(* Properties *)

TypeOK ==
    /\ file \in Content /\ disk \in Content
    /\ phase \in Phase
    /\ target \in 0..MaxUsable /\ reserved \in 0..MaxUsable
    /\ next \in 1..MaxUsable + 1
    /\ established \in BOOLEAN
    /\ issued \subseteq 1..MaxUsable
    /\ namespaces \in Nat
    /\ file \in Nat => file <= MaxUsable
    /\ disk \in Nat => disk <= MaxUsable

\* "A block is persisted before any epoch inside it is used": whatever a crash
\* leaves of the file, a reservation that decodes covers every epoch that was
\* handed out.
DurableBeforeUse ==
    \A e \in issued :
        /\ file \in Nat => e <= file
        /\ disk \in Nat => e <= disk

\* "A crash may skip epochs, never repeat one": the reservation implements the
\* strictly increasing epoch source.
Abstract == INSTANCE EpochSource WITH MaxUsable <- MaxUsable, issued <- issued
ImplementsEpochSource == Abstract!Spec

\* The cursor is beyond every epoch handed out ...
CursorAhead ==
    phase = "idle" \/ (phase \in {"writing", "syncing"} /\ target # 0) =>
        \A e \in issued : e < next

\* ... while it is inside the block, the block is what the disk holds ...
BlockOnDisk == phase = "idle" /\ next <= reserved => file = reserved /\ disk = reserved

\* ... a write of take covers the epoch it is for, one of initialize starts an
\* empty namespace ...
WriteCovers ==
    phase \in {"writing", "syncing"} =>
        IF target = 0 THEN issued = {} ELSE next <= target /\ next > reserved

\* ... and the file is as far as the write has come.
WriteContent ==
    /\ phase = "writing" => file = Torn
    /\ phase = "syncing" => file = target

\* Nothing is handed out before the identity is established.
Unestablished == ~established => issued = {} /\ phase \in {"down", "halted"}

\* The inductive invariant.
Inv ==
    /\ TypeOK /\ DurableBeforeUse
    /\ CursorAhead /\ BlockOnDisk /\ WriteCovers /\ WriteContent /\ Unestablished

\* "A runtime persistence failure never yields a weaker state: the old state
\* stays in place": between calls the file is one the next start can open.
OldStateStays == phase = "idle" => file \in Nat
=============================================================================
