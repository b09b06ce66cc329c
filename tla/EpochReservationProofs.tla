---------------------- MODULE EpochReservationProofs -----------------------
(* Epochs are handed out in increasing order across crashes, power losses   *)
(* and failed writes: EpochReservation implements EpochSource, for every    *)
(* block size and every usable range.                                       *)
EXTENDS EpochReservation, TLAPS

USE DEF Phase, Content

\* A fresh block reaches from the cursor to somewhere usable.
LEMMA ExtendByBlockRange ==
    ASSUME NEW n \in 1..MaxUsable
    PROVE  ExtendByBlock(n) \in n..MaxUsable
BY BlockAssumption, UsableAssumption DEF ExtendByBlock

LEMMA InitInv == Init => Inv
<1> SUFFICES ASSUME Init PROVE Inv
    OBVIOUS
<1> USE UsableAssumption, FileAssumption DEF Init
<1>1. file \in Content /\ disk \in Content OBVIOUS
<1>2. phase \in Phase OBVIOUS
<1>3. target \in 0..MaxUsable /\ reserved \in 0..MaxUsable OBVIOUS
<1>4. next \in 1..MaxUsable + 1 OBVIOUS
<1>5. established \in BOOLEAN OBVIOUS
<1>6. issued \subseteq 1..MaxUsable OBVIOUS
<1>7. namespaces \in Nat OBVIOUS
<1>8. file \notin Nat /\ disk \notin Nat OBVIOUS
<1>9. TypeOK BY ONLY <1>1, <1>2, <1>3, <1>4, <1>5, <1>6, <1>7, <1>8 DEF TypeOK
<1> QED BY <1>9 DEF Inv, DurableBeforeUse, CursorAhead, BlockOnDisk, WriteCovers,
              WriteContent, Unestablished

\* Opening, refusing and initializing: no epoch is handed out, and the cursor
\* starts beyond what the file covers.
LEMMA OpenInv == Inv /\ (Resume \/ RefuseToOpen \/ OpenFresh \/ OperatorInitialize) => Inv'
<1> SUFFICES ASSUME Inv, Resume \/ RefuseToOpen \/ OpenFresh \/ OperatorInitialize PROVE Inv'
    OBVIOUS
<1> USE UsableAssumption, FileAssumption, BoundAssumption DEF Inv, TypeOK, DurableBeforeUse,
        CursorAhead, BlockOnDisk, WriteCovers, WriteContent, Unestablished
<1>1. CASE Resume BY <1>1 DEF Resume
<1>2. CASE RefuseToOpen BY <1>2 DEF RefuseToOpen
<1>3. CASE OpenFresh BY <1>3 DEF OpenFresh, BeginWrite
<1>4. CASE OperatorInitialize BY <1>4 DEF OperatorInitialize, BeginWrite
<1> QED BY <1>1, <1>2, <1>3, <1>4

\* take: an epoch comes from the block on disk, or starts the write of a block.
LEMMA TakeInv == Inv /\ (TakeReserved \/ TakeReserves) => Inv'
<1> SUFFICES ASSUME Inv, TakeReserved \/ TakeReserves PROVE Inv'
    OBVIOUS
<1> USE UsableAssumption, FileAssumption DEF Inv
<1>1. CASE TakeReserved
  <2> USE <1>1 DEF TakeReserved
  <2>1. file = reserved /\ disk = reserved BY DEF BlockOnDisk
  <2>2. next \in 1..MaxUsable /\ reserved \in 0..MaxUsable /\ issued \subseteq 1..MaxUsable
        BY DEF TypeOK
  <2>3. \A e \in issued : e < next BY DEF CursorAhead
  <2>4. \A e \in issued' : e < next' /\ e <= reserved BY <2>2, <2>3
  <2>5. issued' \subseteq 1..MaxUsable /\ next' \in 1..MaxUsable + 1 BY <2>2
  <2>6. TypeOK' BY <2>5 DEF TypeOK
  <2>7. DurableBeforeUse' BY <2>1, <2>4 DEF DurableBeforeUse
  <2>8. CursorAhead' BY <2>4 DEF CursorAhead
  <2>9. BlockOnDisk' BY <2>1 DEF BlockOnDisk
  <2>10. (WriteCovers /\ WriteContent)' BY DEF WriteCovers, WriteContent
  <2>11. Unestablished' BY DEF Unestablished
  <2> QED BY <2>6, <2>7, <2>8, <2>9, <2>10, <2>11
<1>2. CASE TakeReserves
      BY <1>2, ExtendByBlockRange
      DEF TakeReserves, BeginWrite, TypeOK, DurableBeforeUse,
          CursorAhead, BlockOnDisk, WriteCovers, WriteContent, Unestablished
<1> QED BY <1>1, <1>2

\* The write: only its last step hands out the epoch it was made for.
LEMMA WriteInv == Inv /\ (WriteFails \/ WriteDone \/ SyncFails \/ SyncDone) => Inv'
<1> SUFFICES ASSUME Inv, WriteFails \/ WriteDone \/ SyncFails \/ SyncDone PROVE Inv'
    OBVIOUS
<1> USE UsableAssumption, FileAssumption DEF Inv
<1>1. CASE WriteFails
      BY <1>1
      DEF WriteFails, Failed, TypeOK, DurableBeforeUse,
          CursorAhead, BlockOnDisk, WriteCovers, WriteContent, Unestablished
<1>2. CASE WriteDone
      BY <1>2
      DEF WriteDone, TypeOK, DurableBeforeUse,
          CursorAhead, BlockOnDisk, WriteCovers, WriteContent, Unestablished
<1>3. CASE SyncFails
      BY <1>3
      DEF SyncFails, Failed, TypeOK, DurableBeforeUse,
          CursorAhead, BlockOnDisk, WriteCovers, WriteContent, Unestablished
<1>4. CASE SyncDone
  <2> USE <1>4 DEF SyncDone
  <2>1. file = target /\ disk' = target /\ reserved' = target BY DEF WriteContent
  <2>2. target \in 0..MaxUsable /\ reserved \in 0..MaxUsable /\ next \in 1..MaxUsable + 1
        /\ issued \subseteq 1..MaxUsable
        BY DEF TypeOK
  <2>3. issued' \subseteq 1..MaxUsable /\ next' \in 1..MaxUsable + 1
        /\ \A e \in issued' : e < next' /\ e <= target
    <3>1. CASE target = 0
      <4>1. issued = {} /\ issued' = {} /\ next' = 1 BY <3>1 DEF WriteCovers
      <4> QED BY <4>1
    <3>2. CASE target # 0
      <4>1. next <= target BY <3>2 DEF WriteCovers
      <4>2. \A e \in issued : e < next BY <3>2 DEF CursorAhead
      <4>3. next' = next + 1 /\ issued' = issued \cup {next} BY <3>2
      <4> QED BY <2>2, <4>1, <4>2, <4>3
    <3> QED BY <3>1, <3>2
  <2>4. disk' \in Content /\ (disk' \in Nat => disk' <= MaxUsable) BY <2>1, <2>2
  <2>5. TypeOK' BY <2>1, <2>2, <2>3, <2>4 DEF TypeOK
  <2>6. DurableBeforeUse' BY <2>1, <2>3 DEF DurableBeforeUse
  <2>7. CursorAhead' BY <2>3 DEF CursorAhead
  <2>8. BlockOnDisk' BY <2>1 DEF BlockOnDisk
  <2>9. (WriteCovers /\ WriteContent)' BY DEF WriteCovers, WriteContent
  <2>10. Unestablished' BY DEF Unestablished
  <2> QED BY <2>5, <2>6, <2>7, <2>8, <2>9, <2>10
<1> QED BY <1>1, <1>2, <1>3, <1>4

\* A crash leaves a file that covers what was handed out, or one that does not
\* decode.
LEMMA CrashInv == Inv /\ (Crash \/ PowerLoss) => Inv'
<1> SUFFICES ASSUME Inv, Crash \/ PowerLoss PROVE Inv'
    OBVIOUS
<1> USE UsableAssumption, FileAssumption DEF Inv
<1>1. CASE Crash
      BY <1>1
      DEF Crash, TypeOK, DurableBeforeUse,
          CursorAhead, BlockOnDisk, WriteCovers, WriteContent, Unestablished
<1>2. CASE PowerLoss
  <2>1. PICK kept \in {disk, file, Torn} : file' = kept /\ disk' = kept
        BY <1>2 DEF PowerLoss
  <2> QED BY <1>2, <2>1
      DEF PowerLoss, TypeOK, DurableBeforeUse,
          CursorAhead, BlockOnDisk, WriteCovers, WriteContent, Unestablished
<1> QED BY <1>1, <1>2

LEMMA StepInv == Inv /\ [Next]_vars => Inv'
<1>1. Inv /\ Next => Inv'
      BY OpenInv, TakeInv, WriteInv, CrashInv DEF Next
<1>2. Inv /\ UNCHANGED vars => Inv'
      BY DEF vars, Inv, TypeOK, DurableBeforeUse,
             CursorAhead, BlockOnDisk, WriteCovers, WriteContent, Unestablished
<1> QED BY <1>1, <1>2

\* The reservation is well-formed, and the cursor is beyond every epoch handed
\* out (reservation.rs, EpochReservation): the invariant is inductive.
THEOREM Invariance == Spec => []Inv
BY InitInv, StepInv, PTL DEF Spec

\* reservation.rs: the fields stay in the ranges the code assumes.
THEOREM TypeCorrect == Spec => []TypeOK
<1>1. Inv => TypeOK BY DEF Inv
<1> QED BY <1>1, Invariance, PTL

\* "A block is persisted before any epoch inside it is used": whatever file a
\* crash leaves, if it decodes it covers all the epochs handed out.
THEOREM BlockDurableBeforeUse == Spec => []DurableBeforeUse
<1>1. Inv => DurableBeforeUse BY DEF Inv
<1> QED BY <1>1, Invariance, PTL

\* One step of the reservation is a step of the epoch source, or none.
LEMMA StepSimulation == Inv /\ [Next]_vars => [Abstract!Next]_issued
<1> SUFFICES ASSUME Inv, Next PROVE Abstract!Next \/ UNCHANGED issued
    BY DEF vars
<1> USE UsableAssumption DEF Inv, TypeOK, CursorAhead, WriteCovers
<1>1. CASE TakeReserved
      BY <1>1 DEF TakeReserved, Abstract!Next, Abstract!Issue
<1>2. CASE SyncDone
      BY <1>2 DEF SyncDone, Abstract!Next, Abstract!Issue
<1>3. CASE OperatorInitialize
      BY <1>3 DEF OperatorInitialize, Abstract!Next, Abstract!NewNamespace
<1>4. CASE UNCHANGED issued BY <1>4
<1>5. TakeReserved \/ SyncDone \/ OperatorInitialize \/ UNCHANGED issued
      BY DEF Next, Resume, RefuseToOpen, OpenFresh, TakeReserves, WriteFails,
             WriteDone, SyncFails, Crash, PowerLoss
<1> QED BY <1>1, <1>2, <1>3, <1>4, <1>5

\* "A crash may skip epochs, never repeat one" (reservation.rs; PROTOCOL 11.1):
\* the durable reservation implements the strictly increasing epoch source.
THEOREM EpochsNeverRepeat == Spec => ImplementsEpochSource
<1>1. Init => Abstract!Init BY DEF Init, Abstract!Init
<1> QED BY <1>1, StepSimulation, Invariance, PTL
        DEF Spec, ImplementsEpochSource, Abstract!Spec
=============================================================================
