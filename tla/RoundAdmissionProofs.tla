----------------------- MODULE RoundAdmissionProofs ------------------------
(* Unless a compacted log cannot be reopened, no round is accepted twice and *)
(* no epoch of an initiator holds two accepted rounds, across crashes, power *)
(* losses, failed appends and failed syncs: RoundAdmission implements        *)
(* RoundWindow, for all peers and all ranges of epochs.                      *)
EXTENDS RoundAdmission, FiniteSetTheorems, TLAPS

----------------------------------------------------------------------------
(* The log image *)

\* A whole record behind a clean tail is reached, and hides no other.
LEMMA AppendedReaches ==
    ASSUME NEW image \in Image, NEW r \in Round
    PROVE  /\ Appended(image, r) \in Image
           /\ Reaches(Appended(image, r), r)
           /\ \A a \in Round : Reaches(image, a) => Reaches(Appended(image, r), a)
           /\ EachHasLast(image) => EachHasLast(Appended(image, r))
<1> USE AbsentAssumption
<1>1. CASE image.tail # "clean"
  <2>1. Appended(image, r) = [image EXCEPT !.tail = "corrupt"] BY <1>1 DEF Appended
  <2>2. Appended(image, r) \in Image /\ Appended(image, r).tail = "corrupt"
        /\ Appended(image, r).records = image.records
        BY <2>1 DEF Image
  <2> QED BY <2>2 DEF Reaches, EachHasLast, Own
<1>2. CASE image.tail = "clean"
  <2> DEFINE new == Appended(image, r)
  <2>1. new = [image EXCEPT !.records = Append(image.records, r)] BY <1>2 DEF Appended
  <2>2. new \in Image /\ new.records = Append(image.records, r)
    <3>1. new = [records |-> Append(image.records, r), tail |-> image.tail] BY <2>1 DEF Image
    <3>2. Append(image.records, r) \in Seq(Round) BY DEF Image
    <3> QED BY <3>1, <3>2 DEF Image
  <2>3. Len(image.records) \in Nat /\ DOMAIN image.records = 1..Len(image.records)
        BY DEF Image
  <2>4. DOMAIN new.records = 1..Len(image.records) + 1
        /\ new.records[Len(image.records) + 1] = r
        /\ \A k \in DOMAIN image.records : new.records[k] = image.records[k]
        BY <2>2, <2>3 DEF Image
  <2> HIDE DEF new
  <2>5. Reaches(new, r)
    <3>1. r.epoch \in Int BY DEF Round
    <3> QED BY <2>2, <2>3, <2>4, <3>1 DEF Reaches, Covers, Reached
  <2>6. ASSUME NEW a \in Round, Reaches(image, a) PROVE Reaches(new, a)
        BY <1>2, <2>2, <2>3, <2>4, <2>6 DEF Reaches, Covers
  <2>7. ASSUME EachHasLast(image), NEW i \in Initiators, Own(new, i) # {}
        PROVE  \E k \in Own(new, i) : \A j \in Own(new, i) : j <= k
    <3>1. CASE r.initiator = i
      <4>1. Len(image.records) + 1 \in Own(new, i) BY <2>3, <2>4, <3>1 DEF Own
      <4>2. \A j \in Own(new, i) : j <= Len(image.records) + 1 BY <2>3, <2>4 DEF Own
      <4> QED BY <4>1, <4>2
    <3>2. CASE r.initiator # i
      <4>1. Own(new, i) = Own(image, i) BY <2>3, <2>4, <3>2 DEF Own
      <4> QED BY <2>7, <4>1 DEF EachHasLast
    <3> QED BY <3>1, <3>2
  <2>8. EachHasLast(image) => EachHasLast(new) BY <2>7 DEF EachHasLast
  <2> QED BY <2>2, <2>5, <2>6, <2>8 DEF new
<1> QED BY <1>1, <1>2

\* Part of a record hides none.
LEMMA AppendedInPartReaches ==
    ASSUME NEW image \in Image, NEW part \in AppendedInPart(image)
    PROVE  /\ part \in Image
           /\ \A a \in Round : Reaches(image, a) => Reaches(part, a)
           /\ EachHasLast(image) => EachHasLast(part)
<1>1. part \in Image /\ part.records = image.records
      /\ (image.tail = "corrupt" => part.tail = "corrupt")
      BY DEF AppendedInPart, Image
<1> QED BY <1>1, AbsentAssumption DEF Reaches, Covers, EachHasLast, Own

\* What replay_log builds is ahead of every round a readable log reaches.
LEMMA ReplayedReaches ==
    ASSUME NEW image \in Image, EachHasLast(image), Readable(image)
    PROVE  /\ DOMAIN Replayed(image) = Initiators
           /\ \A i \in Initiators :
                \/ Replayed(image)[i] = None
                \/ Replayed(image)[i] \in Round /\ Replayed(image)[i].initiator = i
           /\ \A a \in Round : Covers(image, a) =>
                /\ Replayed(image)[a.initiator] # None
                /\ Reached(Replayed(image)[a.initiator], a)
<1>1. DOMAIN image.records \subseteq Nat /\ \A k \in DOMAIN image.records : image.records[k] \in Round
      BY DEF Image
<1>2. ASSUME NEW i \in Initiators, Own(image, i) # {}
      PROVE  \E k \in Own(image, i) :
                Replayed(image)[i] = image.records[k] /\ \A j \in Own(image, i) : j <= k
  <2> DEFINE k == CHOOSE k \in Own(image, i) : \A j \in Own(image, i) : j <= k
  <2>1. k \in Own(image, i) /\ \A j \in Own(image, i) : j <= k BY <1>2 DEF EachHasLast
  <2>2. Replayed(image)[i] = image.records[k] BY <1>2 DEF Replayed
  <2> QED BY <2>1, <2>2
<1>3. \A i \in Initiators : Own(image, i) = {} => Replayed(image)[i] = None BY DEF Replayed
<1>4. ASSUME NEW a \in Round, Covers(image, a)
      PROVE  Replayed(image)[a.initiator] # None /\ Reached(Replayed(image)[a.initiator], a)
  <2>1. a.initiator \in Initiators /\ a.epoch \in Int BY DEF Round
  <2>2. PICK m \in Own(image, a.initiator) : Reached(image.records[m], a)
        BY <1>4 DEF Covers, Own, Reached
  <2>3. PICK k \in Own(image, a.initiator) :
            Replayed(image)[a.initiator] = image.records[k]
            /\ \A j \in Own(image, a.initiator) : j <= k
        BY <1>2, <2>1, <2>2
  <2>4. m <= k /\ m \in DOMAIN image.records /\ k \in DOMAIN image.records
        /\ image.records[m].initiator = image.records[k].initiator
        BY <2>2, <2>3 DEF Own
  <2>5. m < k => image.records[m].epoch < image.records[k].epoch
        BY <2>4 DEF Readable, Increasing
  <2>6. image.records[m].epoch \in Int /\ image.records[k].epoch \in Int
        BY <1>1, <2>4 DEF Round
  <2>7. Reached(image.records[k], a)
    <3>1. m = k \/ m < k BY <1>1, <2>4
    <3>2. image.records[m].epoch >= a.epoch BY <2>1, <2>2, <2>6 DEF Reached
    <3>3. m < k => image.records[k].epoch > a.epoch BY <2>1, <2>5, <2>6, <3>2
    <3>4. image.records[k].initiator = a.initiator BY <2>3 DEF Own
    <3> QED BY <2>2, <3>1, <3>3, <3>4 DEF Reached
  <2>8. image.records[k] # None BY <1>1, <2>4, NoneAssumption
  <2> QED BY <2>3, <2>7, <2>8
<1>5. \A i \in Initiators : Own(image, i) # {} =>
        Replayed(image)[i] \in Round /\ Replayed(image)[i].initiator = i
      BY <1>1, <1>2 DEF Own
<1> QED BY <1>3, <1>4, <1>5 DEF Replayed

\* It is made of the log's own records.
LEMMA ReplayedTypes ==
    ASSUME NEW image \in Image, EachHasLast(image)
    PROVE  /\ DOMAIN Replayed(image) = Initiators
           /\ \A i \in Initiators :
                \/ Replayed(image)[i] = None
                \/ Replayed(image)[i] \in Round /\ Replayed(image)[i].initiator = i
<1>1. \A k \in DOMAIN image.records : image.records[k] \in Round BY DEF Image
<1>2. ASSUME NEW i \in Initiators, Own(image, i) # {}
      PROVE  Replayed(image)[i] \in Round /\ Replayed(image)[i].initiator = i
  <2> DEFINE k == CHOOSE k \in Own(image, i) : \A j \in Own(image, i) : j <= k
  <2>1. k \in Own(image, i) BY <1>2 DEF EachHasLast
  <2>2. Replayed(image)[i] = image.records[k] BY <1>2 DEF Replayed
  <2> QED BY <1>1, <2>1, <2>2 DEF Own
<1> QED BY <1>2 DEF Replayed

\* A compacted log reaches the last round of every initiator.
LEMMA CompactedReaches ==
    ASSUME MemoryTypes, NEW image \in Compacted
    PROVE  /\ image \in Image /\ EachHasLast(image)
           /\ \A i \in Known : Reaches(image, namespaces[i])
<1>1. IsFiniteSet(Known) BY InitiatorAssumption, FS_Subset DEF Known
<1>2. Cardinality(Known) \in Nat BY <1>1, FS_CardinalityType
<1>3. LastRounds \subseteq Round BY DEF MemoryTypes, LastRounds, Known
<1>4. PICK s \in Bijection(1..Cardinality(Known), LastRounds) :
        image = [records |-> s, tail |-> "clean"]
      BY DEF Compacted
<1>5. s \in [1..Cardinality(Known) -> LastRounds]
      /\ (\A j, k \in 1..Cardinality(Known) : s[j] = s[k] => j = k)
      /\ (\A r \in LastRounds : \E k \in 1..Cardinality(Known) : s[k] = r)
      BY DEF Bijection, Injection, Surjection, IsInjective
<1>6. s \in Seq(Round) BY <1>2, <1>3, <1>5
<1>7. image \in Image /\ image # Absent /\ image.records = s
      BY <1>4, <1>6, AbsentAssumption DEF Image
<1>8. \A i \in Known : Reaches(image, namespaces[i])
  <2> TAKE i \in Known
  <2>1. namespaces[i] \in LastRounds BY DEF LastRounds
  <2>2. PICK k \in 1..Cardinality(Known) : s[k] = namespaces[i] BY <1>5, <2>1
  <2>3. namespaces[i].epoch \in Int BY <1>3, <2>1 DEF Round
  <2> QED BY <1>5, <1>7, <2>2, <2>3 DEF Reaches, Covers, Reached
<1>9. EachHasLast(image)
  <2> SUFFICES ASSUME NEW i \in Initiators, NEW k \in Own(image, i)
               PROVE  \A j \in Own(image, i) : j <= k
      BY DEF EachHasLast
  <2> TAKE j \in Own(image, i)
  <2>1. j \in 1..Cardinality(Known) /\ k \in 1..Cardinality(Known)
        /\ s[j].initiator = i /\ s[k].initiator = i
        BY <1>5, <1>7 DEF Own
  <2>2. \A r, q \in LastRounds : r.initiator = q.initiator => r = q
        BY DEF LastRounds, Known, MemoryTypes
  <2>3. s[j] = s[k] BY <1>5, <2>1, <2>2
  <2> QED BY <1>2, <1>5, <2>1, <2>3
<1> QED BY <1>7, <1>8, <1>9

----------------------------------------------------------------------------
(* The invariant is inductive *)

\* An image of the log that is there is well-formed.
LEMMA ImagesOK ==
    ASSUME Inv PROVE \A image \in disk : image # Absent => image \in Image /\ EachHasLast(image)
BY DEF Inv, TypeOK, FileTypes, LastExists

LEMMA InitInv == Init => Inv
<1> SUFFICES ASSUME Init PROVE Inv
    OBVIOUS
<1> USE CompactAssumption, BoundAssumption DEF Init
<1>1. FileTypes BY DEF FileTypes
<1>2. MemoryTypes BY DEF MemoryTypes
<1>3. PhaseTypes BY DEF PhaseTypes, Running, Committing
<1>4. TypeOK
  <2>1. established \in BOOLEAN OBVIOUS
  <2>2. refused = None /\ accepted = {} OBVIOUS
  <2>3. windows \in 0..MaxWindows OBVIOUS
  <2> QED BY ONLY <1>1, <1>2, <1>3, <2>1, <2>2, <2>3 DEF TypeOK
<1>5. LastExists BY DEF LastExists
<1> QED BY <1>4, <1>5 DEF Inv, MemoryReaches, PendingAhead, DiskReaches, CommitReaches,
                          HandleIsLog, WindowOpens, Running

\* Opening: a window opens empty, and a loaded log reaches what was accepted.
LEMMA OpenInv ==
    ASSUME Inv, \/ OpenFresh \/ OperatorInitialize \/ MarkerWritten \/ LogEmptied
                \/ LogSynced \/ OpenExisting \/ RefuseToOpen
    PROVE  Inv'
<1> USE BoundAssumption, AbsentAssumption DEF files, memory, Inv, TypeOK, FileTypes, MemoryTypes, PhaseTypes, MemoryReaches, PendingAhead,
        DiskReaches, CommitReaches, LastExists, HandleIsLog, WindowOpens, Running, Committing
<1>1. CASE OpenFresh BY <1>1 DEF OpenFresh, BeginInitialize
<1>2. CASE OperatorInitialize BY <1>2 DEF OperatorInitialize, BeginInitialize
<1>3. CASE MarkerWritten BY <1>3 DEF MarkerWritten
<1>4. CASE LogEmptied
  <2>1. Empty \in Image /\ EachHasLast(Empty) BY DEF Empty, Image, EachHasLast, Own
  <2> QED BY <1>4, <2>1 DEF LogEmptied
<1>5. CASE LogSynced
  <2>1. log \in Image /\ EachHasLast(log) BY <1>5, ImagesOK DEF LogSynced
  <2>2. Len(log.records) \in Nat BY <2>1 DEF Image
  <2>3. Readable(log) BY <1>5 DEF LogSynced, Empty, Readable, Increasing
  <2>4. MemoryTypes'
    <3>1. (DOMAIN namespaces = Initiators /\ \A i \in Initiators :
            namespaces[i] = None \/ (namespaces[i] \in Round /\ namespaces[i].initiator = i))'
          BY <1>5, <2>1, <2>3, ReplayedReaches DEF LogSynced, Load
    <3> QED BY <1>5, <2>2, <3>1, CompactAssumption DEF LogSynced, Load
  <2>5. accepted' = {} BY <1>5 DEF LogSynced
  <2> QED BY <1>5, <2>1, <2>4, <2>5 DEF LogSynced, Load
<1>6. CASE OpenExisting
  <2>1. log \in Image /\ EachHasLast(log) BY <1>6, ImagesOK DEF OpenExisting
  <2>2. log' \in Image /\ log'.records = log.records /\ log'.tail = "clean"
        BY <1>6, <2>1 DEF OpenExisting, Image
  <2>3. log.tail = "clean" => log' = log BY <1>6, <2>1 DEF OpenExisting, Image
  <2>4. log' \in disk' /\ (disk' = disk \/ disk' = {log'})
        BY <1>6, <2>3 DEF OpenExisting, Readable, Image
  <2>5. EachHasLast(log') BY <2>1, <2>2 DEF EachHasLast, Own
  <2>6. \A r \in accepted : Covers(log, r) BY <1>6 DEF OpenExisting, Readable, Reaches
  <2>7. \A r \in accepted : Reaches(log', r) BY <2>2, <2>6 DEF Reaches, Covers
  <2>8. MemoryTypes'
    <3>1. (DOMAIN namespaces = Initiators /\ \A i \in Initiators :
            namespaces[i] = None \/ (namespaces[i] \in Round /\ namespaces[i].initiator = i))'
          BY <1>6, <2>1, ReplayedReaches DEF OpenExisting, Load
    <3>2. Len(log.records) \in Nat BY <2>1 DEF Image
    <3> QED BY <1>6, <3>1, <3>2, CompactAssumption DEF OpenExisting, Load
  <2>9. MemoryReaches'
    <3>1. accepted \subseteq Round BY DEF Admissible
    <3>2. \A r \in accepted : Replayed(log)[r.initiator] # None
                             /\ Reached(Replayed(log)[r.initiator], r)
          BY <1>6, <2>1, <2>6, <3>1, ReplayedReaches DEF OpenExisting
    <3> QED BY <1>6, <3>2 DEF OpenExisting, Load
  <2>10. FileTypes' BY <1>6, <2>2, <2>4 DEF OpenExisting
  <2>11. DiskReaches' BY <1>6, <2>4, <2>7 DEF OpenExisting
  <2>12. LastExists' BY <1>6, <2>4, <2>5 DEF OpenExisting
  <2>13. PhaseTypes' BY <1>6, <2>2 DEF OpenExisting, Load
  <2> QED BY <1>6, <2>8, <2>9, <2>10, <2>11, <2>12, <2>13 DEF OpenExisting, Load
<1>7. CASE RefuseToOpen BY <1>7 DEF RefuseToOpen
<1> QED BY <1>1, <1>2, <1>3, <1>4, <1>5, <1>6, <1>7

\* Classifying and appending: what is on disk stays reached.
LEMMA AdmitInv ==
    ASSUME Inv, Refuse \/ Candidate \/ AppendWritten \/ ShortWrite \/ SyncFails
    PROVE  Inv'
<1> USE BoundAssumption, AbsentAssumption DEF files, memory, Inv, TypeOK, FileTypes, MemoryTypes, PhaseTypes, MemoryReaches, PendingAhead,
        DiskReaches, CommitReaches, LastExists, HandleIsLog, WindowOpens, Running, Committing
<1>1. CASE Refuse BY <1>1 DEF Refuse
<1>2. CASE Candidate
  <2>1. PICK r \in Round : Classify(r) = "candidate" /\ r.body \in Named /\ pending' = r
        BY <1>2 DEF Candidate
  <2>2. r \in Admissible /\ r.initiator \in Initiators /\ r.epoch \in Int
        BY <2>1, UsableAssumption DEF Classify, Admissible, Round
  <2>3. namespaces[r.initiator] = None \/ r.epoch > namespaces[r.initiator].epoch
        BY <2>1, <2>2 DEF Classify, Round
  <2>4. PendingAhead'
    <3> SUFFICES ASSUME NEW a \in accepted, a.initiator = r.initiator PROVE a.epoch < r.epoch
        BY <1>2, <2>1 DEF Candidate
    <3>0. a.initiator = r.initiator OBVIOUS
    <3>1. a.epoch \in Int /\ namespaces[r.initiator] \in Round \cup {None}
          BY <2>2 DEF Admissible, Round
    <3>2. namespaces[r.initiator] # None /\ namespaces[r.initiator].epoch >= a.epoch
      <4>1. namespaces[a.initiator] # None /\ Reached(namespaces[a.initiator], a) BY <1>2 DEF Candidate
      <4> QED BY <3>0, <3>1, <4>1 DEF Reached, Round
    <3> QED BY <2>2, <2>3, <3>1, <3>2 DEF Round
  <2>5. PhaseTypes' BY <1>2, <2>1, <2>2, NoneAssumption DEF Candidate, Admissible
  <2> QED BY <1>2, <2>4, <2>5 DEF Candidate
<1>3. CASE AppendWritten
  <2>1. handle = "rounds.log" BY <1>3 DEF AppendWritten
  <2>2. log \in Image /\ pending \in Round /\ EachHasLast(log)
        BY <1>3, ImagesOK DEF AppendWritten, Admissible
  <2>3. disk' = disk \cup AppendedInPart(log) \cup {Appended(log, pending)}
        /\ log' = Appended(log, pending)
        BY <1>3, <2>1 DEF AppendWritten, InFlight
  <2>4. \A a \in accepted : a \in Round /\ Reaches(log, a) BY DEF Admissible
  <2>5. \A image \in disk' \ disk : image \in Image /\ EachHasLast(image)
                                   /\ \A a \in accepted : Reaches(image, a)
        BY <2>2, <2>3, <2>4, AppendedReaches, AppendedInPartReaches
  <2>6. Reaches(log', pending) BY <2>2, <2>3, AppendedReaches
  <2>7. log' # Absent BY <2>6 DEF Reaches
  <2>8. FileTypes' BY <1>3, <2>3, <2>5 DEF AppendWritten
  <2>9. DiskReaches' BY <1>3, <2>5 DEF AppendWritten
  <2>10. LastExists' BY <1>3, <2>5 DEF AppendWritten
  <2>11. CommitReaches' BY <1>3, <2>6 DEF AppendWritten
  <2>12. PhaseTypes' BY <1>3, <2>7 DEF AppendWritten
  <2> QED BY <1>3, <2>8, <2>9, <2>10, <2>11, <2>12 DEF AppendWritten
<1>4. CASE ShortWrite
  <2>1. handle = "rounds.log" BY <1>4 DEF ShortWrite
  <2>2. log \in Image /\ EachHasLast(log) BY <1>4, ImagesOK DEF ShortWrite
  <2>3. log' \in AppendedInPart(log) /\ disk' = disk \cup {log'} BY <1>4, <2>1 DEF ShortWrite
  <2>4. \A a \in accepted : a \in Round /\ Reaches(log, a) BY DEF Admissible
  <2>5. log' \in Image /\ EachHasLast(log') /\ \A a \in accepted : Reaches(log', a)
        BY <2>2, <2>3, <2>4, AppendedInPartReaches
  <2>6. FileTypes' BY <1>4, <2>3, <2>5 DEF ShortWrite
  <2>7. DiskReaches' BY <1>4, <2>3, <2>5 DEF ShortWrite
  <2>8. LastExists' BY <1>4, <2>3, <2>5 DEF ShortWrite
  <2>9. PhaseTypes' BY <1>4, <2>5 DEF ShortWrite
  <2> QED BY <1>4, <2>6, <2>7, <2>8, <2>9 DEF ShortWrite
<1>5. CASE SyncFails BY <1>5 DEF SyncFails
<1> QED BY <1>1, <1>2, <1>3, <1>4, <1>5

\* Publishing the committed round: memory and disk reach it already.
LEMMA PublishInv ==
    ASSUME Inv, CompactFails \/ CompactDone
    PROVE  Inv'
<1> USE BoundAssumption, AbsentAssumption DEF files, memory, Inv, TypeOK, FileTypes, MemoryTypes, PhaseTypes, MemoryReaches, PendingAhead,
        DiskReaches, CommitReaches, LastExists, HandleIsLog, WindowOpens, Running, Committing
<1>1. Cardinality(Known) \in Nat
      BY InitiatorAssumption, FS_Subset, FS_CardinalityType DEF Known
<1>2. pending \in Admissible /\ pending.epoch \in Int /\ namespaces[pending.initiator] = pending
      /\ \A image \in disk : Reaches(image, pending)
      BY DEF CompactFails, CompactDone, Admissible, Round
<1>3. CASE CompactFails BY <1>2, <1>3 DEF CompactFails, Publish, Reached
<1>4. CASE CompactDone BY <1>1, <1>2, <1>4, CompactAssumption DEF CompactDone, Publish, Reached
<1> QED BY <1>3, <1>4

\* The fsync returns, and a compacted log takes the place of the log.
LEMMA CommitInv ==
    ASSUME Inv, SyncDone \/ CompactRenames
    PROVE  Inv'
<1> USE BoundAssumption, AbsentAssumption DEF files, memory, Inv, TypeOK, FileTypes, MemoryTypes, PhaseTypes, MemoryReaches, PendingAhead,
        DiskReaches, CommitReaches, LastExists, HandleIsLog, WindowOpens, Running, Committing
<1>1. CASE SyncDone
  <2>1. handle = "rounds.log" /\ disk' = {log} /\ log' = log BY <1>1 DEF SyncDone
  <2>2. log \in Image /\ EachHasLast(log) BY <1>1, ImagesOK DEF SyncDone
  <2>3. pending \in Admissible /\ pending.initiator \in Initiators /\ pending.epoch \in Int
        /\ pending \in Round
        BY <1>1 DEF SyncDone, Admissible, Round
  <2>4. namespaces' = [namespaces EXCEPT ![pending.initiator] = pending] BY <1>1 DEF SyncDone
  <2>5. Reaches(log, pending) /\ \A a \in accepted : Reaches(log, a)
        BY <1>1, <2>1 DEF SyncDone
  <2>6. accepted' \in {accepted, accepted \cup {pending}}
        /\ phase' \in {"ready", "compacting"}
        /\ IF phase' = "ready" THEN pending' = None ELSE pending' = pending /\ accepted' = accepted
        BY <1>1 DEF SyncDone, Publish
  <2>7. FileTypes' BY <1>1, <2>1, <2>2 DEF SyncDone
  <2>8. since' \in 0..CompactAfter BY <1>1, CompactAssumption DEF SyncDone
  <2>9. MemoryTypes' BY <1>1, <2>3, <2>4, <2>8 DEF SyncDone
  <2>10. PhaseTypes' BY <1>1, <2>1, <2>2, <2>3, <2>6 DEF SyncDone
  <2>11. \A a \in accepted' : namespaces'[a.initiator] # None
                             /\ Reached(namespaces'[a.initiator], a)
    <3> TAKE a \in accepted'
    <3>1. a \in accepted \/ a = pending BY <2>6
    <3>2. a \in accepted => a.initiator \in Initiators /\ a.epoch \in Int BY DEF Admissible, Round
    <3>3. a \in accepted => namespaces[a.initiator] # None
                           /\ Reached(namespaces[a.initiator], a)
          BY <1>1 DEF SyncDone
    <3>4. a \in accepted /\ a.initiator = pending.initiator => a.epoch < pending.epoch
          BY <1>1 DEF SyncDone
    <3> QED BY <2>3, <2>4, <3>1, <3>2, <3>3, <3>4, NoneAssumption DEF Reached
  <2>12. PendingAhead' BY <1>1, <2>6 DEF SyncDone
  <2>13. DiskReaches' BY <2>1, <2>5, <2>6
  <2>14. CommitReaches' BY <2>1, <2>3, <2>4, <2>5, <2>6
  <2>15. LastExists' BY <2>1, <2>2
  <2>16. accepted' \subseteq Admissible BY <2>3, <2>6
  <2>17. MemoryReaches' BY <2>11
  <2> QED BY <1>1, <2>1, <2>6, <2>7, <2>9, <2>10, <2>12, <2>13, <2>14, <2>15, <2>16, <2>17
          DEF SyncDone
<1>2. CASE CompactRenames
  <2>1. disk' = disk \cup {log'} /\ log' \in Compacted BY <1>2 DEF CompactRenames
  <2>2. log' \in Image /\ EachHasLast(log') /\ \A i \in Known : Reaches(log', namespaces[i])
        BY <2>1, CompactedReaches
  <2>3. pending \in Admissible /\ pending.initiator \in Known
        /\ namespaces[pending.initiator] = pending
        BY <1>2 DEF CompactRenames, Admissible, Round, Known
  <2>4. Reaches(log', pending) BY <2>2, <2>3
  <2>5. ASSUME NEW a \in accepted PROVE Reaches(log', a)
    <3>1. a.initiator \in Initiators /\ a.epoch \in Int BY DEF Admissible, Round
    <3>2. a.initiator \in Known /\ Reached(namespaces[a.initiator], a)
          BY <1>2, <3>1 DEF CompactRenames, Known
    <3>3. namespaces[a.initiator] \in Round /\ namespaces[a.initiator].initiator = a.initiator
          BY <3>2 DEF Known
    <3>4. log'.records \in Seq(Round) BY <2>2 DEF Image
    <3>5. \A k \in DOMAIN log'.records : log'.records[k] \in Round BY <3>4
    <3>6. \A k \in DOMAIN log'.records : log'.records[k].epoch \in Int BY <3>5 DEF Round
    <3>7. Reaches(log', namespaces[a.initiator]) BY <2>2, <3>2
    <3> QED BY <2>2, <3>1, <3>2, <3>3, <3>6, <3>7 DEF Reaches, Covers, Reached, Round
  <2>6. log' # Absent BY <2>2
  <2>7. FileTypes' BY <1>2, <2>1, <2>2 DEF CompactRenames
  <2>8. MemoryTypes' BY <1>2 DEF CompactRenames
  <2>9. PhaseTypes' BY <1>2, <2>6 DEF CompactRenames
  <2>10. DiskReaches' BY <1>2, <2>1, <2>5 DEF CompactRenames
  <2>11. CommitReaches' BY <1>2, <2>1, <2>3, <2>4 DEF CompactRenames
  <2>12. LastExists' BY <1>2, <2>1, <2>2 DEF CompactRenames
  <2> QED BY <1>2, <2>7, <2>8, <2>9, <2>10, <2>11, <2>12 DEF CompactRenames
<1> QED BY <1>1, <1>2

\* A stop leaves nothing behind but the images, the last record in part.
LEMMA StopInv ==
    ASSUME Inv, Crash \/ PowerLoss
    PROVE  Inv'
<1> USE BoundAssumption, AbsentAssumption DEF files, memory, Inv, TypeOK, FileTypes, MemoryTypes, PhaseTypes, MemoryReaches, PendingAhead,
        DiskReaches, CommitReaches, LastExists, HandleIsLog, WindowOpens, Running, Committing
<1>1. ASSUME NEW part \in InFlight
      PROVE  part \in Image /\ EachHasLast(part) /\ \A a \in accepted : Reaches(part, a)
  <2>1. log \in Image /\ EachHasLast(log) /\ part \in AppendedInPart(log)
        BY <1>1, ImagesOK DEF InFlight
  <2>2. \A a \in accepted : a \in Round /\ Reaches(log, a) BY DEF Admissible
  <2> QED BY <2>1, <2>2, AppendedInPartReaches
<1>2. Crash \/ PowerLoss =>
        /\ disk' \subseteq disk \cup InFlight /\ log' \in disk'
        /\ phase' = "down" /\ pending' = None /\ refused' = None
        /\ accepted' = accepted /\ established' = established /\ windows' = windows
        /\ marker' \in {"absent", "torn", "written"}
      BY DEF Crash, PowerLoss, Stop
<1>3. FileTypes' BY <1>1, <1>2
<1>4. MemoryTypes' BY CompactAssumption DEF Crash, PowerLoss, Stop
<1>5. PhaseTypes' BY <1>2
<1>6. DiskReaches' BY <1>1, <1>2 DEF Reaches
<1>7. LastExists' BY <1>1, <1>2
<1> QED BY <1>2, <1>3, <1>4, <1>5, <1>6, <1>7

LEMMA StepInv ==
    ASSUME "reopen" \notin Faults, Inv, [Next]_vars
    PROVE  Inv'
<1>1. ~ReopenFails BY DEF ReopenFails
<1>2. CASE Next BY <1>1, <1>2, OpenInv, AdmitInv, PublishInv, CommitInv, StopInv DEF Next
<1>3. CASE UNCHANGED vars
      BY <1>3 DEF vars, files, memory, Inv, TypeOK, FileTypes, MemoryTypes, PhaseTypes,
        MemoryReaches, PendingAhead, DiskReaches, CommitReaches, LastExists, HandleIsLog,
        WindowOpens
<1> QED BY <1>2, <1>3

\* As long as a compacted log can be reopened, the memory of the node and what a
\* crash leaves of its log are ahead of every accepted round (admission.rs admit,
\* durable.rs commit).
THEOREM Invariance == ASSUME "reopen" \notin Faults PROVE Spec => []Inv
BY InitInv, StepInv, PTL DEF Spec

\* "Write-before-act": whatever crashes, failed writes and failed syncs leave of
\* the log, it halts the next start or reaches every accepted round.
THEOREM AcceptsFailClosed == ASSUME "reopen" \notin Faults PROVE Spec => []FailsClosed
<1>1. Inv => FailsClosed BY DEF Inv, DiskReaches, Reaches, FailsClosed, Readable
<1> QED BY <1>1, Invariance, PTL

\* A step of the receiver is a step of the window, or none.
LEMMA StepSimulation == Inv /\ [Next]_vars => [Window!Next]_accepted
<1> SUFFICES ASSUME Inv, Next PROVE Window!Next \/ UNCHANGED accepted
    BY DEF vars
<1>1. CASE accepted' = accepted \cup {pending} /\ pending # None
  <2>1. pending \in Window!Rounds
        BY <1>1, UsableAssumption
        DEF Inv, TypeOK, PhaseTypes, Admissible, Round, Window!Rounds
  <2>2. \A a \in accepted : a.initiator = pending.initiator => a.epoch < pending.epoch
        BY <1>1 DEF Inv, PendingAhead
  <2> QED BY <1>1, <2>1, <2>2 DEF Window!Next, Window!Accept
<1>2. CASE accepted' = {} BY <1>2 DEF Window!Next, Window!NewWindow
<1>3. CASE UNCHANGED accepted BY <1>3
<1>4. \/ accepted' = accepted \cup {pending} /\ pending # None
      \/ accepted' = {} \/ UNCHANGED accepted
      BY DEF Inv, TypeOK, PhaseTypes, Committing, Next, OpenFresh, OperatorInitialize,
             BeginInitialize, MarkerWritten, LogEmptied, LogSynced, OpenExisting, RefuseToOpen,
             Refuse, Candidate, AppendWritten, ShortWrite, SyncFails, SyncDone, CompactFails,
             CompactRenames, CompactDone, ReopenFails, Publish, Crash, PowerLoss
<1> QED BY <1>1, <1>2, <1>3, <1>4

\* An initiator's rounds are accepted in strictly increasing epochs, across
\* restarts: the receiver implements the replay window (PROTOCOL 11.2).
THEOREM NoRoundAcceptedTwice ==
    ASSUME "reopen" \notin Faults PROVE Spec => ImplementsWindow
<1>1. Init => Window!Init BY DEF Init, Window!Init
<1> QED BY <1>1, StepSimulation, Invariance, PTL DEF Spec, ImplementsWindow, Window!Spec

----------------------------------------------------------------------------
(* Types, and what holds though a reopen may fail *)

TypeInv == TypeOK /\ LastExists

LEMMA StepTypes == TypeInv /\ [Next]_vars => TypeInv'
<1> SUFFICES ASSUME TypeInv, [Next]_vars PROVE TypeInv'
    OBVIOUS
<1> USE BoundAssumption, AbsentAssumption
        DEF files, memory, TypeInv, TypeOK, FileTypes, MemoryTypes, PhaseTypes, LastExists, Running, Committing
<1>0. /\ \A image \in disk : image # Absent => image \in Image /\ EachHasLast(image)
      /\ log # Absent => log \in Image /\ EachHasLast(log)
      OBVIOUS
<1>1. CASE OpenFresh BY <1>1 DEF OpenFresh, BeginInitialize
<1>2. CASE OperatorInitialize BY <1>2 DEF OperatorInitialize, BeginInitialize
<1>3. CASE MarkerWritten BY <1>3 DEF MarkerWritten
<1>4. CASE LogEmptied
  <2>1. Empty \in Image /\ EachHasLast(Empty) BY DEF Empty, Image, EachHasLast, Own
  <2> QED BY <1>4, <2>1 DEF LogEmptied
<1>5. CASE LogSynced \/ OpenExisting
  <2>1. log \in Image /\ EachHasLast(log) BY <1>0, <1>5 DEF LogSynced, OpenExisting
  <2>2. namespaces' = Replayed(log) /\ records' = Len(log.records) /\ Len(log.records) \in Nat
        BY <1>5, <2>1 DEF LogSynced, OpenExisting, Load, Image
  <2>3. DOMAIN namespaces' = Initiators
        /\ \A i \in Initiators : namespaces'[i] = None \/ (namespaces'[i] \in Round /\ namespaces'[i].initiator = i)
        BY <2>1, <2>2, ReplayedTypes
  <2>4. MemoryTypes' BY <1>5, <2>2, <2>3, CompactAssumption DEF LogSynced, OpenExisting, Load
  <2>5. CASE LogSynced BY <1>0, <2>1, <2>4, <2>5 DEF LogSynced, Load
  <2>6. CASE OpenExisting
    <3>1. log' \in Image /\ log'.records = log.records /\ log'.tail = "clean"
          BY <2>1, <2>6 DEF OpenExisting, Image
    <3>2. log.tail = "clean" => log' = log BY <2>1, <2>6 DEF OpenExisting, Image
    <3>3. log' \in disk' /\ (disk' = disk \/ disk' = {log'})
          BY <2>1, <2>6, <3>2 DEF OpenExisting, Readable, Image
    <3>4. EachHasLast(log') BY <2>1, <3>1 DEF EachHasLast, Own
    <3>5. FileTypes' BY <2>6, <3>1, <3>3 DEF OpenExisting
    <3>6. PhaseTypes' BY <2>6, <3>1 DEF OpenExisting, Load
    <3>7. LastExists' BY <2>6, <3>3, <3>4 DEF OpenExisting
    <3> QED BY <2>4, <2>6, <3>5, <3>6, <3>7 DEF OpenExisting
  <2> QED BY <1>5, <2>5, <2>6
<1>6. CASE RefuseToOpen BY <1>6 DEF RefuseToOpen
<1>7. CASE Refuse BY <1>7 DEF Refuse
<1>8. CASE Candidate
  <2>1. PICK r \in Round : Classify(r) = "candidate" /\ r.body \in Named /\ pending' = r
        BY <1>8 DEF Candidate
  <2>2. r \in Admissible BY <2>1, UsableAssumption DEF Classify, Admissible, Round
  <2> QED BY <1>8, <2>1, <2>2, NoneAssumption DEF Candidate, Admissible
<1>9. CASE AppendWritten
  <2>1. log \in Image /\ pending \in Round /\ EachHasLast(log) BY <1>0, <1>9 DEF AppendWritten, Admissible
  <2>2. CASE handle = "rounds.log"
    <3>1. disk' = disk \cup AppendedInPart(log) \cup {Appended(log, pending)} /\ log' = Appended(log, pending)
          BY <1>9, <2>2 DEF AppendWritten, InFlight
    <3>2. \A image \in disk' \ disk : image \in Image /\ EachHasLast(image)
          BY <2>1, <3>1, AppendedReaches, AppendedInPartReaches
    <3>3. log' \in Image BY <2>1, <3>1, AppendedReaches
    <3> QED BY <1>0, <1>9, <3>1, <3>2, <3>3 DEF AppendWritten
  <2>3. CASE handle # "rounds.log" BY <1>9, <2>3 DEF AppendWritten
  <2> QED BY <2>2, <2>3
<1>10. CASE ShortWrite
  <2>1. log \in Image /\ EachHasLast(log) BY <1>0, <1>10 DEF ShortWrite
  <2>2. CASE handle = "rounds.log"
    <3>1. log' \in AppendedInPart(log) /\ disk' = disk \cup {log'} BY <1>10, <2>2 DEF ShortWrite
    <3>2. log' \in Image /\ EachHasLast(log') BY <2>1, <3>1, AppendedInPartReaches
    <3> QED BY <1>0, <1>10, <3>1, <3>2 DEF ShortWrite
  <2>3. CASE handle # "rounds.log" BY <1>10, <2>3 DEF ShortWrite
  <2> QED BY <2>2, <2>3
<1>11. CASE SyncFails BY <1>11 DEF SyncFails
<1>12. CASE SyncDone
  <2>1. pending \in Admissible /\ pending.initiator \in Initiators /\ pending \in Round
        BY <1>12 DEF SyncDone, Admissible, Round
  <2>2. namespaces' = [namespaces EXCEPT ![pending.initiator] = pending] BY <1>12 DEF SyncDone
  <2>3. since' \in 0..CompactAfter BY <1>12, CompactAssumption DEF SyncDone
  <2>4. MemoryTypes' BY <1>12, <2>1, <2>2, <2>3 DEF SyncDone
  <2>5. /\ accepted' \in {accepted, accepted \cup {pending}} /\ phase' \in {"ready", "compacting"}
        /\ IF phase' = "ready" THEN pending' = None ELSE pending' = pending
        BY <1>12 DEF SyncDone, Publish
  <2>6. FileTypes' /\ LastExists' BY <1>0, <1>12 DEF SyncDone
  <2>7. PhaseTypes' BY <1>12, <2>1, <2>5 DEF SyncDone
  <2> QED BY <1>12, <2>1, <2>4, <2>5, <2>6, <2>7 DEF SyncDone
<1>13. CASE CompactRenames
  <2>1. disk' = disk \cup {log'} /\ log' \in Compacted BY <1>13 DEF CompactRenames
  <2>2. log' \in Image /\ EachHasLast(log') BY <2>1, CompactedReaches
  <2> QED BY <1>0, <1>13, <2>1, <2>2 DEF CompactRenames
<1>14. CASE CompactFails \/ ReopenFails BY <1>14 DEF CompactFails, ReopenFails, Publish
<1>15. CASE CompactDone
  <2>1. Cardinality(Known) \in Nat BY InitiatorAssumption, FS_Subset, FS_CardinalityType DEF Known
  <2> QED BY <1>15, <2>1, CompactAssumption DEF CompactDone, Publish
<1>16. CASE Crash \/ PowerLoss
  <2>1. ASSUME NEW part \in InFlight PROVE part \in Image /\ EachHasLast(part)
    <3>1. log \in Image /\ EachHasLast(log) /\ part \in AppendedInPart(log) BY <1>0, <2>1 DEF InFlight
    <3> QED BY <3>1, AppendedInPartReaches
  <2>2. /\ disk' \subseteq disk \cup InFlight /\ log' \in disk'
        /\ phase' = "down" /\ pending' = None /\ refused' = None
        /\ accepted' = accepted /\ established' = established /\ windows' = windows
        /\ marker' \in {"absent", "torn", "written"}
        BY <1>16 DEF Crash, PowerLoss, Stop
  <2>3. MemoryTypes' BY <1>16, CompactAssumption DEF Crash, PowerLoss, Stop
  <2> QED BY <1>0, <2>1, <2>2, <2>3
<1>17. CASE UNCHANGED vars BY <1>17 DEF vars
<1> QED BY <1>1, <1>2, <1>3, <1>4, <1>5, <1>6, <1>7, <1>8, <1>9, <1>10, <1>11, <1>12, <1>13, <1>14, <1>15,
           <1>16, <1>17 DEF Next

\* durable.rs: whatever fails, a running node has a log, one record is written at
\* a time, and only admissible rounds are ever accepted.
THEOREM AdmissionTypes == Spec => []TypeOK
<1>1. Init => TypeInv BY InitInv DEF Inv, TypeInv
<1> QED BY <1>1, StepTypes, PTL DEF Spec, TypeInv

----------------------------------------------------------------------------
(* Accusations *)

\* A refusal is forgotten when a round is being committed, so nothing that was
\* refused is accepted after it.
RefusalEnds == phase \in Committing => refused = None

LEMMA StepRefusal == TypeInv /\ RefusalEnds /\ [Next]_vars => RefusalEnds'
<1> SUFFICES ASSUME TypeInv, RefusalEnds, [Next]_vars PROVE RefusalEnds'
    OBVIOUS
<1> USE DEF RefusalEnds, Committing
<1>1. CASE Crash \/ PowerLoss BY <1>1 DEF Crash, PowerLoss, Stop
<1>2. CASE UNCHANGED vars BY <1>2 DEF vars, files, memory
<1>3. CASE Refuse BY <1>3 DEF Refuse
<1>4. CASE UNCHANGED refused /\ (phase' \in Committing => phase \in Committing) BY <1>4
<1>5. CASE phase' \notin Committing \/ refused' = None BY <1>5
<1> QED BY <1>1, <1>2, <1>3, <1>4, <1>5
        DEF Next, OpenFresh, OperatorInitialize, BeginInitialize, MarkerWritten, LogEmptied, LogSynced, Load,
            OpenExisting, RefuseToOpen, Candidate, AppendWritten, ShortWrite, SyncFails, SyncDone, Publish,
            CompactFails, CompactRenames, CompactDone, ReopenFails

\* A round that the watermark has reached is no equivocation.
LEMMA ReachedIsHonest ==
    ASSUME Inv, NEW r \in accepted, phase = "ready"
    PROVE  Classify(r) # "equivocation"
<1>1. namespaces[r.initiator] # None /\ Reached(namespaces[r.initiator], r)
      BY DEF Inv, MemoryReaches, Running
<1>2. r \in Round /\ r.epoch \in Int /\ r.initiator \in Initiators BY DEF Inv, TypeOK, Admissible, Round
<1>3. namespaces[r.initiator] \in Round BY <1>1, <1>2 DEF Inv, TypeOK, MemoryTypes
<1>4. namespaces[r.initiator].epoch \in Int BY <1>3 DEF Round
<1>5. CASE namespaces[r.initiator] = r BY <1>1, <1>2, <1>5 DEF Classify
<1>6. CASE namespaces[r.initiator].epoch > r.epoch BY <1>1, <1>2, <1>4, <1>6 DEF Classify
<1> QED BY <1>1, <1>5, <1>6 DEF Reached

LEMMA StepAccusation ==
    Inv /\ RefusalEnds /\ NoFalseAccusation /\ [Next]_vars => NoFalseAccusation'
<1> SUFFICES ASSUME Inv, RefusalEnds, NoFalseAccusation, [Next]_vars PROVE NoFalseAccusation'
    OBVIOUS
<1> USE DEF NoFalseAccusation
<1>1. CASE Refuse
  <2>1. PICK r \in Round :
            refused' = [round |-> r, as |-> IF Classify(r) = "candidate" THEN "not_a_member" ELSE Classify(r)]
        BY <1>1 DEF Refuse
  <2>2. phase = "ready" /\ accepted' = accepted BY <1>1 DEF Refuse
  <2>3. ASSUME refused'.as = "equivocation" PROVE refused'.round \notin accepted
        BY <2>1, <2>2, <2>3, ReachedIsHonest
  <2> QED BY <2>2, <2>3
<1>2. CASE refused' = None BY <1>2
<1>3. CASE UNCHANGED <<refused, accepted>> BY <1>3
<1>4. CASE phase \in Committing /\ UNCHANGED refused BY <1>2, <1>4 DEF RefusalEnds
<1> QED BY <1>1, <1>2, <1>3, <1>4
        DEF Next, vars, files, memory, OpenFresh, OperatorInitialize, BeginInitialize, MarkerWritten, LogEmptied,
            LogSynced, OpenExisting, RefuseToOpen, Candidate, AppendWritten, ShortWrite, SyncFails, SyncDone,
            CompactFails, CompactRenames, CompactDone, ReopenFails, Crash, PowerLoss, Stop, Committing

\* admission.rs admit: an honest initiator whose accepted round comes again, after
\* whatever crashes and failed writes, is not accused of equivocation.
THEOREM HonestNotAccused == ASSUME "reopen" \notin Faults PROVE Spec => []NoFalseAccusation
<1>1. Init => RefusalEnds /\ NoFalseAccusation BY DEF Init, RefusalEnds, NoFalseAccusation
<1>2. Inv => TypeInv BY DEF Inv, TypeInv
<1> QED BY <1>1, <1>2, StepRefusal, StepAccusation, Invariance, PTL DEF Spec

----------------------------------------------------------------------------
(* The log as the node itself leaves it *)

\* What is on disk is readable, a running node's log ends cleanly, and the
\* memory is ahead of it but for the round being committed.
Behind(r) ==
    \/ namespaces[r.initiator] # None /\ Reached(namespaces[r.initiator], r)
    \/ phase = "syncing" /\ r = pending

LogFollows ==
    /\ \A image \in disk : image # Absent => Readable(image)
    /\ phase \in Running \cup {"emptied"} => log.tail = "clean"
    /\ phase = "emptied" => log.records = <<>>
    /\ phase \in Running => \A k \in DOMAIN log.records : Behind(log.records[k])
    /\ phase \in {"appending", "syncing"} =>
            namespaces[pending.initiator] = None \/ namespaces[pending.initiator].epoch < pending.epoch
    /\ phase \in {"compacting", "renamed"} => namespaces[pending.initiator] = pending

\* A later record is appended to a log that ends cleanly.
LEMMA AppendedReadable ==
    ASSUME NEW image \in Image, image.tail = "clean", Readable(image), NEW r \in Round,
           \A k \in DOMAIN image.records :
                image.records[k].initiator = r.initiator => image.records[k].epoch < r.epoch
    PROVE  LET new == Appended(image, r)
           IN  /\ Readable(new) /\ new.tail = "clean"
               /\ \A k \in DOMAIN new.records :
                    new.records[k] = r \/ \E j \in DOMAIN image.records : new.records[k] = image.records[j]
<1> DEFINE new == Appended(image, r)  s == image.records
<1>1. new.records = Append(s, r) /\ new.tail = "clean" /\ s \in Seq(Round) BY DEF Appended, Image
<1>2. /\ DOMAIN new.records = 1..Len(s) + 1 /\ DOMAIN s = 1..Len(s) /\ Len(s) \in Nat
      /\ new.records[Len(s) + 1] = r /\ \A k \in DOMAIN s : new.records[k] = s[k]
      BY <1>1
<1>3. \A k \in DOMAIN s : s[k].initiator = r.initiator => s[k].epoch < r.epoch OBVIOUS
<1>4. Increasing(s) BY DEF Readable
<1> HIDE DEF new, s
<1>5. Increasing(new.records)
  <2> SUFFICES ASSUME NEW j \in DOMAIN new.records, NEW k \in DOMAIN new.records, j < k,
                      new.records[j].initiator = new.records[k].initiator
               PROVE  new.records[j].epoch < new.records[k].epoch
      BY DEF Increasing
  <2>1. j \in DOMAIN s BY <1>2
  <2>2. CASE k \in DOMAIN s BY <1>2, <1>4, <2>1, <2>2 DEF Increasing
  <2>3. CASE k = Len(s) + 1 BY <1>2, <1>3, <2>1, <2>3
  <2> QED BY <1>2, <2>2, <2>3
<1>6. ASSUME NEW k \in DOMAIN new.records
      PROVE  new.records[k] = r \/ \E j \in DOMAIN s : new.records[k] = s[j]
  <2>1. k = Len(s) + 1 \/ k \in DOMAIN s BY <1>2
  <2> QED BY <1>2, <2>1
<1> QED BY <1>1, <1>5, <1>6 DEF Readable, new, s

\* A compacted log holds one record of each initiator, its watermark.
LEMMA CompactedReadable ==
    ASSUME MemoryTypes, NEW image \in Compacted
    PROVE  /\ Readable(image) /\ image.tail = "clean"
           /\ \A k \in DOMAIN image.records : \E i \in Known : image.records[k] = namespaces[i]
<1>1. PICK s \in Bijection(1..Cardinality(Known), LastRounds) : image = [records |-> s, tail |-> "clean"]
      BY DEF Compacted
<1>2. /\ s \in [1..Cardinality(Known) -> LastRounds]
      /\ \A j, k \in 1..Cardinality(Known) : s[j] = s[k] => j = k
      BY DEF Bijection, Injection, IsInjective
<1>3. image.records = s /\ image.tail = "clean" /\ DOMAIN s = 1..Cardinality(Known) BY <1>1, <1>2
<1>4. \A k \in DOMAIN s : \E i \in Known : s[k] = namespaces[i] BY <1>2 DEF LastRounds
<1>5. \A i \in Known : namespaces[i].initiator = i BY DEF MemoryTypes, Known
<1>6. ASSUME NEW j \in DOMAIN s, NEW k \in DOMAIN s, s[j].initiator = s[k].initiator PROVE j = k
      BY <1>2, <1>4, <1>5, <1>6
<1>7. \A j \in DOMAIN s : ~ j < j
  <2>1. Cardinality(Known) \in Nat BY InitiatorAssumption, FS_Subset, FS_CardinalityType DEF Known
  <2> QED BY <1>3, <2>1
<1>8. Increasing(s) BY <1>6, <1>7 DEF Increasing
<1> QED BY <1>3, <1>4, <1>8 DEF Readable

\* A record written in part leaves the records as they were.
LEMMA PartReadable ==
    ASSUME NEW image \in Image, image.tail = "clean", Readable(image), NEW part \in AppendedInPart(image)
    PROVE  Readable(part)
<1>1. part = [image EXCEPT !.tail = "torn"] BY DEF AppendedInPart
<1>2. part.tail = "torn" /\ part.records = image.records BY <1>1 DEF Image
<1> QED BY <1>2 DEF Readable

LEMMA StepFollows ==
    ASSUME "short_write" \notin Faults, "fsync" \notin Faults
    PROVE  TypeInv /\ LogFollows /\ [Next]_vars => LogFollows'
<1> SUFFICES ASSUME TypeInv, LogFollows, [Next]_vars PROVE LogFollows'
    OBVIOUS
<1>0. /\ log # Absent => log \in Image /\ EachHasLast(log)
      /\ log # Absent => log \in disk /\ Readable(log)
      /\ MemoryTypes
      BY DEF TypeInv, TypeOK, FileTypes, LastExists, LogFollows
<1>a. /\ phase \in Running \cup {"emptied"} => log # Absent
      /\ phase \in {"appending", "syncing", "compacting", "renamed"} => pending \in Round
      BY DEF TypeInv, TypeOK, PhaseTypes, Committing, Admissible
<1> DEFINE kept == \A image \in disk' \ disk : image # Absent => Readable(image)
           quiet == phase' \notin Running \cup {"emptied"}
<1>b. kept /\ quiet => LogFollows'
      BY DEF LogFollows, Running, Committing
<1>1. CASE OpenFresh \/ OperatorInitialize \/ MarkerWritten \/ RefuseToOpen
      BY <1>1, <1>b DEF OpenFresh, OperatorInitialize, BeginInitialize, MarkerWritten, RefuseToOpen, files,
                        Running, Committing
<1>2. CASE LogEmptied
  <2>1. Readable(Empty) /\ Empty.tail = "clean" /\ Empty.records = <<>> BY DEF Empty, Readable, Increasing
  <2> QED BY <1>2, <2>1 DEF LogEmptied, LogFollows, Running, Committing
<1>3. CASE LogSynced
  <2>1. log.records = <<>> /\ log.tail = "clean" /\ log # Absent /\ Readable(log)
        BY <1>0, <1>a, <1>3 DEF LogSynced, LogFollows
  <2> QED BY <1>3, <2>1 DEF LogSynced, Load, LogFollows, Running, Committing
<1>4. CASE OpenExisting
  <2>1. log \in Image /\ EachHasLast(log) /\ Readable(log) BY <1>0, <1>4 DEF OpenExisting
  <2>2. log' \in Image /\ log'.records = log.records /\ log'.tail = "clean"
        BY <1>4, <2>1 DEF OpenExisting, Image
  <2>3. Readable(log') BY <2>1, <2>2 DEF Readable
  <2>4. \A image \in disk' : image # Absent => Readable(image) BY <1>4, <2>3 DEF OpenExisting, LogFollows
  <2>5. \A k \in DOMAIN log.records : log.records[k] \in Round /\ Covers(log, log.records[k])
    <3>1. \A k \in DOMAIN log.records : log.records[k] \in Round BY <2>1 DEF Image
    <3> QED BY <3>1 DEF Covers, Reached
  <2>6. phase' = "ready" /\ namespaces' = Replayed(log) BY <1>4 DEF OpenExisting, Load
  <2>7. (\A k \in DOMAIN log.records : Behind(log.records[k]))'
    <3>1. \A k \in DOMAIN log.records : /\ namespaces'[log.records[k].initiator] # None
                                        /\ Reached(namespaces'[log.records[k].initiator], log.records[k])
          BY <2>1, <2>5, <2>6, ReplayedReaches
    <3> QED BY <2>2, <3>1, Zenon DEF Behind
  <2> QED BY <2>2, <2>4, <2>6, <2>7 DEF LogFollows
<1>5. CASE Refuse BY <1>5 DEF Refuse, files, memory, LogFollows, Behind
<1>6. CASE Candidate
  <2>1. PICK r \in Round : Classify(r) = "candidate" /\ pending' = r BY <1>6 DEF Candidate
  <2>2. /\ phase = "ready" /\ phase' = "appending" /\ UNCHANGED <<log, disk, namespaces>>
        BY <1>6 DEF Candidate, files, memory
  <2>3. namespaces[r.initiator] = None \/ namespaces[r.initiator].epoch < r.epoch
        BY <2>1 DEF Classify
  <2>4. \A k \in DOMAIN log.records : Behind(log.records[k])' BY <2>2 DEF LogFollows, Behind, Running
  <2> QED BY <2>1, <2>2, <2>3, <2>4 DEF LogFollows, Running, Committing
<1>7. CASE AppendWritten
  <2>1. /\ phase = "appending" /\ phase' = "syncing" /\ UNCHANGED <<namespaces, pending>>
        /\ log \in Image /\ Readable(log) /\ log.tail = "clean" /\ pending \in Round
        BY <1>0, <1>a, <1>7 DEF AppendWritten, memory, LogFollows, Running, Committing
  <2>2. \A k \in DOMAIN log.records : /\ namespaces[log.records[k].initiator] # None
                                      /\ Reached(namespaces[log.records[k].initiator], log.records[k])
        BY <2>1 DEF LogFollows, Behind, Running, Committing
  <2>3. namespaces[pending.initiator] = None \/ namespaces[pending.initiator].epoch < pending.epoch
        BY <2>1 DEF LogFollows
  <2>4. CASE handle = "rounds.log"
    <3>1. log' = Appended(log, pending) /\ disk' = disk \cup AppendedInPart(log) \cup {log'}
          BY <1>7, <2>1, <2>4 DEF AppendWritten, InFlight
    <3>2. \A k \in DOMAIN log.records :
                log.records[k].initiator = pending.initiator => log.records[k].epoch < pending.epoch
      <4> SUFFICES ASSUME NEW k \in DOMAIN log.records, log.records[k].initiator = pending.initiator
                   PROVE  log.records[k].epoch < pending.epoch
          OBVIOUS
      <4>1. log.records[k] \in Round BY <2>1 DEF Image
      <4>2. pending.initiator \in Initiators /\ pending.epoch \in Int /\ log.records[k].epoch \in Int
            BY <2>1, <4>1 DEF Round
      <4>3. namespaces[pending.initiator] # None /\ Reached(namespaces[pending.initiator], log.records[k])
            BY <2>2
      <4>4. namespaces[pending.initiator].epoch \in Int BY <1>0, <4>2, <4>3 DEF MemoryTypes, Round
      <4> QED BY <2>3, <4>2, <4>3, <4>4 DEF Reached
    <3>3. /\ Readable(log') /\ log'.tail = "clean"
          /\ \A k \in DOMAIN log'.records :
                log'.records[k] = pending \/ \E j \in DOMAIN log.records : log'.records[k] = log.records[j]
          BY <2>1, <3>1, <3>2, AppendedReadable
    <3>4. (\A k \in DOMAIN log.records : Behind(log.records[k]))'
      <4>1. \A k \in DOMAIN log'.records :
                \/ log'.records[k] = pending'
                \/ /\ namespaces'[log'.records[k].initiator] # None
                   /\ Reached(namespaces'[log'.records[k].initiator], log'.records[k])
            BY <2>1, <2>2, <3>3
      <4> QED BY <2>1, <4>1 DEF Behind
    <3>5. \A image \in disk' : image # Absent => Readable(image)
          BY <2>1, <3>1, <3>3, PartReadable DEF LogFollows
    <3> QED BY <2>1, <2>3, <3>3, <3>4, <3>5 DEF LogFollows
  <2>5. CASE handle # "rounds.log"
    <3>1. UNCHANGED <<log, disk>> BY <1>7, <2>5 DEF AppendWritten
    <3>2. (\A k \in DOMAIN log.records : Behind(log.records[k]))' BY <2>1, <2>2, <3>1 DEF Behind
    <3> QED BY <2>1, <2>3, <3>1, <3>2 DEF LogFollows
  <2> QED BY <2>4, <2>5
<1>8. CASE ShortWrite \/ SyncFails BY <1>8 DEF ShortWrite, SyncFails
<1>9. CASE SyncDone
  <2>1. /\ phase = "syncing" /\ phase' \in {"ready", "compacting"} /\ log' = log /\ disk' \in {{log}, disk}
        /\ phase' = "compacting" => pending' = pending
        /\ namespaces' = [namespaces EXCEPT ![pending.initiator] = pending]
        BY <1>9 DEF SyncDone, Publish
  <2>2. log # Absent /\ Readable(log) /\ log.tail = "clean" /\ pending \in Round /\ pending.initiator \in Initiators
        /\ pending.epoch \in Int
        BY <1>0, <1>a, <2>1 DEF LogFollows, Running, Committing, Round
  <2>3. namespaces[pending.initiator] = None \/ namespaces[pending.initiator].epoch < pending.epoch
        BY <2>1 DEF LogFollows
  <2>4. namespaces'[pending.initiator] = pending
        /\ \A i \in Initiators : i # pending.initiator => namespaces'[i] = namespaces[i]
        BY <1>0, <2>1, <2>2 DEF MemoryTypes
  <2>5. ASSUME NEW k \in DOMAIN log.records PROVE Behind(log.records[k])'
    <3> DEFINE r == log.records[k]
    <3>1. Behind(r) BY <2>1 DEF LogFollows, Running, Committing
    <3>2. r \in Round /\ r.initiator \in Initiators /\ r.epoch \in Int
      <4>1. r \in Round BY <1>0, <2>2 DEF Image
      <4> QED BY <4>1 DEF Round
    <3>3. CASE r = pending
      <4>1. namespaces'[r.initiator] # None /\ Reached(namespaces'[r.initiator], r)
            BY <2>2, <2>4, <3>3, NoneAssumption DEF Reached
      <4> QED BY <2>1, <4>1 DEF Behind
    <3>4. CASE r.initiator # pending.initiator /\ r # pending
      <4>1. namespaces[r.initiator] # None /\ Reached(namespaces[r.initiator], r) BY <3>1, <3>4 DEF Behind
      <4>2. namespaces'[r.initiator] = namespaces[r.initiator] BY <2>4, <3>2, <3>4
      <4> QED BY <2>1, <4>1, <4>2 DEF Behind
    <3>5. CASE r.initiator = pending.initiator /\ r # pending
      <4>1. namespaces[pending.initiator] # None /\ Reached(namespaces[pending.initiator], r)
            BY <3>1, <3>5 DEF Behind
      <4>2. namespaces[pending.initiator].epoch \in Int BY <1>0, <2>2, <4>1 DEF MemoryTypes, Round
      <4>3. r.epoch < pending.epoch BY <2>2, <2>3, <3>2, <4>1, <4>2 DEF Reached
      <4>4. Reached(pending, r) BY <2>2, <3>2, <3>5, <4>3 DEF Reached
      <4>5. namespaces'[r.initiator] # None /\ Reached(namespaces'[r.initiator], r)
            BY <2>2, <2>4, <3>5, <4>4, NoneAssumption
      <4> QED BY <2>1, <4>5 DEF Behind
    <3> QED BY <3>3, <3>4, <3>5
  <2>6. (\A k \in DOMAIN log.records : Behind(log.records[k]))' BY <2>1, <2>5
  <2>7. \A image \in disk' : image # Absent => Readable(image) BY <2>1, <2>2 DEF LogFollows
  <2> QED BY <2>1, <2>2, <2>4, <2>6, <2>7 DEF LogFollows
<1>10. CASE CompactRenames
  <2>1. /\ phase = "compacting" /\ phase' = "renamed" /\ log' \in Compacted /\ disk' = disk \cup {log'}
        /\ UNCHANGED <<namespaces, pending>>
        BY <1>10 DEF CompactRenames
  <2>2. /\ Readable(log') /\ log'.tail = "clean"
        /\ \A k \in DOMAIN log'.records : \E i \in Known : log'.records[k] = namespaces[i]
        BY <1>0, <2>1, CompactedReadable
  <2>3. (\A k \in DOMAIN log.records : Behind(log.records[k]))'
    <3>1. ASSUME NEW k \in DOMAIN log'.records
          PROVE  /\ namespaces'[log'.records[k].initiator] # None
                 /\ Reached(namespaces'[log'.records[k].initiator], log'.records[k])
      <4>1. PICK i \in Known : log'.records[k] = namespaces[i] BY <2>2
      <4>2. namespaces[i].initiator = i /\ namespaces[i] # None BY <1>0, <4>1 DEF Known, MemoryTypes
      <4> QED BY <2>1, <4>1, <4>2 DEF Reached
    <3> QED BY <3>1, Zenon DEF Behind
  <2> QED BY <2>1, <2>2, <2>3 DEF LogFollows
<1>11. CASE CompactFails \/ CompactDone \/ ReopenFails
  <2>1. /\ phase \in {"compacting", "renamed"} /\ phase' = "ready" /\ UNCHANGED <<log, disk, namespaces>>
        BY <1>11 DEF CompactFails, CompactDone, ReopenFails, Publish, files, memory
  <2>2. \A k \in DOMAIN log.records : Behind(log.records[k])' BY <2>1 DEF LogFollows, Behind, Running, Committing
  <2> QED BY <2>1, <2>2 DEF LogFollows, Running, Committing
<1>12. CASE Crash \/ PowerLoss
  <2>1. phase' = "down" /\ disk' \subseteq disk \cup {log} \cup InFlight BY <1>12 DEF Crash, PowerLoss, Stop
  <2>2. ASSUME NEW part \in InFlight PROVE Readable(part)
    <3>1. log \in Image /\ Readable(log) /\ log.tail = "clean" /\ part \in AppendedInPart(log)
          BY <1>0, <1>a, <2>2 DEF InFlight, LogFollows, Running, Committing
    <3> QED BY <3>1, PartReadable
  <2> QED BY <1>0, <1>b, <2>1, <2>2 DEF Running, Committing
<1>13. CASE UNCHANGED vars BY <1>13 DEF vars, files, memory, LogFollows, Behind
<1> QED BY <1>1, <1>2, <1>3, <1>4, <1>5, <1>6, <1>7, <1>8, <1>9, <1>10, <1>11, <1>12, <1>13 DEF Next

\* durable.rs: as long as appends and fsyncs do not fail, whatever crashes, power
\* losses and failed compactions come, the node never leaves a log that halts its
\* own next start.
THEOREM LogReopens ==
    ASSUME "short_write" \notin Faults, "fsync" \notin Faults PROVE Spec => []LogStaysReadable
<1>1. Init => TypeInv /\ LogFollows
  <2>1. Init => TypeInv BY InitInv DEF Inv, TypeInv
  <2>2. Init => LogFollows BY DEF Init, LogFollows, Running, Committing
  <2> QED BY <2>1, <2>2
<1>2. TypeInv /\ LogFollows => LogStaysReadable
      BY DEF TypeInv, TypeOK, FileTypes, LogFollows, LogStaysReadable
<1> QED BY <1>1, <1>2, StepTypes, StepFollows, PTL DEF Spec
=============================================================================
