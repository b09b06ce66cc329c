-------------------------- MODULE RoundAdmission ---------------------------
(***************************************************************************)
(* fantuan-anon admission.rs over durable.rs: a receiver classifies the    *)
(* rounds of its peers against a watermark per initiator, and appends one  *)
(* record to rounds.log, with fsync, before an accept becomes visible.     *)
(*                                                                         *)
(* log is what a reader of rounds.log sees, disk the images of it that a   *)
(* power loss may leave.  A killed process loses nothing it has written.   *)
(* The instance and the context of a round are one value, its body.        *)
(***************************************************************************)
EXTENDS Integers, Sequences, FiniteSets, Functions

CONSTANTS
    Initiators,     \* the peers that start rounds
    Bodies,         \* instance and context of a round
    Named,          \* the bodies whose declared set contains this node
    MaxUsable,      \* EPOCH_MAX_USABLE
    CompactAfter,   \* COMPACT_AFTER_RECORDS
    Faults,         \* which I/O calls may fail while the node runs
    Absent,         \* no log file
    None,           \* no accepted round, no refusal
    MaxWindows,     \* bound: operator initializations
    MaxLog          \* bound: records in the log when an fsync fails

ASSUME InitiatorAssumption == IsFiniteSet(Initiators)
ASSUME NamedAssumption == Named \subseteq Bodies
ASSUME UsableAssumption == MaxUsable \in Nat
ASSUME CompactAssumption == CompactAfter \in Nat \ {0}
ASSUME FaultAssumption == Faults \subseteq {"short_write", "fsync", "compact", "reopen"}
ASSUME BoundAssumption == MaxWindows \in Nat /\ MaxLog \in Nat

\* The rounds an authenticated start may carry; the last epoch is unusable.
Round == [initiator : Initiators, epoch : 0..MaxUsable + 1, body : Bodies]

ASSUME NoneAssumption == None \notin Round

VARIABLES
    marker,     \* rounds.state: "absent", "torn" or "written"
    log,        \* rounds.log: an image (below) or Absent
    disk,       \* the set of images a power loss may leave of it
    handle,     \* DurableStore.log writes to "rounds.log" or to an "unlinked" file
    phase,      \* what the process is doing
    pending,    \* the round being committed
    namespaces, \* the watermark of each initiator: its last accepted round
    records, since, \* DurableStore.records, appended_since_compact
    established,\* the identity existed before this start
    refused,    \* the last refusal and its classification
    accepted,   \* history: rounds accepted in this replay window
    windows     \* counter behind MaxWindows

files == <<marker, log, disk>>
memory == <<handle, namespaces, records, since>>
vars == <<files, memory, phase, pending, established, refused, accepted, windows>>

\* A log file: its whole records, and what follows them: nothing, a part of a
\* record ("torn"), or at least a record's length of bytes that no checksum
\* covers ("corrupt").
Image == [records : Seq(Round), tail : {"clean", "torn", "corrupt"}]
Empty == [records |-> <<>>, tail |-> "clean"]

ASSUME AbsentAssumption == Absent \notin Image

Init ==
    /\ marker = "absent" /\ log = Absent /\ disk = {Absent}
    /\ phase = "down"
    /\ pending = None /\ refused = None
    /\ handle = "rounds.log"
    /\ namespaces = [i \in Initiators |-> None]
    /\ records = 0 /\ since = 0
    /\ established = FALSE
    /\ accepted = {}
    /\ windows = 0

Known == {i \in Initiators : namespaces[i] # None}

----------------------------------------------------------------------------
(* The log file *)

\* replay_log: strictly increasing per initiator.
Increasing(s) ==
    \A j, k \in DOMAIN s :
        j < k /\ s[j].initiator = s[k].initiator => s[j].epoch < s[k].epoch

\* replay_log finds no reason to halt; a torn tail is none.
Readable(image) == image.tail # "corrupt" /\ Increasing(image.records)

Own(image, i) == {k \in DOMAIN image.records : image.records[k].initiator = i}

\* Mutant: the state of an initiator is its first one.
ReplayedFirst(image) ==
    [i \in Initiators |->
        IF Own(image, i) = {} THEN None
        ELSE image.records[CHOOSE k \in Own(image, i) : \A j \in Own(image, i) : j >= k]]

\* replay_log: the state of each initiator is its last record.
Replayed(image) ==
    [i \in Initiators |->
        IF Own(image, i) = {} THEN None
        ELSE image.records[CHOOSE k \in Own(image, i) : \A j \in Own(image, i) : j <= k]]

\* A whole record is written behind whatever the file holds.
Appended(image, r) ==
    IF image.tail = "clean"
    THEN [image EXCEPT !.records = Append(@, r)]
    ELSE [image EXCEPT !.tail = "corrupt"]

\* Part of a record is written behind whatever the file holds.
AppendedInPart(image) ==
    {[image EXCEPT !.tail = t] :
        t \in CASE image.tail = "clean" -> {"torn"}
                [] image.tail = "torn" -> {"torn", "corrupt"}
                [] OTHER -> {"corrupt"}}

\* compact: one record per namespace, in the order the map is iterated.
LastRounds == {namespaces[i] : i \in Known}
Compacted ==
    {[records |-> s, tail |-> "clean"] :
        s \in Bijection(1..Cardinality(Known), LastRounds)}

----------------------------------------------------------------------------
(* Opening *)

\* open: fresh identity, no files; initialize by the operator: the marker is
\* truncated and written first.
BeginInitialize ==
    /\ phase' = "marking"
    /\ marker' = "torn"
    /\ established' = TRUE
    /\ accepted' = {} /\ refused' = None

OpenFresh ==
    /\ phase = "down" /\ ~established
    /\ marker = "absent" /\ log = Absent
    /\ BeginInitialize
    /\ UNCHANGED <<log, disk, memory, pending, windows>>

OperatorInitialize ==
    /\ phase \in {"down", "halted"}
    /\ windows < MaxWindows
    /\ windows' = windows + 1
    /\ BeginInitialize
    /\ UNCHANGED <<log, disk, memory, pending>>

MarkerWritten ==
    /\ phase = "marking"
    /\ marker' = "written"
    /\ phase' = "emptying"
    /\ UNCHANGED <<log, disk, memory, pending, established, refused, accepted, windows>>

\* The log is created or truncated; its fsync is LogSynced.
LogEmptied ==
    /\ phase = "emptying"
    /\ log' = Empty /\ disk' = disk \cup {Empty}
    /\ phase' = "emptied"
    /\ UNCHANGED <<marker, memory, pending, established, refused, accepted, windows>>

\* open_existing, the state it builds.
Load(image) ==
    /\ handle' = "rounds.log"
    /\ namespaces' = Replayed(image)
    /\ records' = Len(image.records) /\ since' = 0
    /\ phase' = "ready"

LogSynced ==
    /\ phase = "emptied"
    /\ disk' = {log}
    /\ Load(log)
    /\ UNCHANGED <<marker, log, pending, established, refused, accepted, windows>>

\* Mutant: the torn tail stays in the file.
OpenWithTornTail ==
    /\ phase = "down"
    /\ marker = "written" /\ log # Absent /\ Readable(log)
    /\ Load(log)
    /\ established' = TRUE
    /\ UNCHANGED <<marker, log, disk, pending, refused, accepted, windows>>

\* A torn tail is cut off, with fsync.
OpenExisting ==
    /\ phase = "down"
    /\ marker = "written" /\ log # Absent /\ Readable(log)
    /\ log' = [log EXCEPT !.tail = "clean"]
    /\ disk' = IF log.tail = "torn" THEN {log'} ELSE disk
    /\ Load(log)
    /\ established' = TRUE
    /\ UNCHANGED <<marker, pending, refused, accepted, windows>>

\* MissingMarker, CorruptMarker, no log, CorruptLog, NonMonotonicLog.
RefuseToOpen ==
    /\ phase = "down"
    /\ \/ marker = "absent" /\ (log # Absent \/ established)
       \/ marker = "torn"
       \/ marker = "written" /\ log = Absent
       \/ marker = "written" /\ log # Absent /\ ~Readable(log)
    /\ phase' = "halted"
    /\ UNCHANGED <<files, memory, pending, established, refused, accepted, windows>>

----------------------------------------------------------------------------
(* RoundAdmission.admit *)

\* Mutant: an older epoch is compared like the watermark's.
ClassifyOldAsCurrent(r) ==
    LET current == namespaces[r.initiator] IN
    IF r.epoch > MaxUsable THEN "overflow"
    ELSE IF current = None \/ r.epoch > current.epoch THEN "candidate"
    ELSE IF r.body = current.body /\ r.epoch = current.epoch THEN "replay" ELSE "equivocation"

Classify(r) ==
    LET current == namespaces[r.initiator] IN
    IF r.epoch > MaxUsable THEN "overflow"
    ELSE IF current = None \/ r.epoch > current.epoch THEN "candidate"
    ELSE IF r.epoch < current.epoch THEN "stale"
    ELSE IF r.body = current.body THEN "replay" ELSE "equivocation"

Refuse ==
    /\ phase = "ready"
    /\ \E r \in Round :
        /\ Classify(r) # "candidate" \/ r.body \notin Named
        /\ refused' = [round |-> r,
                       as |-> IF Classify(r) = "candidate" THEN "not_a_member" ELSE Classify(r)]
    /\ UNCHANGED <<files, memory, phase, pending, established, accepted, windows>>

\* A candidate that names this node: commit starts to append its record.
Candidate ==
    /\ phase = "ready"
    /\ \E r \in Round :
        /\ Classify(r) = "candidate" /\ r.body \in Named
        /\ pending' = r
    /\ phase' = "appending"
    /\ refused' = None
    /\ UNCHANGED <<files, memory, established, accepted, windows>>

\* What a record being appended has left in the file.
InFlight ==
    IF phase = "appending" /\ handle = "rounds.log" THEN AppendedInPart(log) ELSE {}

AppendWritten ==
    /\ phase = "appending"
    /\ phase' = "syncing"
    /\ IF handle = "rounds.log"
       THEN log' = Appended(log, pending) /\ disk' = disk \cup InFlight \cup {log'}
       ELSE UNCHANGED <<log, disk>>
    /\ UNCHANGED <<marker, memory, pending, established, refused, accepted, windows>>

\* The append fails with part of the record written, and is not undone.
ShortWrite ==
    /\ "short_write" \in Faults
    /\ phase = "appending"
    /\ phase' = "ready" /\ pending' = None
    /\ IF handle = "rounds.log"
       THEN log' \in AppendedInPart(log) /\ disk' = disk \cup {log'}
       ELSE UNCHANGED <<log, disk>>
    /\ UNCHANGED <<marker, memory, established, refused, accepted, windows>>

\* The record is in the file, its fsync fails: StoreFailed.
SyncFails ==
    /\ "fsync" \in Faults
    /\ phase = "syncing" /\ Len(log.records) <= MaxLog
    /\ phase' = "ready" /\ pending' = None
    /\ UNCHANGED <<files, memory, established, refused, accepted, windows>>

\* commit has returned: the round is accepted.
Publish ==
    /\ phase' = "ready"
    /\ accepted' = accepted \cup {pending}
    /\ pending' = None

\* Mutant: the append is not synced.
SyncSkipped ==
    /\ phase = "syncing"
    /\ namespaces' = [namespaces EXCEPT ![pending.initiator] = pending]
    /\ records' = records + 1
    /\ since' = IF since < CompactAfter THEN since + 1 ELSE since
    /\ IF since' >= CompactAfter /\ records' > 2 * Cardinality(Known')
       THEN phase' = "compacting" /\ UNCHANGED <<pending, accepted>>
       ELSE Publish
    /\ UNCHANGED <<files, handle, established, refused, windows>>

\* The record is durable and the store's own copy of the state is updated.
SyncDone ==
    /\ phase = "syncing"
    /\ disk' = IF handle = "rounds.log" THEN {log} ELSE disk
    /\ namespaces' = [namespaces EXCEPT ![pending.initiator] = pending]
    /\ records' = records + 1
    /\ since' = IF since < CompactAfter THEN since + 1 ELSE since
    /\ IF since' >= CompactAfter /\ records' > 2 * Cardinality(Known')
       THEN phase' = "compacting" /\ UNCHANGED <<pending, accepted>>
       ELSE Publish
    /\ UNCHANGED <<marker, log, handle, established, refused, windows>>

\* compact fails before the rename.
CompactFails ==
    /\ "compact" \in Faults
    /\ phase = "compacting"
    /\ Publish
    /\ UNCHANGED <<files, memory, established, refused, windows>>

\* Mutant: the log is truncated and rewritten in place.
CompactInPlace ==
    /\ phase = "compacting"
    /\ phase' = "renamed"
    /\ log' \in Compacted /\ disk' = disk \cup {log', Empty}
    /\ handle' = "unlinked"
    /\ UNCHANGED <<marker, pending, namespaces, records, since, established, refused, accepted, windows>>

\* The temporary file is written, synced and renamed over the log.
CompactRenames ==
    /\ phase = "compacting"
    /\ phase' = "renamed"
    /\ log' \in Compacted /\ disk' = disk \cup {log'}
    /\ handle' = "unlinked"
    /\ UNCHANGED <<marker, pending, namespaces, records, since, established, refused, accepted, windows>>

CompactDone ==
    /\ phase = "renamed"
    /\ handle' = "rounds.log"
    /\ records' = Cardinality(Known) /\ since' = 0
    /\ Publish
    /\ UNCHANGED <<files, namespaces, established, refused, windows>>

\* The renamed log cannot be opened: the store keeps the old, unlinked file.
ReopenFails ==
    /\ "reopen" \in Faults
    /\ phase = "renamed"
    /\ Publish
    /\ UNCHANGED <<files, memory, established, refused, windows>>

----------------------------------------------------------------------------
(* The process is killed, the machine stops *)

Stop ==
    /\ phase' = "down"
    /\ pending' = None /\ refused' = None
    /\ handle' = "rounds.log"
    /\ namespaces' = [i \in Initiators |-> None]
    /\ records' = 0 /\ since' = 0

Crash ==
    /\ phase # "down"
    /\ Stop
    /\ log' \in {log} \cup InFlight /\ disk' = disk \cup {log'}
    /\ UNCHANGED <<marker, established, accepted, windows>>

PowerLoss ==
    /\ Stop
    /\ marker' \in IF phase = "marking" THEN {"torn", "written"} ELSE {marker}
    /\ log' \in disk \cup InFlight /\ disk' = {log'}
    /\ UNCHANGED <<established, accepted, windows>>

Next ==
    \/ OpenFresh \/ OperatorInitialize \/ MarkerWritten \/ LogEmptied \/ LogSynced
    \/ OpenExisting \/ RefuseToOpen
    \/ Refuse \/ Candidate \/ AppendWritten \/ ShortWrite \/ SyncFails \/ SyncDone
    \/ CompactFails \/ CompactRenames \/ CompactDone \/ ReopenFails
    \/ Crash \/ PowerLoss

Spec == Init /\ [][Next]_vars

----------------------------------------------------------------------------
(* Properties *)

Committing == {"appending", "syncing", "compacting", "renamed"}
Running == Committing \cup {"ready"}
Admissible == {r \in Round : r.epoch <= MaxUsable /\ r.body \in Named}

FileTypes ==
    /\ marker \in {"absent", "torn", "written"}
    /\ log \in disk /\ \A image \in disk : image = Absent \/ image \in Image

MemoryTypes ==
    /\ handle \in {"rounds.log", "unlinked"}
    /\ DOMAIN namespaces = Initiators
    /\ \A i \in Initiators :
        namespaces[i] = None \/ (namespaces[i] \in Round /\ namespaces[i].initiator = i)
    /\ records \in Nat /\ since \in 0..CompactAfter

PhaseTypes ==
    /\ phase \in Running \cup {"down", "halted", "marking", "emptying", "emptied"}
    /\ pending \in Admissible \cup {None}
    /\ pending # None <=> phase \in Committing
    /\ phase \in Running \cup {"emptied"} => log # Absent

TypeOK ==
    /\ FileTypes /\ MemoryTypes /\ PhaseTypes
    /\ established \in BOOLEAN
    /\ refused # None => refused.round \in Round
    /\ accepted \subseteq Admissible
    /\ windows \in 0..MaxWindows

\* q is r, or a later round of its initiator.
Reached(q, r) == q = r \/ (q.initiator = r.initiator /\ q.epoch > r.epoch)

\* The log holds a round, or a later one of its initiator.
Covers(image, r) == \E k \in DOMAIN image.records : Reached(image.records[k], r)

\* "Each record is fsynced before the accept it describes becomes visible": what
\* any crash leaves of the log reaches every accepted round, or, after a failed
\* append, halts the next start.
FailsClosed ==
    \A r \in accepted : \A image \in disk :
        image # Absent /\ (Readable(image) => Covers(image, r))

\* No round of an initiator is accepted at or below an epoch already accepted,
\* across crashes, restarts and compactions: the window is implemented.
Window == INSTANCE RoundWindow WITH Initiators <- Initiators, Bodies <- Bodies, MaxUsable <- MaxUsable, accepted <- accepted
ImplementsWindow == Window!Spec

\* Why it does: the memory of the running node is ahead of every accepted round ...
MemoryReaches ==
    phase \in Running => \A r \in accepted :
        namespaces[r.initiator] # None /\ Reached(namespaces[r.initiator], r)

\* ... the round being committed is beyond them ...
PendingAhead ==
    pending # None => \A r \in accepted :
        r.initiator = pending.initiator => r.epoch < pending.epoch

\* ... an image that does not halt the next start reaches them all ...
Reaches(image, r) == image # Absent /\ (image.tail = "corrupt" \/ Covers(image, r))
DiskReaches == \A r \in accepted : \A image \in disk : Reaches(image, r)

\* ... and the round being committed as well, once its fsync has returned.
CommitReaches ==
    /\ phase = "syncing" /\ handle = "rounds.log" => Reaches(log, pending)
    /\ phase \in {"compacting", "renamed"} =>
        /\ namespaces[pending.initiator] = pending
        /\ \A image \in disk : Reaches(image, pending)

\* Every initiator in a log has a last record there.
EachHasLast(image) ==
    \A i \in Initiators : Own(image, i) # {} =>
        \E k \in Own(image, i) : \A j \in Own(image, i) : j <= k
LastExists == \A image \in disk : image # Absent => EachHasLast(image)

\* The store writes to the file the next start will read.
HandleIsLog == phase \in Running /\ phase # "renamed" => handle = "rounds.log"

\* A window opens empty.
WindowOpens ==
    /\ phase \in {"marking", "emptying", "emptied"} => accepted = {}
    /\ phase = "emptied" => log = Empty

\* The inductive invariant, as long as a reopen does not fail.
Inv ==
    /\ TypeOK
    /\ MemoryReaches /\ PendingAhead /\ DiskReaches /\ CommitReaches
    /\ LastExists /\ HandleIsLog /\ WindowOpens

\* A torn tail is the only damage: the node never writes a log that halts its
\* own next start.
LogStaysReadable == log # Absent => Readable(log)

\* An accepted round that comes again is stale or a replay: its initiator is not
\* accused of equivocation for it.
NoFalseAccusation ==
    refused # None /\ refused.as = "equivocation" => refused.round \notin accepted
=============================================================================
