# Fantuan network: a verification project in TLA+

Fantuan is a Rust peer-to-peer node: authenticated sessions over I2P, gossip of
descriptors and trust, end-to-end encrypted relaying, flooded channels and
boards with history, content-addressed files, and anonymous channel messages
through DC-Net rounds. This directory models its logic in TLA+, checks the
models with TLC and proves theorems about them with TLAPS. `PROJECT.json` maps
every definition to the lines it translates and lists runs, mutants, hazards and
theorems.

## The system

One process per node. `NodeState` (`fantuan-node/state.rs`) is shared by every
task: one connection task per session, an accept loop, one dial loop per
configured or known peer, the DC-Net scheduler, the cover traffic generator, the
control socket and the IRC bridge. Tasks share state through mutexes held for
one call at a time, and send to a peer by putting bytes in that peer's bounded
writer queue; a full or closed queue drops them.

| Component | State | Operations | What is hard | What makes it correct |
|---|---|---|---|---|
| DC-Net rounds (`fantuan-anon` driver, round, share, reputation; `fantuan-node` anon) | round tracker, collectors, one pending message, retry state, queue; strikes and evictions | queue, tick, on start, on share, reinstate | nodes start rounds in the same clock window; deadlines against late shares; clock skew; restarts; reordering and loss | one share per node and round, the message share last, no message lost, stuck or delivered twice, strikes only for dropouts |
| Epoch reservation (`reservation.rs`) | `rounds.epoch`, cursor, reserved bound; consecutive rejections | open, initialize, take; observe, reset | crash or failure inside an in-place write; end of the range | an epoch is never handed out twice |
| Round admission and store (`admission.rs`, `durable.rs`) | watermark per initiator, append-only log, marker | admit, commit, append, compact, open, initialize | crash, torn write, failed fsync or failed rename between two steps | no round accepted twice; the log stays readable; no false accusation |
| Relay nonces (`nonce.rs`) | counter, reservation, file | load, next, reserve | lock-free counter against a locked file write; failed writes; clock set back | nonces strictly increase, across restarts |
| Relaying (`relay.rs`, `admission.rs`, `send.rs`) | nonces, rates and pins per origin; routes | send, handle, forward | reordering between hops; table overflow; stale routes | delivered once, to the addressee; no endless forwarding |
| Sessions (`pool.rs`, `connection.rs`, `run.rs`, `noise.rs`) | registry, writer queues, live count; Noise state | register, remove, close, send, dial, accept | duplicate sessions; errors before the loop; drain at shutdown | the registry names live sessions; counts return to zero |
| Gossip and trust (`gossip.rs`, `trust.rs`, `trust_graph.rs`) | descriptors, vouches, routes | build, broadcast, handle, score | concurrent propagation, epochs of descriptors | knowledge reaches everyone and the exchange stops |
| Channels, boards, history (`social.rs`, `store.rs`) | SQLite tables, subscriptions | publish, handle, history, delete | duplicates, gaps after a disconnect, deletes that race history | every subscriber stores each message once, and what it missed later |
| Files (`files.rs`, `cache.rs`, `dht.rs`, chunk routes in `state.rs`) | manifests, chunks, reverse paths, seen requests, Kademlia table | publish, fetch, request, chunk, manifest | racing requests, expiring paths, a full cache | a fetch ends with the file or an error; the answer follows the request back |
| Traffic shaping (`fantuan-traffic`) | a token bucket per session | check, pad, parse | the bucket drops frames of any handler, unseen, and the session goes on | nothing within the rate is dropped; padded frames parse back |
| Control socket, IRC, client, command line | none of their own | dispatch | none | - |
| Simulator, analysis scripts | a virtual clock around the driver | - | - | - |

The version-2 stack (admission, durable store, reservation) is complete code with
tests but not called from the node yet; it is modelled through its own
interface, as its tests and documentation compose it.

## Modules

| Module | Models | Kind |
|---|---|---|
| `AnonymousBroadcast` | the promise of the anonymous layer: a message is carried by one round of its own, comes out at its author as it goes in, elsewhere at most once or not at all | abstract |
| `RoundDriver` | the driver of every node, the scheduler, the strikes, an unordered and lossy network; implements `AnonymousBroadcast` where no node restarts and participants agree | one action per handler |
| `EpochSource` | the promise of the initiator side: strictly increasing epochs | abstract |
| `EpochReservation` | `reservation.rs` over one file with a crash at every step; implements `EpochSource` | detailed |
| `RoundWindow` | the promise of the receiver side: accepts with strictly increasing epochs | abstract |
| `RoundAdmission` | `admission.rs` over `durable.rs` with crashes, power losses and I/O errors; implements `RoundWindow` | detailed |
| `RelayNonce` | `nonce.rs`: racing tasks, the reservation file, kills and failing writes | detailed |
| `Social` | `social.rs`, `store.rs` and the opening of a session: flood, history, deletes | one action per handler |
| `Files` | `files.rs`, the chunk cache, reverse paths: publish, flood, fetch | one action per handler |
| `TrustGraph` | `trust_graph.rs`: the trust levels as operators, and their definition as a least fixpoint | pure |
| `Overlay` | `gossip.rs` and `relay.rs` over the trust store and `TrustGraph`; composes gossip, scores, routes, nonce admission and forwarding | one action per handler |
| `Sessions` | `pool.rs`, `connection.rs`, the dialling and stopping of `run.rs`, the handshake and frames of `noise.rs` | one action per step of a task |
| `MCRoundDriver`, `MCSocial`, `MCFiles`, `MCOverlay`, `MCSessions` | small deployments of the module they are named after | TLC instances |
| `RoundDriverProofs`, `EpochReservationProofs`, `RoundAdmissionProofs`, `RelayNonceProofs`, `SocialProofs`, `OverlayProofs`, `SessionsProofs`, `FilesProofs` | theorems about the module they are named after | TLAPS |

The modules meet at their interfaces. `Sessions` is what the others mean by a
session: a pair in `pool`, a bounded queue that drops what it has no room for, an end
that loses what is under way, and a token bucket that drops what comes too fast.
`Social`, `Files` and `Overlay` are the payloads a session hands to its handlers. The
bucket counts the frames of all of them, so in each, where a deployment is limited
(`limited`, `maxShed`), any frame may be dropped unhandled (`OverLimit`). `Overlay`
uses from `RelayNonce` that nonces increase over a node's lives, and `Files` takes the
path of a relay envelope as given.
A deployment (`Network`, a set of records) fixes who connects to whom, what is
published, and the faults: one run explores several, and `net` never changes.

### RoundDriver

`driver[n]` is the `RoundDriver` struct: `current` is the tracker, `pending`,
`pendingRound`, `retryAfter`, `myShare`, `shareOut`, `outbox` are the fields
`pending_message`, `pending_round_id`, `retry_after_peer`, `my_share`,
`my_share_broadcast`, `pending_outgoing`. Methods are operators from driver to
driver (`Initiate`, `OnStart`, `OnShare`, `ExpireRound`, ...), so that an action is one
whole call under the driver's mutex: `Tick` is `anon::tick` (expire, penalize,
start the next message), `HandleStart` and `HandleShare` are `anon::handle_round`.
`Sendable` drops what is addressed to a peer without a session.

Data is abstracted to what the properties tell apart. A share is the participant
set its pads were derived for and the message it carries; `PadsCancel` says when
the XOR of shares strips all pads, `Extract` when a message comes out. A
signature is the channel it was made for. A collector's deadline is the choice
of the tick that finds it expired; `Synchronous` forbids that while an object of
the round is in flight.

A tick expires several rounds in the order of a hash map. `ExpireRounds` gives the
outcome as a set and without a loop, so that it can be reasoned about: a round that
is neither the pending one nor the one waited for is only dropped, so the drivers
that can result are those of the two orders of these two.

`NoDuplicateDelivery` holds for the three nodes of `rounds_late` and fails for four,
without loss or restart, when participants differ: let 1, 2 and 3 start round 1
for {1, 2, 3}, {1, 2, 3, 4} and {3, 4}, let 4 join 3, then 3 join 2, then 2 join 1. At 1
the pads do not cancel (3 answered for 4 too), so 1 retries; at 3, which collects for
2, they do, and the message comes out there a first time. The instance is too large
to be searched; the schedule was replayed step by step.

`ImplementsBroadcast` reads a round as carrying a message when a share with that
message is broadcast (`sent`), and as shown at a node when that node extracts it
(`delivered`). A retry is invisible there: a round that collided or expired never
carried its message. The schedule above and the restart of `MCRoundDriver_repeat`
break it.

### EpochReservation

`file` is what a reader of `rounds.epoch` sees, `disk` what the last fsync made
durable. A write is three steps, truncation (`BeginWrite`), write (`WriteDone`) and
fsync (`SyncDone`), each of which may fail, with a `Crash` or a `PowerLoss` between any
two. A crash keeps what was written, a power loss may keep the old content, the
new one or a short file.

### RoundAdmission

`log` is what a reader of `rounds.log` sees, `disk` the set of images a power loss
may leave. `Refuse` and `Candidate` are the two outcomes of `admit` before the
commit; `AppendWritten`, `SyncDone`, `CompactRenames` and `CompactDone` are the commit's
steps. `Faults` names the calls that may fail in a run. Two assumptions about the
file system: a rename is durable no later than the next fsync of the renamed
file (an ordered journal), and an fsync that succeeds after one that failed has
written everything.

### RelayNonce

`value` and `reservation` are the two atomics, `task[t]` is where a task is inside
`next` and `reserve`: it takes a value (`Take`), finds it reserved or not
(`Reserved`, `NotReserved`), raises the reservation under the lock (`Raise`) and
writes the file in place (`Truncate`, `Write`, `Synced`, `WriteFails`). `Start` is
`load` in a new process; when `"kill"` is among the faults the old one may have
ended inside any call. `gap` is a history variable: a write failed, the process
ended before it was written, or it put a lower block over a higher one. Those three
are the ways in which a nonce can repeat, and `UniqueNonces` says there is no
fourth. `FileCovers` speaks of the times between two writes: while one task writes a
block it has raised, another may return a nonce of it (`PersistedFirst`, below). The
atomics are sequentially consistent in the model, the code uses relaxed accesses.

### Social

`store[n]` is the union of the two SQLite tables, `subscribed[n]` and `known[n]` are
the subscriptions and the certificates of the trust store. `queue[<<a, b>>]` is a's
writer queue with the stream behind it: what a session writes itself (`Enter`'s
requests, answers) overtakes what is only queued (`Overtaking`), and only the latter
counts against `QueueCap`. Every handler is an action of its receiver:
`HandleChannel`, `HandleForum`, `HandleHistoryRequest`, `HandleHistoryResponse`,
`HandleDelete`. A session ends at both ends at once and opens at each on its own, so
one end may be flooding to a peer that has not asked for its history yet.

`HandoverGapFree` is the property of the module. It says of each session and of
every object the peer stores that the node has it, has it on the way, or it is one
of the few it could not get, which are in `missed` (refused, deleted, lost to a full
queue, to the rate limit or with a session) and `silent` (objects of topics the peer
does not serve, what the history limit cut off its answer, what was requested in a
frame over the rate limit, and objects the peer itself learned from an answer, which
it does not pass on). The model made those exceptions visible; they are the code's
behaviour, and most are documented nowhere: history answers are not flooded on, a topic joined in mid-session gets no
history before the next session, a peer answers only for topics it is subscribed to
itself, an answer cut at 200 messages or 100 posts keeps the oldest, and any signer
may delete any object (PROTOCOL.md:221 wants the author's key). `Newer` is a set of
answers: of objects with one timestamp, SQLite may return any within the limit.

### Files

`cache[n]` and `used[n]` are the chunk cache and its accounting, `routes[n]` and
`seen[n]` the reverse paths and remembered requests of `state.rs`, `fetch[n]` the
task of `fetch_file`. `PublishFile` is the whole call: it stores what fits, floods
all chunks and sends the manifest into the same bounded queues. `Retry` is a wake-up
of the fetch, `TimeOut` its deadline, `Expire` the end of a remembered request,
which may come at any time unless a deployment is `prompt`. A chunk is its hash;
sizes matter only for the budget. `lost` has the chunks that no handler of their
receiver saw, whether a queue was full, a session gone or a rate limit exceeded. The
routing table is a constant, because no code path records a contact in it (`observe_peer`, state.rs:299, has no caller): a fetch
asks its neighbours, and they do not forward. `MCFiles_forwarding` shows that with
contacts a fetch over two hops does complete and that reverse paths then never form
a circle. The model also shows two limits without a property: a full cache at the
recipient makes every fetch end in its timeout, and a lost chunk is fetched again
only by someone who has the manifest.

### TrustGraph and Overlay

`TrustGraph` has the levels (`NewLevel`) as pure operators and what they should come
to (`IsLeastFixpoint`) as a definition that no loop is in. `Overlay` runs the loop
one subject at a time in any order (`RaiseScore`), because the code iterates a hash
set, while the node holds its trust store (`scoring`). `SetTrust` is a command line
process on the same database and does not wait for that: it may store a vouch and
its scores between the node's reading of the vouches (`basis`) and its writing of the
levels. What the node writes are the levels of what it read (`ScoresLeast`), and it may
so put older scores over those of the command (`ScoresCurrent`, below). The command
itself is one step of the model. `HandleGossip` is the handler up to the scores, `RefreshScores` writes them, `RecordRoutes` is what the session
does after the store is released: routes and the answer. The gap between them is
where other sessions' handlers interleave. `learned` carries what is new over it.

Envelopes are the second half: `TakeNonce` and `SendObject` are the two sides of the
signing in `send_object`, `HandleRelay` is the handler with its admission (`Check`),
delivery, forwarding and the session it ends when the hops are spent. `After`
follows routes as they are, so `NoRoutingLoop` speaks of all nodes' tables at once.
`QuietEnvelopesArrive` is about `Undisturbed` deployments: no node has restarted, no
queue was full, no frame was over its session's limit, announcements need no vouch, and
there are at most `MaxHops + 1` nodes. Each is needed. A restarted node has no routes
and an empty admission table, and with fewer hops than nodes an envelope can run out of them. Where announcements
need a vouch and vouches go one way, the list that taught the sender of its recipient
does not teach the recipient of the sender: on a line whose middle node vouches for
one end only, the other end's envelope is forwarded to that end and dropped there,
because its origin is unknown (relay.rs:31).

The model shows further behaviour that no property is about: gossip lost to a full
queue is not repeated before a reconnect, a vouch made in mid-session is not
broadcast, vouches overwrite each other by arrival.

### Sessions

`at[<<c, n>>]` is where n's task for stream c is: `e`, `ee`, `s` (the handshake
messages it waits for), `binding`, `enter` (registered, before its loop), `run`,
`done`. `wire[e]` holds the frames on their way to an end, `reading[e]` how far
`read_frame` is in one. A frame is read in two awaits, its length and its body, and
`select!` drops a read that is under way when there is something to write:
`WriteOut` then turns `header` into `lost`, and the next read takes a body for a
length (`ReadLost`). A body that is in (`ReadBody`) is decrypted and then takes a token
of the session's bucket: one task reads, so all that time adds is a refill of any size
up to `Burst` between two frames. Without a token it is dropped, and the session
goes on. `InOrderWithinLimit` says both halves: what is decrypted (`arrived`) is a
prefix of what the other end queued, and what of it no handler saw (`shed`) is no more
than the frames read beyond the first `Burst`. `registry` and `live` are the pool's map
and count, `newest` is a history variable. `Fail` ends a task before its loop, and leaves its entry in the
pool as the code does; `Finish` removes it.

The timeouts are where the code has them: on the handshake and on the loop's idle
time. `bind` has none, so a stream that stalls while a binding is awaited blocks the
outbound task for good (`MCSessions_bind`); `Reconnects` excludes that case, in
`Lose`'s guard. Rekeying ends the session and the outbound loop opens another. Other
behaviour the model showed: simultaneous dials leave two sessions of one pair, and
after the newer has ended the older one runs on with no entry; an entry leaked by a
failed first write counts against the limit until the next session of the peer
replaces it. A handler is not told what was dropped: a list over the limit is not
sent again before the next session.

## Runs

TLC explores every interleaving of an instance; each property of a passing run
has a mutant (a plausible bug in a mapped definition) that TLC finds violated.

| Run | Instance | Shows |
|---|---|---|
| `rounds_collision` | 3 meshed nodes, 2 authors, 2 rounds each | the tie-break is safe in any delivery order |
| `rounds_liveness` | 2 nodes, 3 messages, fair | every message is extracted |
| `rounds_late` | 3 nodes, early deadlines | no message is extracted twice; refines `AnonymousBroadcast` |
| `rounds_lossy` | 2 nodes, 1 loss, 1 restart, early deadlines, eviction at 1 strike, operators that wait for one message before they queue the next (`Patient`) | no message is lost silently, one share per round over a restart, an unanswered round costs no strike |
| `epochs` | blocks of 2, range 5, 2 initializations | durable before use; refines `EpochSource` |
| `admission_crashes` | 2 initiators, compaction and reopen failures | the node never corrupts its own log |
| `admission_failures` | 1 initiator, 2 bodies, short writes, failed fsyncs, 1 initialization | what can be opened is complete; no false accusation; refines `RoundWindow` |
| `nonces` | 2 tasks, blocks of 3, 2 starts, kills, failing writes, 3 clocks | nonces repeat only after a gap in the file |
| `social` | a ring of 3; 2 nodes with 1 cut and 1 delete; 2 nodes with a board and 2 cuts, or 1 cut and a rate limit; queues of 1, histories of 1 | shown once, no gap between history and flood, floods end |
| `files` | a ring whose relay has no room and whose recipient restarts; a line with a small cache and timeouts; a ring with room; a node that does not know the owner; a ring that drops 1 frame over the limit; queues of 3 | neighbours replicate, a fetch that may be served ends with the file, traffic ends |
| `overlay` | lines of 3 with vouches in a circle, required vouches, a restart, two envelopes of one origin; 2 nodes with vouches in mid-session; 2 nodes with a rate limit | no routing loop, scores are the least fixpoint, envelopes arrive unless overtaken, gossip ends and reaches everyone |
| `sessions` | crossing dials; 2 faults (closed streams, idle timeouts, crashes); a stalled stream; payloads both ways and a rekey; a rejected payload; a stop; a full pool; 4 streams, 4 frames, queues of 1, buckets of 2 | the registry names the newest session, payloads keep their order and are dropped only over the limit, a drained stop leaves nothing, pairs reconnect |

The bounds are small because the hazards need few actors: a collision needs two
initiators, a share split a third node that heard the loser first, a repeated epoch
one crash, a lost record one compaction. Two blocks and a clamped third exercise
every boundary of the reservation; `MaxUsable + 1` is in the inputs of the
admission, and three epochs are what a log needs to be compacted. Two tasks race for
a nonce block; the theorems cover any number. An object circulates in a ring of
three or not at all, and a truncated history needs two objects with a limit of one.
A session replaces another with two streams; four leave room for two faults and the
sessions after them. `MaxFrames` is 4 instead of `1 << 20`: handshake, gossip and one
payload fit, the next must rekey. `Burst` is 2 instead of `max_frames_per_sec`: the
third frame in a row may find the bucket empty or refilled. `QueueCap` is 1, 3 or 4 so that queues do fill.

Counters that code leaves unbounded (`MaxRounds`, `MaxLoss`, `MaxRestarts`,
`MaxNow`, `MaxNamespaces`, `MaxWindows`, `MaxLog`, `MaxValue`, `MaxStarts`,
`MaxNonce`, `MaxDials`, and in deployments `maxCuts`, `maxDeletes`, `maxShed`,
`faults`, `restarting`) are named bounds in guards. `CHECK_DEADLOCK FALSE` is set where a
system may rightly fall silent: for the rounds, where operators may stop queueing,
for the nonces, where nobody needs one after the last, and for `Social`, `Files`,
`Overlay` and `Sessions`, where all that was published has arrived or, in the last,
every node has stopped or every session is up. The other models never stop, because
a crash is always possible.

Fairness is asked for only what a task does by itself:

- `rounds_liveness`: the scheduler keeps ticking (`run.rs` starts an interval that
  ends at shutdown) and a session delivers what it carries; losses are excluded
  there, because `try_send` drops without a retry.
- `Social`: `WF` for the opening of each end of a session (the outbound loop reconnects
  for ever) and for reading it.
- `Files`: `WF` for reading, for the wake-up that assembles the file, for the
  timeout and for the expiry of remembered requests; `SF` for the wake-up that asks
  again, since arriving chunks and restarts disable and enable it while the task's
  timer runs on.
- `Overlay`: `WF` for connecting, reading, recording routes, and for the score loop.
- `Sessions`: `WF` for dialling, for a task that has something to read or to write,
  for the idle timeout of a stalled stream, and for the drained stop. Nothing is
  fair about faults.

No fairness is asked for users, faults or expiries of a grace period.

### Where code and documentation differ

Each of these configurations ends in a counterexample: the property says what the
quoted document, comment or name says, and the code does not. They are run by hand
(`tlc -config <configuration> <module>`); one with several rows lists at its head what to
change for each.

| Configuration | Property | Disagreement |
|---|---|---|
| `MCRoundDriver_channel` | `ChannelFaithful` | a loser retries on the winner's channel |
| `MCRoundDriver_channel` | `SharesVerify` | the initiator's share goes out on the channel of the last share with the signature of its own (driver.rs:440), so PROTOCOL.md:429 does not hold for it |
| `MCRoundDriver_overwrite` | `NoSilentLoss` | a second queued message overwrites the pending one |
| `MCRoundDriver_retries` | `RetriesBounded` | `initiate` resets the counter that its retry has just raised, so `MAX_CONFLICT_RETRIES` (driver.rs:25) never ends them |
| `MCRoundDriver_stranded` | `NeverStranded` | a loser that cannot join the winner's round waits for a collector it never made (driver.rs:346-367) and does not retry, as PROTOCOL.md:427 says it does |
| `MCRoundDriver_blame` | `OwnRoundsBlameless` | starts that reach a third node in different orders cost it a strike; driver.rs:295 takes partial participation for a dropout |
| `MCRoundDriver_repeat` | `NoSplitShare` | a node restarted next to a faster clock answers an id twice; PROTOCOL.md:422 says ids never repeat |
| `EpochReservation_failure` | `OldStateStays` | a failed write has destroyed the old reservation (reservation.rs:188); PROTOCOL.md:396 says the old state stays |
| `RoundAdmission_sync_error` | `LogStaysReadable` | a failed fsync leaves its record, and the log later halts the node |
| `RoundAdmission_short_write` | `LogStaysReadable` | a short write is not undone (durable.rs:243), and the next append corrupts the log |
| `RoundAdmission_reopen` | `FailsClosed` | after a failed reopen the store appends to an unlinked file (durable.rs:232) |
| `RelayNonce_forward` | `FileForward` | a slower task writes a lower block over a higher one |
| `RelayNonce_forward` | `PersistedFirst` | the reservation is raised before the file is written (nonce.rs:77-96), and in between another task returns a nonce inside it; nonce.rs:11 and PROTOCOL.md:510-512 say the block is persisted first |
| `MCSocial_disagreements` | `CaughtUp` | history asks for what is newer than the newest stored object, so what a node missed before that never comes (ROADMAP.md:88) |
| `MCSocial_disagreements` | `NoResurrection` | a deleted object comes back from the history of a peer that kept it |
| `MCSocial_disagreements` | `DeletesEnd` | in a ring a delete and the object it deletes may follow each other for ever |
| `MCSocial_disagreements` | `SessionsHold` | a name that is refused stays subscribed, and its history request ends every session |
| `MCFiles_no_forwarding` | `FetchForwards` | requests are not forwarded to the closest contacts (PROTOCOL.md:259-262, ARCHITECTURE.md:75), since nothing fills the routing table |
| `MCOverlay_restart` | `RoutesRebuilt` | a restarted node has its descriptors, finds nothing new in any list, and learns no route (ARCHITECTURE.md:118) |
| `MCOverlay_order` | `ReplaysOnly` | an envelope overtaken by a later one of its origin is refused as a replay: the nonce is taken before the signing (relay.rs:114) |
| `MCOverlay_order` | `ScoresCurrent` | scores of vouches read before an owner's command are written over the command's (trust_graph.rs:108-125), and stay until the next list; `set_trust` refreshes them at once |
| `MCSessions_leak` | `SendsReach` | an error before the loop leaves a dead entry in the registry (connection.rs:34), and sends go to it |
| `MCSessions_cancel` | `ReadsSurviveWrites` | a write that is ready cancels a half-read frame, and the session then loses its place in the stream |
| `MCSessions_drain` | `StopsUnaided` | `close_all` empties the registry, but the tasks keep a handle of their own, so their queues stay open and only the grace period ends them (pool.rs:105-109, ARCHITECTURE.md:112-116) |
| `MCSessions_bind` | `Reconnects` | `bind` has no timeout, unlike the handshake before it (PROTOCOL.md:471), so a stalled stream blocks the outbound task for good |

Two more configurations pass and are run by hand, because they are larger or about
code that is not wired up: `MCOverlay_ring` (the safety properties, and that every
route leads to its end, on a ring of three; a million states) and
`MCFiles_forwarding` (above).

## Proofs

TLAPS proves the following for every value of the constants that satisfies the
modules' named ASSUMEs, which TLC evaluates in the runs. Where a theorem has a
further hypothesis, it is stated here, and why it is needed.

- `RoundDriver`: `RoundInv` has five parts. `Shape` types the state and says of
  every driver (`Fit`) that no round is ahead of the highest id, that its own round
  has no share of its own yet (`Proper`), and that the share it keeps is for the
  participants of the pending round (`Ready`). `Holds` says that a share collected
  from another node was broadcast and is meant for the collecting node. `Unspent`
  says that a node has sent no share in the round it has pending, nor beyond its
  highest id. `Waking` is `NeverStranded` of nodes that have every key. The last
  part is `NoSplitShare` and `CarrierLast` themselves. Neither of these is
  inductive: that a node's share is its first under an id needs `Unspent`, and that
  a share which completes a round is neutral needs `Holds` and both of them (a
  carrier among the others would have waited for our share, which `Unspent`
  excludes). Every method of the driver is a lemma about what it may change
  (`Moves`): rounds are dropped, and begun under ids above the highest. From it
  follow `RoundTypes`, `OneShareARound` and `CarriersGoLast` while no node has
  restarted (after a restart they are false, as `MCRoundDriver_repeat` shows),
  `HeldMessagesWake` where every node has every key (false otherwise, as
  `MCRoundDriver_stranded` shows), and `OwnRoundsCostNothing` for two nodes (false
  for three, as `MCRoundDriver_blame` shows).
  `DeliveredOnce` rests on a second invariant, `Once`, preserved next to the first. It
  follows a message: what a driver holds (`Held`) and has queued (`Queued`) are
  different messages of its own (`Keeper`), none of which it has sent (`Unsent`), and
  what was extracted was carried in a round that its node is done with (`Drawn`).
  `Keeps` says of every method of the driver that it takes up no message. The step that
  matters is the share that completes our own round: if the message did not come out
  here it would be retried, and come out twice elsewhere. It does come out: the other
  shares are neutral (`CarrierLast` and `NoSplitShare` of the step), and their pads
  cancel (`CarrierExtracted`) because nodes that share a round id chose the same
  participants (`Agreed`). Without that it is false (see `RoundDriver` above);
  `PairsDeliverOnce` shows that two nodes always agree. `NoDuplicateDelivery` alone is
  not inductive: it says nothing of what an author may still send.
  `NothingLostSilently` rests on a third invariant, `NothingLost`: `NoSilentLoss` and,
  of every driver, `Sole`. A queued message is the only one and finds nothing pending,
  a pending round waits to send the pending message, the message of a retry is the
  pending one, and while a round or a retry is awaited the counter of retries is 0,
  because `initiate` resets it. `NoSilentLoss` alone is not inductive: it does not say
  that the share a round completes with carries the pending message, nor that a round
  given up still has a retry. `Retains` says of the driver's methods that they keep the
  queue and the pending message (which a collision drops only if there are no retries
  at all), and `SoleCompleted` that the share which completes a round settles the
  pending message only by extracting it: if our share was in it and something came
  out, it is ours (`OnlyCarrier`). Three hypotheses: operators wait for one message
  before they queue the next (`Patient`; `initiate_next` overwrites a pending message otherwise, see
  `MCRoundDriver_overwrite`), the key of every linked and trusted peer is stored
  (`KeysStored`; otherwise `initiate_next` takes the message off the queue and then
  finds no key for its pads), and a finite network (`SizeAssumption`), so that the
  participants the scheduler chooses are at most `DCNET_MAX_PARTICIPANTS` and include
  the node itself (`Chosen`).
  `RoundsBroadcast` is the refinement of `AnonymousBroadcast`, step by step from
  `RoundInv` and `Once`. `Effect` says what a handler does to driver, shares and
  extractions. If it broadcasts a carrier, that share is the first of its round and of
  its message to carry (`FirstCarrier`, which needs all of `Once`, `NoSplitShare` and
  `CarrierLast`) and the author extracts it at once; if not, what comes out was carried
  before (`IdealHandled`). Its hypotheses, that no node restarts and that participants
  agree, hold of the whole behaviour, because each excludes a step that the promise
  does not allow; for two nodes the second follows (`PairsAgree`, `PairsBroadcast`).
- `EpochReservation`: `Inv` is inductive. Its conjuncts say why the reservation
  works: the cursor is ahead of every epoch handed out (`CursorAhead`), inside a
  block the block is what file and disk hold (`BlockOnDisk`), a write under way
  covers the epoch it is for (`WriteCovers`), the file is as far as the write has
  come (`WriteContent`). From it follow `TypeCorrect`, `BlockDurableBeforeUse`, and,
  step by step, the refinement `EpochsNeverRepeat`. `DurableBeforeUse` alone is not
  inductive: it does not say that `next` stays inside a durable block.
- `RoundAdmission`: `Inv` says that memory (`MemoryReaches`), the pending round
  (`PendingAhead`) and every image on disk that does not halt the next start
  (`DiskReaches`, `CommitReaches`) are at or beyond every accepted round. `Reaches`
  allows a corrupt tail instead of a record, because a failed append may leave one:
  such a log halts the node, which is safe. Lemmas say what appending, replaying and
  compacting do to `Reaches`. From it follow `AcceptsFailClosed`, the refinement
  `NoRoundAcceptedTwice` and `HonestNotAccused`, which also needs that a refusal is
  forgotten before the next round is committed (`RefusalEnds`). They hold when
  reopening a renamed log does not fail; otherwise `FailsClosed` is false
  (`RoundAdmission_reopen`). `LogReopens` has an invariant of its own (`LogFollows`):
  every image on disk is readable, the log of a running node ends cleanly, and memory
  is ahead of its records, so that the next one it appends is later than all of its
  initiator. Its hypothesis, no short write and no failed fsync, is needed
  (`RoundAdmission_short_write`, `RoundAdmission_sync_error`). `AdmissionTypes` needs no
  hypothesis.
- `RelayNonce`: `Inv` says that a nonce in a task is new (`Fresh`), nothing used is
  above the counter or the reservation (`Below`), the file is as far as the
  reservation except before the first write of a start (`Covered`), and the task
  that holds the lock writes a block inside the reservation (`Holder`). From it
  follow `NoncesUnique` and `FileCoversUsed`. `UniqueNonces` alone is not inductive:
  it says nothing of the nonces still inside a call, nor of what the next start will
  read.
- `Social`: `HandoverInv` adds to `HandoverGapFree` that what an end has asked is not
  answered before the other end has opened (`Unread`), that only a registered session
  has a queue and requests (`Idle`), and that whoever sends an object holds it or has
  deleted it (`CarriedHeld`). `HandoverGapFree` alone is not inductive: when the second
  end opens, all it holds must still be requested. `HandoverKept` says when a step
  leaves the property alone; then there is one lemma per handler. From it follows
  `NoGapAtHandover`. `ShownOnceOnly` rests on a node not having shown what it does not
  hold (`ShownOnce`), and `SocialTypes` on the shape of queues. `CaughtUp` and
  `NoResurrection` are false (above).
- `Overlay`: `ScoreInv` says that while a node counts, its map of levels is below
  every fixpoint of the vouches it has read (`Scoring`; an owner's command leaves those
  alone); raising a subject keeps it there
  because levels are monotone in the trust of the signers (`NewLevelMonotone`,
  `RaiseBelow`). When nothing is left to raise, the map is a fixpoint, hence the
  least: `ScoresAreLeast`. The property alone is not inductive, since it says
  nothing of a count that is not finished. It follows that the hash order of the
  subjects and the order in which vouches arrived do not matter to the levels.
  `LoopInv` counts a route that is heard and not recorded yet as a route (`Through`): it
  joins two nodes that have the descriptor, and out of every set of nodes one has
  none into the set. A list teaches its receiver only what it did not have, so
  nothing led through the receiver before: `RoutesNeverLoop`, for any network and
  any order of restarts. `OverlayTypes` gives the types.
  `QuietDelivery` states `QuietEnvelopesArrive` for any finite set of nodes.
  `DeliveryInv` says what the property does not: once an envelope was sent while all
  was quiet, every pair talks and only envelopes are under way (`Still`), each is known
  with both its ends wherever it goes (`Near`), and of every node it has been at
  (`Behind`) the next hop has had it too or has it queued (`Trail`). Routes lead out of
  every set of nodes, so that set has an exit, and there the envelope is under way
  (`DeliveryArrives`). Four invariants stand under it. `EnvelopeInv`: an envelope is
  known by origin and nonce, and is new everywhere as long as it is a draft. `HopsInv`:
  every hop used up is a node passed, hence no session ends for want of hops
  (`NoSessionEnds`). `RouteInv`: who has a descriptor has a route, or will record it.
  `Spread`: what one end of a session has the other has, is offered, or will be.
- `Sessions`: `RegistryInv` says that a session that was ever registered is past its
  handshake (`NewestBound`), so neither a new stream nor a task still binding is
  one, and that the entry is the newest while its task runs. `FinishKeepsRegistry`
  is the heart of it: a task that ends removes an entry only if it names its own id.
  From it follows `RegistryNamesNewest`. `PayloadsInOrder` needs
  what is on the wire: the order of a session's frames (`WireAt`), and that what
  arrived, what is on its way and, as long as neither end nor the stream is gone, what
  is queued are together what was accepted (`FlowAt`). Its second half needs the bucket
  (`BucketInv`): a payload is dropped only when more frames were read than the bucket
  held, and refills only add tokens. `DrainedMeansDone` rests on
  `LiveInv`: a pool may count a session that is over, but never leaves out one that
  runs.

- `Files`: `TypeInv` says more than `TypeOK` what the lemmas need: caches, tables of
  routes and what a fetch misses are finite, queues hold messages. The byte counter is a
  sum over the cache, and what `PublishFile` stores is a recursive function of the
  manifest; what both are is shown by least counterexample (`LeastSet`, `LeastIndex`),
  first for an equation that the recursion satisfies (`Summing`, `Taking`), then for the
  operator (`BytesIs`, `StoredIs`). `BytesAdd` and `BytesUnion` do the accounting, and
  `StoredFacts` says that what a publisher does not store has no room. From it
  follows `FilesTypes`. `Replication` adds to `NeighboursReplicate` that the chunk is
  under way from the very neighbour that stores it (`Done`), and that whoever sent a
  chunk has it or has no room (`SendersHave`): a node does not send a chunk back to the
  one it came from, so that one must not need it. It holds because a publisher floods
  also what its own cache refuses, and caches only grow. `Moves` says when a
  step keeps all that; there is one lemma per handler, and `Kept` covers those that
  store nothing. `NeighboursGetChunks` needs no hypothesis on network or restarts.

Left to TLC:

- liveness and ENABLED, which the prover does not handle: `EventuallyDelivered`,
  `FloodsEnd`, `FetchCompletes`, `ChunksEnd`, `GossipQuiesces`, `EveryoneLearns`,
  `Reconnects`;
- what recursive definitions compute for every input, but for those of `Files`
  (above): the library's induction theorems take an operator, which the provers
  cannot instantiate;
- what is true of the instances of `RoundDriver`'s runs and not of every value of the
  constants: `NoDuplicateDelivery` and `ImplementsBroadcast` after a restart or among
  nodes that choose different participants, `NoSilentLoss` of impatient operators. The
  theorems have the hypotheses that exclude these.

## Not modelled

- Padding and cover frames: encodings undone before anything is decided on them, but
  that a cover frame costs its receiver a token too.
- `RollbackWatch` (reservation.rs): a counter of consecutive rejections that nothing
  calls.
- `replication.rs`, and `remove` and `clear` of the chunk cache: no caller.
- The control socket and the IRC bridge: dispatch to the operations above. Join,
  publish, queue, reinstate and stop are actions where they have an effect.
- Keys, certificates and cryptographic encodings: honest nodes' objects verify where the
  certificate is known. The SAM bridge and the database engines are taken as interfaces.
- Command line, configuration, terminal client, simulator and analysis scripts.

Inside modelled components, quotas, freshness windows and the sizes of the admission
tables (4096 origins) are left out of `Overlay`, several descriptors of one node and
the limit of 64 announcements too, and the one-shot send command, whose nonce is in
seconds where a node's own starts from milliseconds (send.rs:105), so that relays refuse
it as a replay where the origin has ever run as a node; relaxed memory order is left
out of `RelayNonce`.
The version-2 round stack and the driver are not composed, because the code does not
compose them.

## Plan

1. `RoundDriver`, `EpochReservation`, `RoundAdmission`, `RelayNonce`: done.
2. `Social`, `Files`, `TrustGraph`, `Overlay`, `Sessions`: done.
3. Proofs: the safety invariants of `RoundDriver`, `EpochReservation`,
   `RoundAdmission`, `RelayNonce`, `Social`, `Sessions`, `Overlay` and `Files`, and the
   refinements of `AnonymousBroadcast`, `EpochSource` and `RoundWindow`: done.
4. Larger instances of `Overlay`: descriptors with epochs, a table of origins at its
   limit.
