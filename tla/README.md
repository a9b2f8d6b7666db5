# A TLA+ verification of fell

fell is a message broker. Producers publish records to the partitions of
topics; each partition is an append-only log on disk; one broker leads a
partition and streams it to followers; consumers fetch. This directory holds
TLA+ models of the parts where threads, brokers, files and crashes meet, the TLC
configurations that check them, and TLAPS proofs of their main invariants.

`PROJECT.json` lists components, runs, mutants, the source lines behind every
definition, findings, hazards and theorems. To repeat the work:

    tlc -config MCPartitionStore_pipeline.cfg MCPartitionStore
    tlapm PartitionStoreProofs.tla

## 1. The system

| Part | State | Operations | Talks to |
|---|---|---|---|
| `PartitionStore` | bounded queue, `next_offset_`, `committed_offset_`, active writer, sealed list, index cache, callbacks | `append`, `fetch`, `set_once_commit_callback`, I/O thread, constructor (recovery), destructor | segment files; ReplicaManager through `on_commit_cb_` |
| Segment files | log and index file of each segment | write, flush, `lookup`, `read`, `scan_valid`, `recover_partition` | PartitionStore |
| `ReplicaManager` | `pending_`, `commit_queue_`, worker, follower descriptors | `register_pending`, `enqueue_committed`, `on_replica_ack`, worker loop, `stop` | store I/O thread, replication server, event loop |
| `PartitionMeta` | replicas, ISR, role, epoch | `on_replica_ack`, `isr_ids`, `tick_isr`, `assign_roles` | ReplicaManager, election |
| Broker event loop | connections, poll interest, `response_queue_`, notify pair | accept, read, write, hang-up, `drain_response_queue`, `post_response` | clients; every thread that posts a response |
| `FrameDecoder` | byte buffer and cursor | `push` | event loop |
| `RequestHandler` | none of its own; per-connection subscription | publish, fetch, subscribe, create topic, metadata | TopicRegistry, defer callback |
| `TopicRegistry` | topics, directories | `create_topic`, `recover_all` | PartitionStore |
| `ReplicationServer` / `ReplicationClient` | sockets, follower offsets, `out_acks_` | FETCH_LOG, REPLICA_SYNC, REPLICA_ACK, LEADER_ELECTION | ReplicaManager, PartitionStore, PartitionMeta |
| Command-line producer and consumer | position in a topic, retry counters | metadata, create topic, publish, subscribe, fetch | bootstrap broker, partition leaders |
| `ClusterConfig`, platform layer, `felld`, benchmarks | - | parsing, system calls, load generation | - |

A publish with `acks=-1` crosses most of them: the event loop reads the frame,
the handler appends to the store and registers a deferred ACK with the replica
manager; the store's I/O thread writes and commits the record and calls
`enqueue_committed`; the manager's worker notes the commit and streams the
record; followers append it and acknowledge; the server thread passes the
acknowledgement to the manager, which posts the ACK to the event loop, which
writes it to the producer's socket. Five threads take part, with four locks.

What makes this hard to test is listed under `hazards`: registration racing
with commit, lost wake-ups, a crash between log and index, unlocked reads while
the writer moves on, identifiers (offsets, descriptors) that are reused, poll
interest that is set in several places, two threads writing to one socket,
elections that race with start-up, and clients that retry what was already done.

## 2. Modules

| Module | Models |
|---|---|
| `SegmentLog` | record layout, index lookup, `scan_valid`, `read` as operators |
| `PartitionStore` | one partition store with its threads and files, and its refinement mapping |
| `CommitLog` | what a store promises (abstract specification) |
| `MCPartitionStore` | TLC instance, documented statements |
| `PartitionStoreSteps`, `PartitionStoreProofs`, `FetchProofs` | proofs: the store's invariant; its theorems and the refinement; the loops of a read and what a fetch returns |
| `ReplicaManager`, `MCReplicaManager`; `ReplicaManagerProofs` | deferred ACKs of one partition on its leader; proofs |
| `Reactor`, `MCReactor`; `ReactorProofs` | the event loop, its connections and the response queue; proofs |
| `Replication`, `MCReplication`; `ReplicationProofs` | the replication stream of one partition: server and worker thread of the leader, the followers' client threads; proofs |
| `ReplicaLog` | what replication promises (abstract specification) |
| `Election`, `MCElection`; `ProtocolProofs` | roles and elections of one partition over the brokers; proofs |
| `FrameDecoder`, `MCFrameDecoder`; `ProtocolProofs` | `FrameDecoder::push` over a byte stream; proofs |
| `TopicRegistry` | creation and recovery of a topic and its roles, on every broker |
| `Clients`, `MCClients`; `ClientsProofs` | request handlers, producer and consumer, over `TopicRegistry`; proofs |

`ReplicaManager` and `Replication` use of the store what `PartitionStore` shows:
consecutive offsets, the gapless commit callback, and that recovery keeps a
prefix. `Clients` composes the registries of all brokers with the handlers and
both clients.

An action is what one thread does in one critical section, or between two
points where another thread can see its effects. Definitions named in a
`Mutant:` comment are wrong on purpose: each replaces a definition in one run,
to show that the property it belongs to depends on that code.

### PartitionStore

`io` is the program counter of the I/O thread (see the module's header).
`AppendRecord` is `append` under `queue_mu_`; `PopRecord`, `GatherTimeout` and
`ExitLoop` are `take_batch`; `SerializeRecord`, `WriteLog`, `Commit` are
`write_batch`; `CollectCallbacks`, `RunCallbacks` are `fire_once_callbacks` and
the commit callback; `SealSegment`, `OpenSegment`, `FlushPolicy` are the end of
`io_loop`; `FetchLocate` is the part of `fetch` under `mu_`, `FetchRead` the
rest; `Open` and `Shutdown` are constructor and destructor.

The files of all segments are one sequence `log` cut at `segs[j].start`; a
record has its byte position within its file. `synced` is the flushed part.
`Crash` keeps what was flushed and any prefix of the rest, separately for log
and index, and may leave a partial record (`Torn`) or a zero-filled one.

Abstractions: payloads are values with a size; timestamps are left out; the
index file is a sequence of whole entries; the clock is replaced by
nondeterminism (`GatherTimeout`, the choice in `FlushPolicy`); a failed write
ends the process in the code and is a `Crash`.

### ReplicaManager

The store is reduced to three counters (accepted, written, handed over); that
it hands over consecutive offsets exactly once is proved in
`PartitionStoreProofs` (`CommitCallbackIsGapless`). `handler` is the event loop
between `append`, `get_or_create_replica_manager` and `register_pending`.
`worker` distinguishes the test of the wait predicate ("blocking", with
`queue_mu_` held) from being on the waiting list ("blocked"). `OnReplicaAck`
allows a follower to acknowledge any part of what is written, repeatedly.
`TickIsr` is included because it is public and tested; no code of the running
broker calls it. The bytes streamed to followers are in `Replication`.

### Reactor

A client stands for one TCP connection. A request is answered at once ("now"),
by another thread ("later") or is a frame the decoder refuses ("bad"); requests
and responses are whole. `loop` is the position of the event loop, `events`
what `wait` returned and is not handled. `PostPush` and `PostNotify` are the two
halves of `post_response`. `Wakes` says whether the notification can arrive: on
POSIX the pair is a pipe, on which `send` and `recv` fail, and the loop relies
on its 100 ms timeout. After a hang-up inside `on_readable` the loop may go on
to `on_writable` with the freed connection (`WriteStale`: no effect, or the end
of the process). A `send` to a closed connection closes it or, through SIGPIPE,
ends the process.

### Replication

A record is its offset, a connection its descriptor on the leader. On the
leader `server` is the replication server thread (`HandleFetchLog`, then the
catch-up loop `CatchUpRead`, `CatchUpSend`, `CatchUpEnd`) and `worker` the
streaming part of `worker_loop`, which holds `fds_mu_` throughout. Both write
frames with unchecked sends and no common lock: `Send` delivers the frame, or,
when the other thread is sending too or a send is short, a frame with a foreign
payload or none, after which the connection has no frame boundary
(`stream = "garbled"`). On a follower, `OnReplicaSync` and `CloseInHandler` are
`on_replica_sync`, `FollowerCommits` is the store's commit with the one-shot
callbacks, `SendAcks` the notify event. Of several queued acknowledgements the
model keeps the largest, the only one that matters to the leader.
`CloseInHandler` closes the connection and clears the buffer from which
`on_readable` then erases: the thread goes on or is lost (`EraseLeaves`).
`NotifyWorks` is FALSE for a pipe, on which the code's `send` fails, so that on
POSIX acknowledgements are queued and never sent. `Restart` keeps what was
written. The leader does not crash here; `Election` covers that.

### Election

A log is its committed offset. `AssignRoles` and `StartReplication` are the two
loops of `initialize_replication`, between which the replication server already
handles claims. `Stand`, `ReadClaim`, `Broadcast` are `maybe_elect_self`: the
part under the mutex, the unlocked read, one connection per peer. `Replicate`
lets a follower take any next record its peer has. `num_brokers` is one more
than there are brokers when `peers` lists this one too, as the default and
`cluster_config.hpp` have it; the extra id is `Phantom`.

### FrameDecoder

A frame is its length and a byte its position, so the buffer is three numbers.
`Send` is the client, which writes one more frame at any time; `start` is where
each frame begins. `Receive` chooses how `recv` cuts what was sent. Away from a frame boundary, which
only a zero-length frame leads to, the length field may say anything. The
sizes 4, 2^20, 4096 and 8192 of the code are `Prefix`, `MaxFrame`, `Slack` and
`Compact`.

### TopicRegistry and Clients

One topic. `CreateTopic`, `CreateDirectory`, `CreateEnd` are `create_topic`
within `handle_create_topic`, which blocks the event loop of its broker; a crash
in between leaves some directories, and `RecoverAll` takes what it finds. A
partition is its accepted messages and how many are written; the end of a
process keeps the written ones. `Refusal` is the sequence of checks the handlers
share. `PCreate` to `PLost` are the producer: `retries` is `md_retries`, `late`
holds publishes whose connection the producer gave up and which may still be
handled. `CResolve` to `CLost` are the consumer. `Adopt` is an election that
makes a broker name another leader. Requests are well formed, and `acks` is 1
(`acks=-1` is in `ReplicaManager`).

## 3. Runs

| Run | Checks | Bounds |
|---|---|---|
| `store_pipeline` | numbering, one-shot callbacks, commit callback, queue accounting, clean shutdown, durability, refinement of `CommitLog`, progress | 4 offsets, 2 values, 1 callback, 1 crash, queue and batches of 2, segments of 2 records |
| `store_fetch` | a fetch returns consecutive records from the requested offset | 4 records of two sizes, 1 consumer, no crash |
| `manager_acks` | quorum, exactly one answer, no stranded early publish, no lost commit, progress | 3 replicas, 2 publishes, one replica leaving and rejoining the ISR, `stop` at any time |
| `reactor_loop` | poll interest, exactly one answer, order, progress of answers and reading | 2 clients, 1 descriptor, 2 requests, socket buffer of 1, backpressure above 0 responses |
| `replication_stream` | order of a follower's log, acknowledgements, what is under way, refinement of `ReplicaLog` | 1 follower, 2 descriptors, 2 records, a queue of 2, 1 fault, short sends, either outcome of the erase |
| `replication_live` | a follower catches up, an acknowledgement arrives | 1 follower, 2 descriptors, 2 records, a queue of 1, no short sends; connections still close on a gap |
| `election_roles` | who may lead, who holds the records, whom a broker adopts; a follower without a leader acts | 3 brokers, 1 record, 2 faults, an assigned leader or none, epochs up to 5 |
| `decoder_push` | frames exactly as the stream defines them, frames three bytes below the maximum never refused, buffer bounded | up to 3 frames of 6 lengths (zero, small, at and above the maximum), every cutting |
| `clients_cli` | what the consumer reads, what the producer reports, routing of a key, completeness of a created topic, progress of both clients | 2 brokers, 2 partitions, 2 messages, queue of 1, 1 fault |

The bounds are the smallest at which the interesting cases occur. With four
offsets and segments of two records the store rotates, indexes a second entry
and recovers a later segment; batches of two have a first and a last record.
In `manager_acks` two publishes give batches that hold one or both, and a
follower can acknowledge the first only. In `reactor_loop` one descriptor for two
clients forces its reuse; a threshold of 0 lets a deferred response arrive
while reading is disabled. In `replication_stream` two descriptors let a
follower reconnect while its old connection is still being served and let the
old number be reused; two records and a queue of two let a record be accepted
twice. In `election_roles` two faults let the leader and a candidate both fail,
or a broker restart while claims are under way; one record separates brokers
that are behind from those that are not, and no broker reaches epoch 5. In
`decoder_push` the sizes are small but the prefix stays the smallest and the
threshold stays above the slack (the maximum, far above both in the code, is
not), so that a frame spans several reads, several frames share one, and
erasing happens within three frames. In
`clients_cli` two brokers disagree about leaders, two messages make a retry
overtake a later message, and the fault is a crash, a lost answer or a failed
connection at any point. Larger instances were checked apart: two faults, such as
a lost answer followed by a crash, for a consumer that starts at the end (303,828
states), and `--create` with one or two partitions or absent for both offsets
(193,517 states).

The runs list what is not obvious. The inductive invariants `StoreInv` and
`ManagerInv` contain the type invariants and imply `NoLostCallback`,
`ShutdownDrains` and `NoLostCommit`; the `TypeOK` of the other modules and
`NeverFollowsItself` are proved too (section 4).

Deadlock is checked for the store, which can always be reopened. It is not for
the manager, which stops after `stop()`, nor for the event loop, whose process may
end, nor for the other modules: once the bounded records, frames and messages
are delivered, nothing is left to do.

Fairness. The store's I/O thread, the manager's worker, the event loop and the
posting threads keep running when they can (weak fairness: they are operating
system threads that wait with timeouts or on conditions that are signalled).
In `Reactor` a client reads what reaches it. No client is obliged to publish,
send, register, fetch, acknowledge, disconnect or stop the broker. Progress
properties exempt a crash, a stop or a departed client explicitly.
In `Replication` the leader's and the followers' threads run on; the server's
handling of each descriptor is strongly fair, because the poller reports every
ready descriptor in turn and `fds_mu_`, which the worker takes and releases, is
not denied for ever. In `Election` a process that is down need not come back.
In `Clients` the brokers' loops, the I/O threads and both clients run on; nobody
is obliged to restart a broker, to create a topic in the producer's place, or to
deliver a publish that was given up. Faults are never fair.

### Statements of the repository that do not hold

Each of these runs ends in a counterexample; the quotations are under
`findings` in `PROJECT.json`.

| Run | Shows |
|---|---|
| `store_doc_rotation` | after a rotation, `find_segment_for` hides the active segment: committed records are not found |
| `manager_doc_stranded` | a publish registered after its commit was processed is never released |
| `replication_doc_acked` | a record accepted twice before it is committed displaces the next one, which is acknowledged and not stored |

The following configurations end in a counterexample too. They are kept beside
the runs and are repeated in the same way.

| Configuration | Property | Shows, against |
|---|---|---|
| `MCPartitionStore_doc_dirty` | `FetchOnlyCommitted` | `fetch` returns records that are written and not committed; `partition_store.hpp:101` "Consumers query log segments up to `committed_offset_` only." |
| `MCPartitionStore_doc_index` | `FetchSound` | recovery truncates the log and not the index; later records reuse the offsets and a fetch starts inside a record; `offset_index.cpp:32` "LogRecovery handles cleaning up torn indexes." |
| `MCPartitionStore_doc_crc` | `RecoveredIsGenuine` | recovery takes a zero-filled tail for a record; `segment_reader.hpp:57-58` "Scanning stops immediately at the first malformed record, torn write, or CRC mismatch." |
| `MCReplicaManager_doc_acks1` | `AckedIsCommitted` | with `acks=1` the ACK leaves when the record is queued; `src/README.md:39` "The leader acknowledges the write as soon as it commits to its local disk." |
| `MCReplicaManager_doc_stop` | `StopReturns` | `stop()` notifies without the lock between the worker's test and its sleep, and the join does not return; `tests/test_pending_ack.cpp:228` relies on it |
| `MCReactor_doc_producer` | `DeferredToItsProducer` | a deferred ACK is delivered to the connection that got the producer's descriptor; `replica_manager.hpp:25` "the ACK is sent back to the producer" |

What the models show besides, as limits of the properties above rather than as
separate runs:

- **Replication.** A follower falls behind for good when its FETCH_LOG is handled
  before the ReplicaManager exists or is overtaken by that of an older connection,
  when catch-up meets an empty `fetch`, when a frame is torn, or when its client
  thread is lost to the erase from a cleared buffer; `Stalled` lists these and `FollowerCatchesUp` says there are no others.
- **Election.** After the leader's death nobody becomes leader: a claim makes its
  receivers followers of the candidate, nothing makes the candidate leader, and a
  candidate never stands again. A deposed leader has no client, so the partition
  has no leader until it restarts. Two candidates may claim the same epoch, and
  the unlocked read lets a broker claim the epoch of another's claim that it has
  just adopted. `OneLeader` holds because of this, not through a vote.
- **Phantom.** The partitions assigned to the extra id have no leader at all.
- **Decoder.** A legal frame within three bytes of the maximum may be refused,
  depending on the cutting. A zero-length frame drops
  the rest of the buffer and then as many bytes as had been consumed, closes the
  connection through unsigned arithmetic, or erases more than the buffer holds.
- **Clients.** CREATE_TOPIC acts on one broker, and the others answer
  UNKNOWN_TOPIC. An interrupted creation leaves fewer partitions, and a later
  `--create` takes "already exists" for success. Brokers that disagree keep the
  producer in a loop of NOT_LEADER answers that `md_retries` does not count
  (`Misled`). A retried publish may be stored twice, in two partitions, and after
  later messages. `recover_all` opens stores with default options and not with
  the configured ones.

## 4. Proofs

All theorems hold for every value of the constants that satisfies the named
assumptions `HeaderAssumption`, `StoreAssumption`, `TornAssumption`,
`ManagerAssumption`, `ReactorAssumption`, `ReplicationAssumption`,
`ElectionAssumption`, `DecoderAssumption`, `RegistryAssumption` and
`ClientsAssumption`.

**PartitionStoreProofs** proves `Spec => []StoreInv` from one lemma per action
(`PartitionStoreSteps`), and from it the numbering (`OffsetsAreContiguous`), both
callback properties, the gapless commit callback, clean shutdown, type correctness,
and that no step touches a flushed record (`FlushedIsNeverLost`). The safety
properties are not inductive alone: that a batch continues the log needs where each
position of `io` keeps the batch, the buffer and the queue; that recovery resumes the
numbering needs that the last segment's base is the offset of its first place in the
log and that all before it is flushed. `StoreInv` collects these facts as `LogInv`, `SegInv`,
`BatchInv`, `QueueInv`, `HandedInv`, `CallbackInv` and `ExitInv`. The theorems
assume that a crash leaves no zero-filled tail (`"zeros" \notin TailFaults`):
with it the numbering is false, as `MCPartitionStore_doc_crc` shows.

Two further results rest on `StoreInv` and its assumption. `StoreRefinesCommitLog`
shows that the store implements `CommitLog` (`ImplementsCommitLog`): the abstract
entries are the payloads of the log, then of the batch that is not written yet, then
of the queue. It needs `CarryInv`: the buffer carries the payloads of the batch, and
a process that is down has no queue. `AppendRecord` is `Accept`, `Commit` is
`Advance`, a flush is `Stabilise` or a stutter, `ExitLoop` is `Stop`, `Crash` is
`Fail`, `Open` is `Restart`, and the steps between them move values along and
stutter. `QueueIsAccounted` shows that `pending_bytes` is the sum of the queue's
sizes. The sum is stated by the existence of partial sums (`AddUpTo`) and not by
recursion; `AccountInv` adds that the partial sums grow, which is what a pop needs.

**FetchProofs** proves `FetchIsSound`: `Spec => [](crashes = 0 => FetchSound)`. What
a fetch returns are consecutive records of the log from the requested offset on,
although it chooses the segment and copies an index under the lock and reads the
file after it. Orderly stops and reopenings are included, and nothing is assumed of
`TailFaults`. The bound `crashes = 0` is as far as the code goes: after one crash
stale index entries survive recovery, and `MCPartitionStore_doc_index` shows a fetch
that starts inside a record. There are two parts to the proof.

- *What the loops compute.* `UpperBound` is the binary search of `std::upper_bound`
  turn by turn, and `ReadRecords` the scan of `SegmentReader::read` record by
  record; both are recursive functions over the turns. `UpperBoundIsExact` shows
  that the search counts the keys that do not exceed the target; `ReadFacts` that a
  scan from the start of a record, at or before the requested offset, returns
  consecutive records from that offset on. The induction over the turns is made with
  sets, since the provers cannot instantiate an operator: a set of natural numbers
  that is not empty has a least element (`WellOrdered`), so the first turn that breaks
  a claim would follow one that does not (`Induct`, `Turns`). The lemmas take
  `WellOrdered` as a hypothesis; `NaturalsWellOrdered` proves it before the theorems.
- *What the writer leaves for a reader.* `ReadInv` is inductive relative to
  `StoreInv`. Records of a file lie one behind the other and the writer's byte
  counter is the end of the file (`LayoutInv`); every index entry points at its
  record, which may still be in the buffer of `write_batch` (`IndexInv`); so does
  every entry of a cached copy and of the copy a consumer holds between the two
  halves of fetch, however old (`CacheInv`, `ReaderInv`); the segments a consumer
  chooses from exist (`SealedInv`). No entry is ever taken back while there is no
  crash, which is why an old copy is as good as a new one. TLC confirms `ReadInv`
  when it is added to `MCPartitionStore_fetch.cfg`.

The module takes from `PartitionStoreSteps` only that each step preserves
`StoreInv`. It takes it at the end, through `INSTANCE`, to keep the lemmas of the
two modules apart; `SameStore` and `SameSteps` show that the instantiated
specification is the module's own.

**ReplicaManagerProofs** proves `Spec => []ManagerInv` for `acks = "all"`, and
from it that a released ACK has its quorum, that a registered publish is
answered exactly once or waits, that one registered before its record is
written is never stranded, and that the worker never sleeps on a queued batch.
`ManagerInv` adds that counters of an entry are those of distinct followers
(`PendingInv`), that batches are processed in offset order (`QueueOrder`) and
that an early entry's commit is recorded or still ahead (`EarlyInv`).

**ReactorProofs** proves `Spec => []ReactorInv`, and from it `TypeOK` and
`InterestExact`. `ReactorInv` adds `EventsInv`: an event that is not handled yet
belongs to a connection that exists, which is what allows the handlers to use
it, except in the window that `WriteStale` models.

`AnsweredOnce` and `ImmediateInOrder` follow from a second invariant, `FlowInv`,
which is inductive relative to `ReactorInv`. It counts, for every request of a
client with an open connection, the responses that other threads owe, that are
posted, and that are in `outbound`, in the socket and received: one if the request
was read, else none (`AnswerInv`). That the count survives the way through
`response_queue_` needs that a deferred response carries the descriptor of its
client's connection, if there still is one (`OwedInv`), that a client has one
connection (`LinkInv`), that unread requests are numbered on from the read ones
(`InboundInv`), and that `drain_response_queue` leaves nothing behind (`LocalInv`).
The counts are moved by lemmas about appending, taking and concatenating
(`Hits`).

**ReplicationProofs** proves type correctness, `FollowerInOrder`, `AckedIsHeld`
and `InFlightGenuine`, and that `Replication` implements `ReplicaLog`
(`Refinement`), for any number of followers, descriptors, records and faults.
The conjunction of the four is inductive: that the follower's log stays in
order needs that every frame under way carries the record of its own offset or
a torn one, which needs that both leader threads read no further than the log
goes; that the leader counts no more than is held needs the same of
acknowledgements in `out_acks_`, in callbacks and on connections, and that a
descriptor in use belongs to the follower that `who` names. In the refinement
`OnReplicaSync` is `Copy`, `FollowerCommits` is `Hold`, `HandleReplicaAck` is
`Learn` or a stutter, and `Restart` is `Restart`.

**ProtocolProofs** is about `Election` and `FrameDecoder`, whose definitions have
distinct names for it. Of the election it proves `TypeOK`, `OneLeader`, `AssignedHasAll`,
`NeverFollowsItself` and the action property `AdoptedHasAll`, for any number of
brokers. `Inv` adds that a broker names itself as leader only when it is the
assigned one and has no client (`SelfLed`), and that the offset of a claim, as
read (`ClaimsHeld`) and as sent (`MessagesHeld`), is one its sender still holds,
because committed records survive restarts.

Of the decoder it proves `FramesExact`, `NeverRefused`, `BufferBounded` and
`DecoderTypeOK`, for every size of prefix, frame, slack and threshold, every sequence of
lengths and every way to cut it. The properties quantify over the frames the
stream defines; the invariant `DecoderInv` says how far `push` has got in them.
For some k the first k frames are well-formed and emitted (`Exact`), and either
`push` goes on exactly where frame k + 1 begins, which is not complete between
two calls (`OnTrack`), or frame k + 1 is malformed and its beginning was received
(`Astray`), after which nothing is promised. `IndexInv` bounds the indexes, for
the erase at the end of `push`.

**ClientsProofs** proves `ReadInOrder`, `ReportedIsLogged`, `KeyedTogether`,
`CreatedComplete` and `TypeOK`, for any number of brokers, partitions, messages and
faults. `ClientsInv` adds what makes them inductive: memory, directories and
an unfinished creation of a broker agree (`RegistryInv`), and a partition with
records belongs to a topic whose creation is over (`HomeInv`), so that the number
of partitions a key is taken modulo cannot change any more; an ACK
that the producer has not read yet is for a message that was accepted
(`ProducerInv`); a record on its way to the consumer is the one at the consumer's
offset and is written, so that a crash does not take it back (`ConsumerInv`).

Only model-checked: all liveness properties (fairness and ENABLED are outside
the prover). Every safety property that a run checks is a theorem, `FetchSound` up to
the first crash.

## 5. Not modelled

- `ClusterConfig`: text parsing at start-up; its values are constants. The
  default list of peers is where `Brokers` and `Phantom` come from.
- The platform layer: wrappers over system calls, present as what they do (a
  notify pair that is a pipe, sends that are short, a poller that reports
  readiness). The Windows variants are not modelled.
- `felld` (it loads the configuration and calls `run`), the benchmarks, and
  argument parsing in the command-line tools.
- `DebugMutex`: a mutex that counts contention.
- Heartbeats: the code neither sends nor handles them, and nothing calls
  `tick_isr`.
- Torn 16-byte index entries, short writes of a live process, and timestamps in
  the store.
- Malformed requests: the handlers refuse them without changing state.
- Outcomes of data races on `writer_` and `on_commit_cb_` and of the use of
  `recv_buffers_` after an erase: they are undefined and cannot be enumerated as
  states; they are listed as hazards.

Known consequences of the code that no property is about: `stop()` leaves queued
commits unprocessed; ACKs released by two threads may overtake one another on a
connection (the protocol has no request id); a dead follower stays in the ISR,
since nothing calls `tick_isr`; `on_writable` may use a connection that
`on_readable` has just freed, and a `send` to a closed peer may end the process
(both outcomes are in `Reactor`); a client that sends without pause holds the
event loop.

Left to do: one module that composes `ReplicaManager`, `Replication` and
`Reactor` into the whole path of an `acks=-1` publish (each is checked against
what the next one promises, but their product is beyond TLC at useful bounds).
