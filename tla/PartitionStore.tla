--------------------------- MODULE PartitionStore ---------------------------
(***************************************************************************)
(* fell::storage::PartitionStore: the storage engine of one partition.     *)
(*                                                                         *)
(* Producers append records to a bounded queue; one I/O thread moves them  *)
(* in batches to the active segment, commits them, runs the commit         *)
(* callbacks, and flushes or rotates the segment; consumers fetch from the *)
(* segment files.  The process can crash at any step and reopen the        *)
(* directory.                                                              *)
(*                                                                         *)
(* An action is what one thread does in one critical section, or between   *)
(* two points where another thread can see its effects.  io is the program *)
(* counter of the I/O thread:                                              *)
(*   take    waiting in take_batch for the first record (queue_mu_ free)   *)
(*   pop     inside take_batch's loop, holding queue_mu_                   *)
(*   gather  waiting until the batch deadline (queue_mu_ free)             *)
(*   write   write_batch: index entries and buffer, then the log write     *)
(*   commit  the log write is done, committed_offset_ is not stored yet    *)
(*   fire    fire_once_callbacks;  callback  the calls themselves          *)
(*   policy  rotation and flush;  open_segment  sealed, new writer missing *)
(*   exited  the destructor has joined the thread                          *)
(*   down    the process has crashed                                       *)
(***************************************************************************)
EXTENDS SegmentLog

CONSTANTS
  Values,                 \* payload contents
  Sizes,                  \* payload sizes in bytes
  INDEX_INTERVAL,         \* records between two index entries
  LOG_SEGMENT_MAX_BYTES,  \* rotation threshold
  queue_capacity, max_pending_bytes,    \* StorageOptions: backpressure
  max_batch_records, max_batch_bytes,   \* StorageOptions: batching
  flush_every_records,                  \* StorageOptions: flushing
  Callbacks,              \* identities of one-shot commit callbacks
  Consumers,              \* threads that call fetch
  FetchSizes,             \* max_count arguments of fetch
  MaxOffset,              \* bound: offsets stay below it
  MaxCrashes,             \* bound: crashes per behaviour
  TailFaults              \* what a crash may leave after the last whole record

ASSUME StoreAssumption ==
  /\ Sizes \subseteq Nat
  /\ INDEX_INTERVAL \in Nat \ {0}
  /\ LOG_SEGMENT_MAX_BYTES \in Nat \ {0}
  /\ queue_capacity \in Nat
  /\ max_pending_bytes \in Nat
  /\ max_batch_records \in Nat \ {0}
  /\ max_batch_bytes \in Nat
  /\ flush_every_records \in Nat
  /\ MaxOffset \in Nat
  /\ MaxCrashes \in Nat
  /\ FetchSizes \subseteq Nat
  /\ TailFaults \subseteq {"torn", "zeros"}

VARIABLES
  queue, pending_bytes, shutdown, next_offset,   \* under queue_mu_
  io, batch, batch_bytes,                        \* the I/O thread and its batch
  buffer, buffer_bytes,                          \* the serialised part of the batch
  writer, sealed_segments, segment_cache,        \* segments as memory knows them
  committed_offset, records_since_flush,
  once_callbacks, to_call, called,               \* one-shot callbacks: waiting, collected, offsets called for
  handed,                                        \* end of the last batch given to on_commit_cb_
  log,                                           \* the records on disk, all segments in order
  segs,                                          \* the segment files [base, start, idx]
  synced,                                        \* how much of log and of the active idx is durable
  fetch,                                         \* progress and result of each consumer's fetch
  crashes

queueVars  == <<queue, pending_bytes, shutdown, next_offset>>
batchVars  == <<batch, batch_bytes, buffer, buffer_bytes>>
memoryVars == <<writer, sealed_segments, segment_cache>>
onceVars   == <<once_callbacks, to_call, called>>
diskVars   == <<log, segs, synced>>
vars == <<queueVars, io, batchVars, memoryVars, committed_offset, records_since_flush,
          onceVars, handed, diskVars, fetch, crashes>>

\* The content of segment file j (files share the sequence log; a file ends
\* where the next one starts).
File(j) ==
  SubSeq(log, segs[j].start + 1, IF j = Len(segs) THEN Len(log) ELSE segs[j + 1].start)

Active == Len(segs)

\* What a filesystem shows where data blocks were allocated but never written.
ZeroRecord(pos) == [offset |-> 0, val |-> Garbage, size |-> 0, pos |-> pos]

\* SegmentWriter::flush: both files of the active segment.
FlushActive == synced' = [log |-> Len(log), idx |-> Len(segs[Active].idx)]

NoFetch == [pc |-> "idle"]

Running == io \notin {"down", "exited"}

\* queue_mu_ is held by the I/O thread between two pops of one batch.
QueueLocked == io = "pop"

-----------------------------------------------------------------------------
(* Construction and destruction *)

NewWriter(base, next, bytes) == [base |-> base, next_offset |-> next, bytes_written |-> bytes]

Init ==
  /\ queue = <<>> /\ pending_bytes = 0 /\ shutdown = FALSE /\ next_offset = 0
  /\ io = "take" /\ batch = <<>> /\ batch_bytes = 0 /\ buffer = <<>> /\ buffer_bytes = 0
  /\ writer = NewWriter(0, 0, 0) /\ sealed_segments = <<>> /\ segment_cache = <<>>
  /\ committed_offset = 0 /\ records_since_flush = 0
  /\ once_callbacks = {} /\ to_call = {} /\ called = [c \in Callbacks |-> <<>>]
  /\ handed = 0
  /\ log = <<>> /\ segs = <<[base |-> 0, start |-> 0, idx |-> <<>>]>>
  /\ synced = [log |-> 0, idx |-> 0]
  /\ fetch = [c \in Consumers |-> NoFetch]
  /\ crashes = 0

\* Every member of a newly built object, given what recovery found.
FreshMemory(w, sealed) ==
  /\ queue' = <<>> /\ pending_bytes' = 0 /\ shutdown' = FALSE
  /\ next_offset' = w.next_offset
  /\ batch' = <<>> /\ batch_bytes' = 0 /\ buffer' = <<>> /\ buffer_bytes' = 0
  /\ writer' = w /\ sealed_segments' = sealed /\ segment_cache' = <<>>
  /\ committed_offset' = w.next_offset /\ records_since_flush' = 0
  /\ once_callbacks' = {} /\ to_call' = {} /\ called' = [c \in Callbacks |-> <<>>]
  /\ handed' = w.next_offset
  /\ fetch' = [c \in Consumers |-> NoFetch]

\* Mutant: recovery drops the last valid record.
RecoveredShort == LET r == ScanValid(File(Active)) IN SubSeq(r, 1, Len(r) - 1)

\* recover_partition: the valid records of the last file, and where to resume.
Recovered == ScanValid(File(Active))

\* Mutant: recovery resumes at the last record's offset.
RecoveredLastOffset ==
  IF Recovered = <<>> THEN segs[Active].base ELSE Recovered[Len(Recovered)].offset

RecoveredNextOffset ==
  IF Recovered = <<>> THEN segs[Active].base ELSE Recovered[Len(Recovered)].offset + 1

\* The constructor: truncate the last log file after its valid records (its
\* index file is left as it is), seal the others, resume the last.
Open ==
  /\ io \in {"down", "exited"}
  /\ io' = "take"
  /\ log' = SubSeq(log, 1, segs[Active].start + Len(Recovered))
  /\ FreshMemory(NewWriter(segs[Active].base, RecoveredNextOffset, EndPosition(Recovered)),
                 [j \in 1..(Active - 1) |-> segs[j].base])
  /\ UNCHANGED <<segs, synced, crashes>>

\* ~PartitionStore, up to the join: io_loop drains the queue and exits.
Shutdown ==
  /\ Running /\ ~QueueLocked /\ ~shutdown
  /\ shutdown' = TRUE
  /\ UNCHANGED <<queue, pending_bytes, next_offset, io, batchVars, memoryVars, committed_offset,
                 records_since_flush, onceVars, handed, diskVars, fetch, crashes>>

-----------------------------------------------------------------------------
(* Producers and callback registration *)

\* append: Busy and Closed change nothing.
AppendRecord(v, s) ==
  /\ Running /\ ~QueueLocked
  /\ ~shutdown
  /\ Len(queue) < queue_capacity
  /\ pending_bytes + s <= max_pending_bytes
  /\ next_offset < MaxOffset
  /\ queue' = Append(queue, [offset |-> next_offset, val |-> v, size |-> s])
  /\ next_offset' = next_offset + 1
  /\ pending_bytes' = pending_bytes + s
  /\ UNCHANGED <<shutdown, io, batchVars, memoryVars, committed_offset, records_since_flush,
                 onceVars, handed, diskVars, fetch, crashes>>

\* A callback is registered at most once, so that its calls can be counted.
Unregistered(c) ==
  /\ called[c] = <<>>
  /\ \A r \in once_callbacks \cup to_call : r.cb # c

\* set_once_commit_callback: call it now if the offset is committed already.
SetOnceCommitCallback(c, o) ==
  /\ Running /\ Unregistered(c)
  /\ IF o < committed_offset
     THEN /\ called' = [called EXCEPT ![c] = Append(@, o)]
          /\ UNCHANGED once_callbacks
     ELSE /\ once_callbacks' = once_callbacks \cup {[cb |-> c, offset |-> o]}
          /\ UNCHANGED called
  /\ UNCHANGED <<queueVars, io, batchVars, memoryVars, committed_offset, records_since_flush,
                 to_call, handed, diskVars, fetch, crashes>>

-----------------------------------------------------------------------------
(* The I/O thread: take_batch *)

BatchFull == \/ Len(batch') >= max_batch_records
             \/ batch_bytes' >= max_batch_bytes

\* Mutant: pending_bytes_ is not reduced.
PopKeepsBytes ==
  /\ io \in {"take", "pop", "gather"}
  /\ queue # <<>>
  /\ queue' = Tail(queue)
  /\ pending_bytes' = pending_bytes
  /\ batch' = Append(batch, Head(queue))
  /\ batch_bytes' = batch_bytes + RecordBytes(Head(queue))
  /\ \/ io' = "write"
     \/ ~BatchFull /\ io' = IF queue' = <<>> THEN "gather" ELSE "pop"
  /\ UNCHANGED <<shutdown, next_offset, buffer, buffer_bytes, memoryVars, committed_offset,
                 records_since_flush, onceVars, handed, diskVars, fetch, crashes>>

\* One turn of take_batch's loop.  The clock decides whether the deadline has
\* passed; with an empty queue and time left the thread waits for more.
PopRecord ==
  /\ io \in {"take", "pop", "gather"}
  /\ queue # <<>>
  /\ queue' = Tail(queue)
  /\ pending_bytes' = pending_bytes - Head(queue).size
  /\ batch' = Append(batch, Head(queue))
  /\ batch_bytes' = batch_bytes + RecordBytes(Head(queue))
  /\ \/ io' = "write"
     \/ ~BatchFull /\ io' = IF queue' = <<>> THEN "gather" ELSE "pop"
  /\ UNCHANGED <<shutdown, next_offset, buffer, buffer_bytes, memoryVars, committed_offset,
                 records_since_flush, onceVars, handed, diskVars, fetch, crashes>>

\* The wait for more records ends with an empty queue: deadline or shutdown.
GatherTimeout ==
  /\ io = "gather" /\ queue = <<>>
  /\ io' = "write"
  /\ UNCHANGED <<queueVars, batchVars, memoryVars, committed_offset, records_since_flush,
                 onceVars, handed, diskVars, fetch, crashes>>

\* Mutant: shutdown leaves the loop with records in the queue.
ExitUndrained ==
  /\ io = "take" /\ shutdown
  /\ io' = "exited"
  /\ FlushActive
  /\ UNCHANGED <<queueVars, batchVars, memoryVars, committed_offset, records_since_flush,
                 onceVars, handed, log, segs, fetch, crashes>>

\* Mutant: continue in place of break.
ExitContinues ==
  /\ io = "take" /\ shutdown /\ queue = <<>>
  /\ io' = "take"
  /\ FlushActive
  /\ UNCHANGED <<queueVars, batchVars, memoryVars, committed_offset, records_since_flush,
                 onceVars, handed, log, segs, fetch, crashes>>

\* An empty batch after shutdown: leave io_loop with a final flush.
ExitLoop ==
  /\ io = "take" /\ shutdown /\ queue = <<>>
  /\ io' = "exited"
  /\ FlushActive
  /\ UNCHANGED <<queueVars, batchVars, memoryVars, committed_offset, records_since_flush,
                 onceVars, handed, log, segs, fetch, crashes>>

-----------------------------------------------------------------------------
(* The I/O thread: write_batch *)

\* Mutant: the index entry points behind the record.
SerializeLatePos ==
  /\ io = "write" /\ Len(buffer) < Len(batch)
  /\ LET cmd   == batch[Len(buffer) + 1]
         entry == [offset |-> cmd.offset,
                   pos |-> writer.bytes_written + buffer_bytes + RecordBytes(cmd)]
     IN  /\ segs' = IF (cmd.offset - writer.base) % INDEX_INTERVAL = 0
                    THEN [segs EXCEPT ![Active].idx = Append(@, entry)]
                    ELSE segs
         /\ buffer' = Append(buffer, [offset |-> cmd.offset, val |-> cmd.val,
                                      size |-> cmd.size, pos |-> buffer_bytes])
         /\ buffer_bytes' = buffer_bytes + RecordBytes(cmd)
  /\ UNCHANGED <<queueVars, io, batch, batch_bytes, memoryVars, committed_offset,
                 records_since_flush, onceVars, handed, log, synced, fetch, crashes>>

\* One turn of write_batch's loop: an index entry when one is due, written to
\* the index file before the record reaches the log, then the record itself
\* into the buffer.
SerializeRecord ==
  /\ io = "write" /\ Len(buffer) < Len(batch)
  /\ LET cmd   == batch[Len(buffer) + 1]
         entry == [offset |-> cmd.offset, pos |-> writer.bytes_written + buffer_bytes]
     IN  /\ segs' = IF (cmd.offset - writer.base) % INDEX_INTERVAL = 0
                    THEN [segs EXCEPT ![Active].idx = Append(@, entry)]
                    ELSE segs
         /\ buffer' = Append(buffer, [offset |-> cmd.offset, val |-> cmd.val,
                                      size |-> cmd.size, pos |-> buffer_bytes])
         /\ buffer_bytes' = buffer_bytes + RecordBytes(cmd)
  /\ UNCHANGED <<queueVars, io, batch, batch_bytes, memoryVars, committed_offset,
                 records_since_flush, onceVars, handed, log, synced, fetch, crashes>>

\* The append-mode write of the whole buffer at the end of the active file.
\* A failed write throws in the I/O thread and ends the process: Crash.
WriteLog ==
  /\ io = "write" /\ Len(buffer) = Len(batch)
  /\ LET end == EndPosition(File(Active))
     IN  log' = log \o [i \in DOMAIN buffer |-> [buffer[i] EXCEPT !.pos = @ + end]]
  /\ io' = "commit"
  /\ UNCHANGED <<queueVars, batchVars, memoryVars, committed_offset, records_since_flush,
                 onceVars, handed, segs, synced, fetch, crashes>>

\* Mutant: the commit covers the first record of the batch only.
CommitFirst ==
  /\ io = "commit"
  /\ writer' = [writer EXCEPT !.bytes_written = @ + buffer_bytes, !.next_offset = @ + Len(batch)]
  /\ committed_offset' = batch[1].offset + 1
  /\ io' = "fire"
  /\ UNCHANGED <<queueVars, batchVars, sealed_segments, segment_cache, records_since_flush,
                 onceVars, handed, diskVars, fetch, crashes>>

\* The end of write_batch: the writer's counters, then committed_offset_.
Commit ==
  /\ io = "commit"
  /\ writer' = [writer EXCEPT !.bytes_written = @ + buffer_bytes, !.next_offset = @ + Len(batch)]
  /\ committed_offset' = batch[Len(batch)].offset + 1
  /\ io' = "fire"
  /\ UNCHANGED <<queueVars, batchVars, sealed_segments, segment_cache, records_since_flush,
                 onceVars, handed, diskVars, fetch, crashes>>

-----------------------------------------------------------------------------
(* The I/O thread: callbacks *)

\* Mutant: <= in place of <.
CollectTooMany ==
  /\ io = "fire"
  /\ to_call' = {r \in once_callbacks : r.offset <= committed_offset}
  /\ once_callbacks' = {r \in once_callbacks : r.offset > committed_offset}
  /\ io' = "callback"
  /\ UNCHANGED <<queueVars, batchVars, memoryVars, committed_offset, records_since_flush,
                 called, handed, diskVars, fetch, crashes>>

\* Mutant: callbacks that are not due are dropped.
CollectForgets ==
  /\ io = "fire"
  /\ to_call' = {r \in once_callbacks : r.offset < committed_offset}
  /\ once_callbacks' = {}
  /\ io' = "callback"
  /\ UNCHANGED <<queueVars, batchVars, memoryVars, committed_offset, records_since_flush,
                 called, handed, diskVars, fetch, crashes>>

\* Mutant: collected callbacks stay registered.
CollectKeeps ==
  /\ io = "fire"
  /\ to_call' = {r \in once_callbacks : r.offset < committed_offset}
  /\ once_callbacks' = once_callbacks
  /\ io' = "callback"
  /\ UNCHANGED <<queueVars, batchVars, memoryVars, committed_offset, records_since_flush,
                 called, handed, diskVars, fetch, crashes>>

\* fire_once_callbacks under once_cb_mu_: collect what has been committed.
CollectCallbacks ==
  /\ io = "fire"
  /\ to_call' = {r \in once_callbacks : r.offset < committed_offset}
  /\ once_callbacks' = {r \in once_callbacks : r.offset >= committed_offset}
  /\ io' = "callback"
  /\ UNCHANGED <<queueVars, batchVars, memoryVars, committed_offset, records_since_flush,
                 called, handed, diskVars, fetch, crashes>>

\* Mutant: on_commit_cb_ gets the first record of the batch only.
RunFirst ==
  /\ io = "callback"
  /\ called' = [c \in Callbacks |->
                 IF \E r \in to_call : r.cb = c
                 THEN Append(called[c], (CHOOSE r \in to_call : r.cb = c).offset)
                 ELSE called[c]]
  /\ to_call' = {}
  /\ handed' = batch[1].offset + 1
  /\ io' = "policy"
  /\ UNCHANGED <<queueVars, batchVars, memoryVars, committed_offset, records_since_flush,
                 once_callbacks, diskVars, fetch, crashes>>

\* The collected calls, outside the lock, then on_commit_cb_ with the batch.
RunCallbacks ==
  /\ io = "callback"
  /\ called' = [c \in Callbacks |->
                 IF \E r \in to_call : r.cb = c
                 THEN Append(called[c], (CHOOSE r \in to_call : r.cb = c).offset)
                 ELSE called[c]]
  /\ to_call' = {}
  /\ handed' = batch[Len(batch)].offset + 1
  /\ io' = "policy"
  /\ UNCHANGED <<queueVars, batchVars, memoryVars, committed_offset, records_since_flush,
                 once_callbacks, diskVars, fetch, crashes>>

-----------------------------------------------------------------------------
(* The I/O thread: rotation and flushing, at batch boundaries *)

BatchDone == batch' = <<>> /\ batch_bytes' = 0 /\ buffer' = <<>> /\ buffer_bytes' = 0

\* The segment is full: flush it and publish it as sealed, under mu_.
SealSegment ==
  /\ io = "policy" /\ writer.bytes_written >= LOG_SEGMENT_MAX_BYTES
  /\ FlushActive
  /\ sealed_segments' = Append(sealed_segments, writer.base)
  /\ segment_cache' = [b \in DOMAIN segment_cache \ {writer.base} |-> segment_cache[b]]
  /\ io' = "open_segment"
  /\ UNCHANGED <<queueVars, batchVars, writer, committed_offset, records_since_flush,
                 onceVars, handed, log, segs, fetch, crashes>>

\* The new SegmentWriter: two empty files named after the next offset.
OpenSegment ==
  /\ io = "open_segment"
  /\ segs' = Append(segs, [base |-> writer.next_offset, start |-> Len(log), idx |-> <<>>])
  /\ writer' = NewWriter(writer.next_offset, writer.next_offset, 0)
  /\ synced' = [synced EXCEPT !.idx = 0]
  /\ records_since_flush' = 0
  /\ BatchDone
  /\ io' = "take"
  /\ UNCHANGED <<queueVars, sealed_segments, segment_cache, committed_offset, onceVars, handed,
                 log, fetch, crashes>>

\* No rotation: flush when enough records or enough time has gone by.
FlushPolicy ==
  /\ io = "policy" /\ writer.bytes_written < LOG_SEGMENT_MAX_BYTES
  /\ \/ /\ FlushActive
        /\ records_since_flush' = 0
     \/ /\ records_since_flush + Len(batch) < flush_every_records
        /\ records_since_flush' = records_since_flush + Len(batch)
        /\ UNCHANGED synced
  /\ BatchDone
  /\ io' = "take"
  /\ UNCHANGED <<queueVars, memoryVars, committed_offset, onceVars, handed, log, segs, fetch,
                 crashes>>

-----------------------------------------------------------------------------
(* Consumers *)

\* find_segment_for: the base of the segment to search, if there is one.
FindSegmentFor(o) ==
  LET it == UpperBound(sealed_segments, o)
  IN  IF it > 0 THEN {sealed_segments[it]}
      ELSE IF o >= writer.base THEN {writer.base}
      ELSE {}

SegmentOf(base) == CHOOSE j \in DOMAIN segs : segs[j].base = base

\* fetch under mu_: choose the segment and load its index unless it is cached.
FetchLocate(c, o, n) ==
  /\ Running /\ fetch[c].pc # "read"
  /\ \/ /\ FindSegmentFor(o) = {}
        /\ fetch' = [fetch EXCEPT ![c] = [pc |-> "done", offset |-> o, max |-> n,
                                          committed |-> committed_offset, result |-> <<>>]]
        /\ UNCHANGED segment_cache
     \/ \E base \in FindSegmentFor(o) :
          LET idx == IF base \in DOMAIN segment_cache THEN segment_cache[base]
                     ELSE segs[SegmentOf(base)].idx
          IN  /\ segment_cache' = [b \in DOMAIN segment_cache \cup {base} |->
                                     IF b = base THEN idx ELSE segment_cache[b]]
              /\ fetch' = [fetch EXCEPT ![c] = [pc |-> "read", offset |-> o, max |-> n,
                                                committed |-> committed_offset,
                                                base |-> base, idx |-> idx]]
  /\ UNCHANGED <<queueVars, io, batchVars, writer, sealed_segments, committed_offset,
                 records_since_flush, onceVars, handed, diskVars, crashes>>

\* The rest of fetch, without a lock: look the offset up and read the file.
FetchRead(c) ==
  /\ Running /\ fetch[c].pc = "read"
  /\ LET f == fetch[c]
     IN  fetch' = [fetch EXCEPT ![c] =
           [pc |-> "done", offset |-> f.offset, max |-> f.max, committed |-> f.committed,
            result |-> ReadFrom(File(SegmentOf(f.base)), Lookup(f.idx, f.offset), f.offset, f.max)]]
  /\ UNCHANGED <<queueVars, io, batchVars, memoryVars, committed_offset, records_since_flush,
                 onceVars, handed, diskVars, crashes>>

-----------------------------------------------------------------------------
(***************************************************************************)
(* A crash of the process or of the machine (external).  Memory is lost.   *)
(* Of the active segment everything flushed survives, and any prefix of    *)
(* the rest, independently for the log and the index file; the log may end *)
(* in a partial record, or in blocks that were allocated but not written.  *)
(***************************************************************************)
CrashTail(k) ==
  IF k < Len(log) \/ io = "write"
  THEN {<<>>} \cup {<<Torn>> : t \in TailFaults \cap {"torn"}}
              \cup {<<ZeroRecord(EndPosition(SubSeq(log, segs[Active].start + 1, k)))>> :
                      t \in TailFaults \cap {"zeros"}}
  ELSE {<<>>}

Crash ==
  /\ io # "down" /\ crashes < MaxCrashes
  /\ \E k \in synced.log..Len(log), j \in synced.idx..Len(segs[Active].idx) :
       /\ \E tail \in CrashTail(k) : log' = SubSeq(log, 1, k) \o tail
       /\ segs' = [segs EXCEPT ![Active].idx = SubSeq(@, 1, j)]
  /\ io' = "down"
  /\ crashes' = crashes + 1
  /\ FreshMemory(NewWriter(0, 0, 0), <<>>)
  /\ UNCHANGED synced

-----------------------------------------------------------------------------
IoStep ==
  \/ PopRecord \/ GatherTimeout \/ ExitLoop
  \/ SerializeRecord \/ WriteLog \/ Commit
  \/ CollectCallbacks \/ RunCallbacks
  \/ SealSegment \/ OpenSegment \/ FlushPolicy

ClientStep ==
  \/ \E v \in Values, s \in Sizes : AppendRecord(v, s)
  \/ \E c \in Callbacks, o \in 0..(MaxOffset - 1) : SetOnceCommitCallback(c, o)
  \/ \E c \in Consumers :
       \/ \E o \in 0..(MaxOffset - 1), n \in FetchSizes : FetchLocate(c, o, n)
       \/ FetchRead(c)

Next == IoStep \/ ClientStep \/ Shutdown \/ Open \/ Crash

Spec == Init /\ [][Next]_vars

\* The operating system keeps scheduling the I/O thread, and its timed wait
\* returns; nothing obliges a client to call.
FairSpec == Spec /\ WF_vars(IoStep)

-----------------------------------------------------------------------------
(* Types *)

Cmd == [offset : Nat, val : Values, size : Nat]
Rec == [offset : Nat, val : Values, size : Nat, pos : Nat]
IndexEntry == [offset : Nat, pos : Nat]
OnceCallback == [cb : Callbacks, offset : Nat]

\* The reader can tell a partial record from a whole one by its length.
ASSUME TornAssumption == Torn \notin Rec

QueueType == queue \in Seq(Cmd) /\ pending_bytes \in Int /\ next_offset \in Nat

BatchType ==
  /\ io \in {"take", "pop", "gather", "write", "commit", "fire", "callback", "policy",
             "open_segment", "exited", "down"}
  /\ batch \in Seq(Cmd) /\ batch_bytes \in Nat /\ buffer \in Seq(Rec) /\ buffer_bytes \in Nat

CounterType ==
  /\ writer \in [base : Nat, next_offset : Nat, bytes_written : Nat]
  /\ committed_offset \in Nat /\ records_since_flush \in Nat /\ handed \in Nat
  /\ crashes \in 0..MaxCrashes

OnceType ==
  /\ once_callbacks \subseteq OnceCallback /\ to_call \subseteq OnceCallback
  /\ called \in [Callbacks -> Seq(Nat)]

Segment == [base : Nat, start : Nat, idx : Seq(IndexEntry)]

DiskType ==
  /\ log \in Seq(Rec \cup {Torn})
  /\ segs \in Seq(Segment)
  /\ synced \in [log : Nat, idx : Nat]

\* The store's variables have the types of the members they model.
TypeOK ==
  shutdown \in BOOLEAN /\ QueueType /\ BatchType /\ CounterType /\ OnceType /\ DiskType

-----------------------------------------------------------------------------
(* Properties *)

\* Accepted records that are not in the log yet, oldest first.
Pending == (IF io \in {"take", "pop", "gather", "write"} THEN batch ELSE <<>>) \o queue

\* While the store is open, the log, the batch being written and the queue hold
\* the offsets 0, 1, 2, ... in order, without a gap or a duplicate, and
\* next_offset_ is the one after them.  Appends, batching, rotation, crashes and
\* recovery all have to agree on the numbering for this to hold.
OffsetsContiguous ==
  Running =>
    /\ \A i \in DOMAIN log : log[i].offset = i - 1
    /\ \A i \in DOMAIN Pending : Pending[i].offset = Len(log) + i - 1
    /\ next_offset = Len(log) + Len(Pending)

\* A one-shot callback is called at most once, and only for an offset that is
\* committed (set_once_commit_callback against fire_once_callbacks).
CallbackOnceAfterCommit ==
  \A c \in Callbacks :
    /\ Len(called[c]) <= 1
    /\ Running => \A i \in DOMAIN called[c] : called[c][i] < committed_offset

\* No lost wake-up: outside the window between storing committed_offset_ and
\* collecting the callbacks, none of the callbacks left waiting is for a
\* committed offset, in whatever order registration and commit happen.
NoLostCallback ==
  Running /\ io # "fire" => \A r \in once_callbacks : r.offset >= committed_offset

\* The batches given to on_commit_cb_ follow one another without a gap or an
\* overlap: replication and deferred acknowledgements see every record once.
CommitCallbackGapless ==
  Running =>
    /\ io = "callback" => batch[1].offset = handed
    /\ io \in {"take", "pop", "gather", "write", "commit", "policy", "open_segment"}
         => handed = committed_offset

\* When the destructor's join returns, every accepted record is in the log,
\* committed and flushed, and no callback for one of them is still waiting.
ShutdownDrains ==
  io = "exited" =>
    /\ queue = <<>> /\ batch = <<>>
    /\ committed_offset = next_offset /\ Len(log) = next_offset /\ synced.log = next_offset
    /\ \A r \in once_callbacks : r.offset >= next_offset

\* A step leaves the flushed part of the log as it is.
KeepsFlushed ==
  /\ synced.log <= Len(log') /\ synced.log <= synced'.log
  /\ \A i \in 1..synced.log : log'[i] = log[i]

\* What was flushed is never lost or changed: not by the tail truncation in
\* recovery, not by rotation, not by a later crash.
FlushedNeverLost == [][KeepsFlushed]_vars

\* The payloads of the records of s take total bytes: sum[i] counts the first i of them.
AddUpTo(s, total) ==
  \E sum \in [0..Len(s) -> 0..total] :
    /\ sum[0] = 0 /\ sum[Len(s)] = total
    /\ \A i \in 1..Len(s) : sum[i] = sum[i - 1] + s[i].size

\* pending_bytes_ is exactly the payload held by the queue, whatever append and
\* take_batch do to it (so the unsigned subtraction never wraps), and the
\* queue respects both backpressure limits.
QueueAccounting ==
  /\ AddUpTo(queue, pending_bytes)
  /\ pending_bytes <= max_pending_bytes
  /\ Len(queue) <= queue_capacity

\* A finished fetch returns consecutive records of the log, the first of them
\* at the requested offset, and at most max_count of them: segment choice, the
\* cached index and the unlocked read agree although the writer moves on.
FetchSound ==
  \A c \in Consumers : fetch[c].pc = "done" =>
    /\ Len(fetch[c].result) <= fetch[c].max
    /\ \A i \in DOMAIN fetch[c].result :
         /\ fetch[c].offset + i <= Len(log)
         /\ fetch[c].result[i] = log[fetch[c].offset + i]

\* Every accepted record is eventually committed, whatever the clock does to the
\* batches and whenever the destructor is called, unless the process crashes.
AcceptedIsCommitted ==
  \A o \in 0..(MaxOffset - 1) : (next_offset > o) ~> (committed_offset > o \/ io = "down")

\* A callback registered for an accepted record is eventually called, unless the
\* process crashes.
CallbackIsCalled ==
  \A c \in Callbacks :
    (\E r \in once_callbacks : r.cb = c /\ r.offset < next_offset)
      ~> (called[c] # <<>> \/ io = "down")

\* The destructor terminates: the I/O thread drains the queue and exits, unless
\* the process crashes.
ShutdownTerminates == shutdown ~> (io \in {"exited", "down"})

-----------------------------------------------------------------------------
(* Refinement *)

\* The payloads of the whole records of a log and of the records behind it.
Payloads(file, behind) ==
  LET records == ScanValid(file) \o behind
  IN  [i \in DOMAIN records |-> records[i].val]

\* What the store would show of its log: the whole records, then the pending.
AcceptedValues == Payloads(log, Pending)

CL == INSTANCE CommitLog WITH entries <- AcceptedValues, committed <- committed_offset,
                              stable <- synced.log, up <- Running

\* The store implements the log that CommitLog describes.
ImplementsCommitLog == CL!CLSpec

-----------------------------------------------------------------------------
(***************************************************************************)
(* The inductive invariant behind the safety properties.                   *)
(***************************************************************************)

\* Whole records carry their place as their offset; a partial record is the
\* last thing in the log of a process that is down, after all that is flushed.
LogInv ==
  /\ \A i \in 1..Len(log) : log[i] # Torn => log[i].offset = i - 1
  /\ \A i \in 1..Len(log) : log[i] = Torn => io = "down" /\ i = Len(log) /\ i > synced.log

\* The active segment is named after its first offset, starts inside the
\* flushed part of the log, and the flushed marks lie inside the files.
SegInv ==
  /\ Len(segs) >= 1
  /\ segs[Len(segs)].base = segs[Len(segs)].start
  /\ segs[Len(segs)].start <= synced.log
  /\ synced.log <= Len(log)
  /\ synced.idx <= Len(segs[Len(segs)].idx)

\* Where the batch lies relative to the log, by the I/O thread's position.
BatchInv ==
  /\ io \in {"take", "exited"} => batch = <<>>
  /\ io \in {"pop", "gather", "write", "commit", "fire", "callback", "policy", "open_segment"}
       => Len(batch) > 0
  /\ io \in {"take", "pop", "gather"} => buffer = <<>>
  /\ Len(buffer) <= Len(batch)
  /\ io = "commit" => Len(buffer) = Len(batch)
  /\ \A i \in 1..Len(buffer) : buffer[i].offset = batch[i].offset
  /\ Running => writer.next_offset = committed_offset
  /\ io \in {"take", "pop", "gather", "write"} =>
       /\ committed_offset = Len(log)
       /\ \A i \in 1..Len(batch) : batch[i].offset = Len(log) + i - 1
  /\ io = "commit" => committed_offset + Len(batch) = Len(log)
  /\ io \in {"fire", "callback", "policy", "open_segment", "exited"} => committed_offset = Len(log)
  /\ io \in {"commit", "fire", "callback", "policy", "open_segment"} =>
       \A i \in 1..Len(batch) : batch[i].offset = Len(log) - Len(batch) + i - 1

\* The first offset that is still in the queue.
QueueStart == Len(log) + (IF io \in {"take", "pop", "gather", "write"} THEN Len(batch) ELSE 0)

QueueInv ==
  Running \/ io = "exited" =>
    /\ \A i \in 1..Len(queue) : queue[i].offset = QueueStart + i - 1
    /\ next_offset = QueueStart + Len(queue)

\* Every callback is in one place only, and on the right side of the commit.
CallbackInv ==
  /\ \A r \in once_callbacks : io # "fire" => r.offset >= committed_offset
  /\ \A r \in to_call : io = "callback" /\ r.offset < committed_offset
  /\ \A r1, r2 \in once_callbacks \cup to_call : r1.cb = r2.cb => r1 = r2
  /\ \A c \in Callbacks :
       /\ Len(called[c]) <= 1
       /\ called[c] # <<>> => \A r \in once_callbacks \cup to_call : r.cb # c
       /\ \A i \in 1..Len(called[c]) : called[c][i] < committed_offset

HandedInv ==
  /\ io \in {"take", "pop", "gather", "write", "commit", "policy", "open_segment", "exited"}
       => handed = committed_offset
  /\ io \in {"fire", "callback"} => handed + Len(batch) = committed_offset

\* A sealed segment and a closed store are flushed.
ExitInv ==
  /\ io = "exited" => queue = <<>>
  /\ io \in {"open_segment", "exited"} => synced.log = Len(log)

\* The conjunction of the above: true of every reachable state, and inductive.
StoreInv ==
  /\ TypeOK
  /\ LogInv /\ SegInv /\ BatchInv /\ QueueInv /\ CallbackInv /\ HandedInv /\ ExitInv

\* What the refinement of CommitLog needs besides: the buffer carries the
\* payloads of the batch, and a process that is down has no queue.
CarryInv ==
  /\ \A i \in 1..Len(buffer) : buffer[i].val = batch[i].val
  /\ io = "down" => queue = <<>>

-----------------------------------------------------------------------------
(***************************************************************************)
(* The inductive invariant behind FetchSound, while there is no crash.     *)
(***************************************************************************)

\* The records of a file lie one behind the other, from its first byte on.
Laid(file) ==
  /\ file # <<>> => file[1].pos = 0
  /\ \A i, k \in DOMAIN file : i < k => file[i].pos + RecordBytes(file[i]) <= file[k].pos

\* The segments follow one another, no sealed one is empty, and the writer's
\* byte counter is where the next record will be.
LayoutInv ==
  /\ io # "down"
  /\ \A j \in 1..Len(segs) :
       segs[j].base = segs[j].start /\ segs[j].start <= Len(log) /\ Laid(File(j))
  /\ \A j, k \in 1..Len(segs) : j < k => segs[j].start < segs[k].start
  /\ io = "open_segment" => writer.bytes_written > 0
  /\ Laid(buffer) /\ buffer_bytes = EndPosition(buffer)
  /\ \A j \in 1..Len(segs) : j = Len(segs) =>
       /\ writer.base = segs[j].base
       /\ IF io = "commit" THEN writer.bytes_written + buffer_bytes = EndPosition(File(j))
                           ELSE writer.bytes_written = EndPosition(File(j))

\* An index entry of segment j points at its record: in the file or, while
\* write_batch is at work, in the buffer that it will append to the file.
EntryExact(j, e) ==
  /\ e \in IndexEntry /\ segs[j].start <= e.offset
  /\ \/ /\ e.offset - segs[j].start + 1 <= Len(File(j))
        /\ e.pos = File(j)[e.offset - segs[j].start + 1].pos
     \/ /\ io = "write" /\ j = Len(segs)
        /\ e.offset - Len(log) + 1 \in 1..Len(buffer)
        /\ e.pos = EndPosition(File(j)) + buffer[e.offset - Len(log) + 1].pos

Entries(idx) == {idx[i] : i \in 1..Len(idx)}

\* The index files are exact.
IndexInv == \A j \in 1..Len(segs) : \A e \in Entries(segs[j].idx) : EntryExact(j, e)

\* So are the cached copies of them, which may be older.
CacheInv ==
  \A b \in DOMAIN segment_cache :
    /\ segment_cache[b] \in Seq(IndexEntry)
    /\ \E j \in 1..Len(segs) :
         segs[j].base = b /\ \A e \in Entries(segment_cache[b]) : EntryExact(j, e)

\* The sealed segments exist.
SealedInv ==
  /\ sealed_segments \in Seq(Nat)
  /\ \A i \in 1..Len(sealed_segments) : \E j \in 1..Len(segs) : segs[j].base = sealed_segments[i]

\* A consumer between the two halves of fetch holds an exact index of a segment
\* that starts at or before the offset it looks for.
ReaderInv ==
  /\ DOMAIN fetch = Consumers
  /\ \A c \in Consumers : fetch[c].pc \in {"read", "done"} =>
       fetch[c].offset \in Nat /\ fetch[c].max \in Nat
  /\ \A c \in Consumers : fetch[c].pc = "done" => fetch[c].result \in Seq(Rec)
  /\ \A c \in Consumers : fetch[c].pc = "read" =>
       /\ fetch[c].base <= fetch[c].offset
       /\ fetch[c].idx \in Seq(IndexEntry)
       /\ \E j \in 1..Len(segs) :
            segs[j].base = fetch[c].base /\ \A e \in Entries(fetch[c].idx) : EntryExact(j, e)

\* The conjunction of the above with FetchSound: inductive, given StoreInv.
ReadInv == LayoutInv /\ IndexInv /\ CacheInv /\ SealedInv /\ ReaderInv /\ FetchSound

=============================================================================
