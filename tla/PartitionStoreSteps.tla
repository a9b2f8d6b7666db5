------------------------- MODULE PartitionStoreSteps -------------------------
(***************************************************************************)
(* Proofs that StoreInv is an inductive invariant of PartitionStore.       *)
(* First the steps of a running store: append, the registration of         *)
(* callbacks, the gathering of a batch, its serialization and its write;   *)
(* then the commit, its callbacks, the segment rotation, the flush and the *)
(* readers.  Then the crash, which loses what was not flushed, and the     *)
(* recovery.  A crash that leaves zeroed blocks is excluded: see           *)
(* RecoveredIsGenuine in MCPartitionStore.                                 *)
(***************************************************************************)
EXTENDS PartitionStore, TLAPS

-----------------------------------------------------------------------------
(* Sequences *)

\* What a sequence with one more element holds.
LEMMA Appended ==
  ASSUME NEW S, NEW q \in Seq(S), NEW x \in S
  PROVE  /\ Append(q, x) \in Seq(S) /\ Append(q, x) # <<>> /\ Len(Append(q, x)) = Len(q) + 1
         /\ \A i \in 1..Len(q) : Append(q, x)[i] = q[i]
         /\ Append(q, x)[Len(q) + 1] = x
OBVIOUS

\* What one sequence behind another holds.
LEMMA Concatenated ==
  ASSUME NEW S, NEW q \in Seq(S), NEW r \in Seq(S)
  PROVE  /\ q \o r \in Seq(S) /\ Len(q \o r) = Len(q) + Len(r)
         /\ \A i \in 1..(Len(q) + Len(r)) : (q \o r)[i] = IF i <= Len(q) THEN q[i] ELSE r[i - Len(q)]
OBVIOUS

\* Sequences with the same elements are the same.
LEMMA SameElements ==
  ASSUME NEW S, NEW q \in Seq(S), NEW r \in Seq(S), Len(q) = Len(r), \A i \in 1..Len(q) : q[i] = r[i]
  PROVE  q = r
OBVIOUS

\* Nothing behind a sequence.
LEMMA NothingBehind == ASSUME NEW S, NEW q \in Seq(S) PROVE q \o <<>> = q /\ <<>> \o q = q
OBVIOUS

\* A sequence with one element replaced.
LEMMA Replaced ==
  ASSUME NEW S, NEW q \in Seq(S), NEW k \in 1..Len(q), NEW x \in S
  PROVE  /\ [q EXCEPT ![k] = x] \in Seq(S) /\ Len([q EXCEPT ![k] = x]) = Len(q)
         /\ \A i \in 1..Len(q) : [q EXCEPT ![k] = x][i] = IF i = k THEN x ELSE q[i]
OBVIOUS

\* A sequence of elements of S is one of elements of a larger set.
LEMMA Widened == ASSUME NEW S, NEW T, S \subseteq T, NEW q \in Seq(S) PROVE q \in Seq(T)
OBVIOUS

\* What a cut holds, when what it leaves is in S.
LEMMA CutOut ==
  ASSUME NEW S, NEW T, NEW q \in Seq(T), NEW m \in Nat, NEW n \in Nat, n <= Len(q),
         \A i \in (m + 1)..n : q[i] \in S
  PROVE  /\ SubSeq(q, m + 1, n) \in Seq(S)
         /\ m <= n => Len(SubSeq(q, m + 1, n)) = n - m
         /\ \A i \in 1..(n - m) : SubSeq(q, m + 1, n)[i] = q[m + i]
OBVIOUS

\* A cut that leaves everything.
LEMMA WholeCut == ASSUME NEW S, NEW q \in Seq(S) PROVE SubSeq(q, 1, Len(q)) = q
OBVIOUS

-----------------------------------------------------------------------------
(* The steps of a running store *)

\* What SubSeq keeps of a prefix.
LEMMA PrefixFacts ==
  ASSUME NEW S, NEW s \in Seq(S), NEW m \in Nat, m <= Len(s)
  PROVE  /\ SubSeq(s, 1, m) \in Seq(S) /\ Len(SubSeq(s, 1, m)) = m
         /\ \A i \in 1..m : SubSeq(s, 1, m)[i] = s[i]
OBVIOUS

\* What it keeps of a suffix.
LEMMA SuffixFacts ==
  ASSUME NEW S, NEW s \in Seq(S), NEW a \in Nat, a <= Len(s)
  PROVE  /\ SubSeq(s, a + 1, Len(s)) \in Seq(S)
         /\ Len(SubSeq(s, a + 1, Len(s))) = Len(s) - a
         /\ \A i \in 1..(Len(s) - a) : SubSeq(s, a + 1, Len(s))[i] = s[a + i]
OBVIOUS

\* The initial state satisfies the invariant.
LEMMA InitInv == Init => StoreInv
<1> SUFFICES ASSUME Init PROVE StoreInv
  OBVIOUS
<1>1. QueueType /\ BatchType /\ CounterType /\ OnceType
  BY StoreAssumption DEF Init, QueueType, BatchType, CounterType, OnceType, NewWriter
<1>2. shutdown \in BOOLEAN
  BY ZenonT(30) DEF Init
<1>3. DiskType
  <2>1. [base |-> 0, start |-> 0, idx |-> <<>>] \in Segment
    BY DEF Segment
  <2> QED
    BY <2>1 DEF Init, DiskType
<1>4. LogInv /\ SegInv
  BY DEF Init, LogInv, SegInv
<1>5. BatchInv /\ QueueInv /\ HandedInv /\ ExitInv
  BY DEF Init, BatchInv, QueueInv, QueueStart, HandedInv, ExitInv, NewWriter, Running
<1>6. CallbackInv
  BY DEF Init, CallbackInv
<1> QED
  BY <1>1, <1>2, <1>3, <1>4, <1>5, <1>6 DEF StoreInv, TypeOK

\* append puts the next offset behind the queue.
LEMMA AppendInv ==
  ASSUME StoreInv, NEW v \in Values, NEW s \in Sizes, AppendRecord(v, s)
  PROVE  StoreInv'
<1> DEFINE cmd == [offset |-> next_offset, val |-> v, size |-> s]
<1> USE DEF queueVars, batchVars, memoryVars, onceVars, diskVars
<1>1. cmd \in Cmd
  BY StoreAssumption DEF StoreInv, TypeOK, QueueType, Cmd
<1>2. /\ queue' = Append(queue, cmd) /\ queue' \in Seq(Cmd) /\ Len(queue') = Len(queue) + 1
      /\ \A i \in 1..Len(queue) : queue'[i] = queue[i]
      /\ queue'[Len(queue) + 1].offset = next_offset
  BY <1>1 DEF AppendRecord, StoreInv, TypeOK, QueueType
<1>3. TypeOK'
  <2>1. QueueType'
    BY <1>2, StoreAssumption DEF StoreInv, TypeOK, QueueType, AppendRecord
  <2> QED
    BY <2>1, Zenon DEF StoreInv, TypeOK, BatchType, CounterType, OnceType, DiskType, AppendRecord
<1>4. LogInv' /\ SegInv'
  BY DEF StoreInv, LogInv, SegInv, AppendRecord
<1>5. BatchInv' /\ HandedInv' /\ ExitInv'
  BY Zenon DEF StoreInv, BatchInv, HandedInv, ExitInv, AppendRecord, Running
<1>6. QueueInv'
  <2>1. QueueStart' = QueueStart /\ QueueStart \in Nat
    BY DEF StoreInv, TypeOK, BatchType, DiskType, QueueStart, AppendRecord
  <2>2. Len(queue) \in Nat /\ next_offset = QueueStart + Len(queue)
    BY DEF StoreInv, TypeOK, QueueType, QueueInv, AppendRecord
  <2>3. \A i \in 1..Len(queue) : queue[i].offset = QueueStart + i - 1
    BY DEF StoreInv, QueueInv, AppendRecord
  <2>4. next_offset' = QueueStart + Len(queue')
    BY <1>2, <2>1, <2>2 DEF AppendRecord
  <2>5. \A i \in 1..Len(queue') : queue'[i].offset = QueueStart + i - 1
    BY <1>2, <2>1, <2>2, <2>3
  <2> QED
    BY <2>1, <2>4, <2>5 DEF QueueInv
<1>7. CallbackInv'
  BY DEF StoreInv, CallbackInv, AppendRecord
<1> QED
  BY <1>3, <1>4, <1>5, <1>6, <1>7 DEF StoreInv

\* The destructor only raises the flag.
LEMMA ShutdownInv == ASSUME StoreInv, Shutdown PROVE StoreInv'
<1> USE DEF queueVars, batchVars, memoryVars, onceVars, diskVars
<1>1. TypeOK'
  BY Zenon DEF StoreInv, TypeOK, QueueType, BatchType, CounterType, OnceType, DiskType, Shutdown
<1>2. LogInv' /\ SegInv' /\ CallbackInv'
  BY DEF StoreInv, LogInv, SegInv, CallbackInv, Shutdown
<1>3. BatchInv' /\ HandedInv' /\ ExitInv' /\ QueueInv'
  BY DEF StoreInv, BatchInv, HandedInv, ExitInv, QueueInv, QueueStart, Shutdown, Running
<1> QED
  BY <1>1, <1>2, <1>3 DEF StoreInv

\* A registration calls or stores the callback, by the side of the commit.
LEMMA RegisterInv ==
  ASSUME StoreInv, NEW c \in Callbacks, NEW o \in 0..(MaxOffset - 1), SetOnceCommitCallback(c, o)
  PROVE  StoreInv'
<1> DEFINE r == [cb |-> c, offset |-> o]
<1> USE DEF queueVars, batchVars, memoryVars, onceVars, diskVars
<1>1. o \in Nat /\ r \in OnceCallback /\ committed_offset \in Nat
  BY StoreAssumption DEF OnceCallback, StoreInv, TypeOK, CounterType
<1>2. LogInv' /\ SegInv'
  BY Zenon DEF StoreInv, LogInv, SegInv, SetOnceCommitCallback
<1>3. BatchInv' /\ HandedInv' /\ ExitInv' /\ QueueInv'
  BY Zenon DEF StoreInv, BatchInv, HandedInv, ExitInv, QueueInv, QueueStart, SetOnceCommitCallback,
         Running
<1>4. OnceType' /\ CallbackInv'
  <2>1. CASE o < committed_offset
    <3>1. called' = [called EXCEPT ![c] = Append(<<>>, o)] /\ UNCHANGED <<once_callbacks, to_call>>
      BY <2>1, Zenon DEF SetOnceCommitCallback, Unregistered
    <3>2. /\ called'[c] = <<o>>
          /\ \A d \in Callbacks \ {c} : called'[d] = called[d]
          /\ called' \in [Callbacks -> Seq(Nat)]
      BY <1>1, <3>1 DEF StoreInv, TypeOK, OnceType
    <3>3. /\ Len(called'[c]) = 1
          /\ \A i \in 1..Len(called'[c]) : called'[c][i] < committed_offset
      BY <2>1, <3>2
    <3>4. \A q \in once_callbacks \cup to_call : q.cb # c
      BY DEF SetOnceCommitCallback, Unregistered
    <3>5. OnceType'
      BY <3>1, <3>2 DEF StoreInv, TypeOK, OnceType
    <3>6. UNCHANGED <<io, committed_offset>>
      BY DEF SetOnceCommitCallback
    <3> QED
      BY <3>1, <3>2, <3>3, <3>4, <3>5, <3>6 DEF StoreInv, CallbackInv
  <2>2. CASE ~(o < committed_offset)
    <3>1. once_callbacks' = once_callbacks \cup {r} /\ UNCHANGED <<called, to_call>>
      BY <2>2 DEF SetOnceCommitCallback
    <3>2. r.cb = c /\ r.offset >= committed_offset
      BY <1>1, <2>2
    <3>3. called[c] = <<>> /\ \A q \in once_callbacks \cup to_call : q.cb # c
      BY DEF SetOnceCommitCallback, Unregistered
    <3>4. OnceType'
      BY <1>1, <3>1 DEF StoreInv, TypeOK, OnceType
    <3>5. UNCHANGED <<io, committed_offset>>
      BY DEF SetOnceCommitCallback
    <3> HIDE DEF r
    <3> QED
      BY <3>1, <3>2, <3>3, <3>4, <3>5 DEF StoreInv, CallbackInv
  <2> QED
    BY <2>1, <2>2
<1>5. TypeOK'
  BY <1>4 DEF StoreInv, TypeOK, QueueType, BatchType, CounterType, DiskType, SetOnceCommitCallback
<1> QED
  BY <1>2, <1>3, <1>4, <1>5 DEF StoreInv

\* take_batch moves the head of the queue to the end of the batch.
LEMMA PopInv == ASSUME StoreInv, PopRecord PROVE StoreInv'
<1> DEFINE cmd == Head(queue)
<1> USE DEF queueVars, batchVars, memoryVars, onceVars, diskVars
<1>1. /\ io \in {"take", "pop", "gather"} /\ io' \in {"pop", "gather", "write"}
      /\ UNCHANGED <<log, segs, synced, committed_offset, writer, handed, buffer, next_offset>>
      /\ UNCHANGED <<once_callbacks, to_call, called>>
  BY DEF PopRecord
<1>2. /\ cmd \in Cmd /\ cmd = queue[1] /\ Len(queue) \in Nat /\ Len(queue) >= 1
      /\ queue' \in Seq(Cmd) /\ Len(queue') = Len(queue) - 1
      /\ \A i \in 1..Len(queue') : queue'[i] = queue[i + 1]
  BY DEF PopRecord, StoreInv, TypeOK, QueueType
<1>3. /\ batch' \in Seq(Cmd) /\ Len(batch) \in Nat /\ Len(batch') = Len(batch) + 1
      /\ \A i \in 1..Len(batch) : batch'[i] = batch[i]
      /\ batch'[Len(batch) + 1] = cmd
  BY <1>2 DEF PopRecord, StoreInv, TypeOK, BatchType
<1>4. Len(log) \in Nat /\ QueueStart = Len(log) + Len(batch) /\ QueueStart' = Len(log) + Len(batch')
  BY <1>1 DEF StoreInv, TypeOK, DiskType, QueueStart
<1>5. TypeOK'
  <2>1. cmd.size \in Nat /\ RecordBytes(cmd) \in Nat
    BY <1>2, HeaderAssumption DEF Cmd, RecordBytes
  <2>2. QueueType'
    BY <1>2, <2>1 DEF StoreInv, TypeOK, QueueType, PopRecord
  <2>3. BatchType'
    BY <1>1, <1>3, <2>1 DEF StoreInv, TypeOK, BatchType, PopRecord
  <2> QED
    BY <2>2, <2>3, Zenon DEF StoreInv, TypeOK, CounterType, OnceType, DiskType, PopRecord
<1>6. LogInv' /\ SegInv' /\ CallbackInv' /\ HandedInv' /\ ExitInv'
  BY <1>1, Zenon DEF StoreInv, LogInv, SegInv, CallbackInv, HandedInv, ExitInv
<1>7. /\ \A i \in 1..Len(queue) : queue[i].offset = Len(log) + Len(batch) + i - 1
      /\ next_offset = Len(log) + Len(batch) + Len(queue)
  BY <1>1, <1>4 DEF StoreInv, QueueInv, Running
<1>8. QueueInv'
  <2>1. ASSUME NEW i \in 1..Len(queue')
        PROVE  queue'[i].offset = Len(log) + Len(batch') + i - 1
    <3>1. i \in Nat /\ i + 1 \in 1..Len(queue)
      BY <1>2
    <3>2. queue'[i].offset = Len(log) + Len(batch) + (i + 1) - 1
      BY <1>2, <1>7, <3>1, ZenonT(30)
    <3> QED
      BY <1>3, <1>4, <3>1, <3>2, SMTT(30)
  <2>2. next_offset' = Len(log) + Len(batch') + Len(queue')
    BY <1>1, <1>2, <1>3, <1>4, <1>7
  <2> QED
    BY <1>4, <2>1, <2>2 DEF QueueInv
<1>9. BatchInv'
  <2>1. committed_offset = Len(log) /\ buffer = <<>> /\ writer.next_offset = committed_offset
    BY <1>1, Zenon DEF StoreInv, BatchInv, Running
  <2>2. \A i \in 1..Len(batch) : batch[i].offset = Len(log) + i - 1
    BY <1>1 DEF StoreInv, BatchInv
  <2>3. ASSUME NEW i \in 1..Len(batch')
        PROVE  batch'[i].offset = Len(log) + i - 1
    <3>1. CASE i \in 1..Len(batch)
      BY <1>3, <2>2, <3>1
    <3>2. CASE i = Len(batch) + 1
      <4>1. queue[1].offset = Len(log) + Len(batch) + 1 - 1
        BY <1>2, <1>7
      <4> QED
        BY <1>2, <1>3, <1>4, <3>2, <4>1
    <3> QED
      BY <1>3, <3>1, <3>2
  <2> QED
    BY <1>1, <1>3, <2>1, <2>3 DEF BatchInv
<1> QED
  BY <1>5, <1>6, <1>8, <1>9 DEF StoreInv

\* The wait of take_batch ends: only the position of the thread changes.
LEMMA TimeoutInv == ASSUME StoreInv, GatherTimeout PROVE StoreInv'
<1> USE DEF queueVars, batchVars, memoryVars, onceVars, diskVars
<1>1. TypeOK'
  BY Zenon DEF StoreInv, TypeOK, QueueType, BatchType, CounterType, OnceType, DiskType, GatherTimeout
<1>2. LogInv' /\ SegInv' /\ CallbackInv' /\ HandedInv' /\ ExitInv'
  BY Zenon DEF StoreInv, LogInv, SegInv, CallbackInv, HandedInv, ExitInv, GatherTimeout
<1>3. BatchInv' /\ QueueInv'
  BY Zenon DEF StoreInv, BatchInv, QueueInv, QueueStart, GatherTimeout, Running
<1> QED
  BY <1>1, <1>2, <1>3 DEF StoreInv

\* The types of what is on disk, spelled out for the active segment.
LEMMA DiskFacts ==
  ASSUME DiskType, SegInv
  PROVE  /\ Len(log) \in Nat /\ Len(segs) \in Nat \ {0} /\ synced.log \in Nat /\ synced.idx \in Nat
         /\ segs[Active] \in Segment /\ segs[Active].base \in Nat /\ segs[Active].start \in Nat
         /\ segs[Active].idx \in Seq(IndexEntry) /\ Len(segs[Active].idx) \in Nat
<1>1. Len(segs) \in 1..Len(segs) /\ Len(segs) \in Nat \ {0} /\ Len(log) \in Nat
  BY DEF DiskType, SegInv
<1>2. segs[Len(segs)] \in Segment
  BY <1>1 DEF DiskType
<1> QED
  BY <1>1, <1>2, SMTT(30) DEF DiskType, Segment, Active

\* io_loop ends with everything in the log and the log flushed.
LEMMA ExitLoopInv == ASSUME StoreInv, ExitLoop PROVE StoreInv'
<1> USE DEF queueVars, batchVars, memoryVars, onceVars, diskVars
<1>1. /\ Len(segs) \in Nat /\ Len(log) \in Nat /\ segs[Len(segs)].start \in Nat
      /\ Len(segs[Len(segs)].idx) \in Nat /\ synced.log \in Nat
  BY DiskFacts DEF StoreInv, TypeOK, Active
<1>2. TypeOK'
  BY <1>1, Zenon DEF StoreInv, TypeOK, QueueType, BatchType, CounterType, OnceType, DiskType, ExitLoop, FlushActive,
         Active
<1>3. LogInv' /\ SegInv'
  <2>1. /\ io = "take" /\ UNCHANGED <<log, segs>>
        /\ synced'.log = Len(log) /\ synced'.idx = Len(segs[Len(segs)].idx)
    BY DEF ExitLoop, FlushActive, Active
  <2>2. \A i \in 1..Len(log) : log[i] # Torn
    BY <2>1 DEF StoreInv, LogInv
  <2>3. segs[Len(segs)].start <= Len(log)
    BY <1>1, SMTT(30) DEF StoreInv, SegInv
  <2> QED
    BY <1>1, <2>1, <2>2, <2>3 DEF StoreInv, LogInv, SegInv
<1>4. CallbackInv' /\ HandedInv' /\ ExitInv'
  BY <1>1, Zenon DEF StoreInv, CallbackInv, HandedInv, ExitInv, ExitLoop, FlushActive
<1>5. BatchInv' /\ QueueInv'
  BY <1>1, Zenon DEF StoreInv, BatchInv, QueueInv, QueueStart, ExitLoop, FlushActive, Running
<1> QED
  BY <1>2, <1>3, <1>4, <1>5 DEF StoreInv

\* Replacing the index of the active segment leaves the rest of segs alone.
LEMMA IdxUpdate ==
  ASSUME DiskType, SegInv, NEW x \in Seq(IndexEntry), NEW s, s = [segs EXCEPT ![Active].idx = x]
  PROVE  /\ s \in Seq(Segment) /\ Len(s) = Len(segs)
         /\ s[Len(segs)].base = segs[Len(segs)].base /\ s[Len(segs)].start = segs[Len(segs)].start
         /\ s[Len(segs)].idx = x
<1> DEFINE a == [segs[Active] EXCEPT !.idx = x]
<1>1. /\ Active \in 1..Len(segs) /\ segs[Active] \in Segment
      /\ segs \in Seq(Segment)
  BY DiskFacts DEF DiskType, Active
<1>2. a \in Segment /\ a.base = segs[Active].base /\ a.start = segs[Active].start /\ a.idx = x
  BY <1>1, ZenonT(30) DEF Segment
<1>3. s = [segs EXCEPT ![Active] = a]
  OBVIOUS
<1> HIDE DEF a
<1>4. s \in Seq(Segment) /\ Len(s) = Len(segs) /\ s[Active] = a
  BY <1>1, <1>2, <1>3, Replaced
<1> QED
  BY <1>2, <1>4 DEF Active

\* write_batch copies the next record of the batch into the buffer.
LEMMA SerializeInv == ASSUME StoreInv, SerializeRecord PROVE StoreInv'
<1> USE DEF queueVars, batchVars, memoryVars, onceVars, diskVars
<1> DEFINE cmd == batch[Len(buffer) + 1]
           entry == [offset |-> cmd.offset, pos |-> writer.bytes_written + buffer_bytes]
           rec == [offset |-> cmd.offset, val |-> cmd.val, size |-> cmd.size, pos |-> buffer_bytes]
<1>1. /\ batch \in Seq(Cmd) /\ buffer \in Seq(Rec) /\ Len(buffer) < Len(batch)
      /\ Len(buffer) \in Nat /\ Len(batch) \in Nat /\ io = "write"
  BY DEF StoreInv, TypeOK, BatchType, SerializeRecord
<1>2. cmd \in Cmd
  BY <1>1
<1>3. entry \in IndexEntry /\ rec \in Rec /\ rec.offset = cmd.offset /\ RecordBytes(cmd) \in Nat
  <2>1. cmd.offset \in Nat /\ cmd.val \in Values /\ cmd.size \in Nat
    BY <1>2 DEF Cmd
  <2>2. writer.bytes_written + buffer_bytes \in Nat /\ buffer_bytes \in Nat
    BY DEF StoreInv, TypeOK, BatchType, CounterType
  <2> HIDE DEF cmd
  <2>3. RecordBytes(cmd) \in Nat
    BY <2>1, HeaderAssumption DEF RecordBytes
  <2> QED
    BY <2>1, <2>2, <2>3, Zenon DEF Rec, IndexEntry
<1>4. /\ UNCHANGED <<queueVars, io, batch, batch_bytes, memoryVars, committed_offset>>
      /\ UNCHANGED <<records_since_flush, onceVars, handed, log, synced, fetch, crashes>>
  BY DEF SerializeRecord
<1>5. /\ buffer' = Append(buffer, rec) /\ buffer_bytes' = buffer_bytes + RecordBytes(cmd)
      /\ \/ segs' = segs
         \/ segs' = [segs EXCEPT ![Active].idx = Append(segs[Active].idx, entry)]
  BY Zenon DEF SerializeRecord
<1> HIDE DEF cmd, entry, rec
<1>6. /\ segs' \in Seq(Segment) /\ Len(segs') = Len(segs)
      /\ segs'[Len(segs)].base = segs[Len(segs)].base
      /\ segs'[Len(segs)].start = segs[Len(segs)].start
      /\ synced.idx <= Len(segs'[Len(segs)].idx)
  <2>1. CASE segs' = segs
    BY <2>1 DEF StoreInv, TypeOK, DiskType, SegInv
  <2>2. CASE segs' = [segs EXCEPT ![Active].idx = Append(segs[Active].idx, entry)]
    <3>1. /\ segs[Active].idx \in Seq(IndexEntry) /\ synced.idx \in Nat
          /\ Len(segs[Active].idx) \in Nat
      BY DiskFacts DEF StoreInv, TypeOK
    <3>2. /\ Append(segs[Active].idx, entry) \in Seq(IndexEntry)
          /\ Len(Append(segs[Active].idx, entry)) = Len(segs[Active].idx) + 1
      BY <1>3, <3>1
    <3>3. synced.idx <= Len(segs[Active].idx) + 1
      BY <3>1 DEF StoreInv, SegInv, Active
    <3> QED
      BY <2>2, <3>2, <3>3, IdxUpdate, ZenonT(30) DEF StoreInv, TypeOK
  <2> QED
    BY <1>5, <2>1, <2>2
<1>7. TypeOK'
  <2>1. DiskType'
    BY <1>4, <1>6, Zenon DEF StoreInv, TypeOK, DiskType
  <2>2. BatchType'
    BY <1>1, <1>3, <1>4, <1>5 DEF StoreInv, TypeOK, BatchType
  <2> QED
    BY <1>4, <2>1, <2>2, Zenon DEF StoreInv, TypeOK, QueueType, CounterType, OnceType
<1>8. LogInv' /\ SegInv'
  BY <1>4, <1>6, Zenon DEF StoreInv, LogInv, SegInv
<1>9. CallbackInv' /\ HandedInv' /\ ExitInv' /\ QueueInv'
  BY <1>4, Zenon DEF StoreInv, CallbackInv, HandedInv, ExitInv, QueueInv, QueueStart, Running
<1>10. BatchInv'
  <2>1. /\ Len(buffer') = Len(buffer) + 1
        /\ \A i \in 1..Len(buffer) : buffer'[i] = buffer[i]
        /\ buffer'[Len(buffer) + 1].offset = batch[Len(buffer) + 1].offset
    BY <1>1, <1>3, <1>5 DEF cmd
  <2>2. \A i \in 1..Len(buffer') : buffer'[i].offset = batch[i].offset
    <3> TAKE i \in 1..Len(buffer')
    <3>1. \A j \in 1..Len(buffer) : buffer[j].offset = batch[j].offset
      BY Zenon DEF StoreInv, BatchInv
    <3>2. Len(buffer) \in Nat
      BY DEF StoreInv, TypeOK, BatchType
    <3>3. CASE i = Len(buffer) + 1
      BY <2>1, <3>3
    <3>4. CASE i # Len(buffer) + 1
      <4>1. i \in 1..Len(buffer)
        BY <2>1, <3>2, <3>4
      <4> QED
        BY <2>1, <3>1, <4>1, Zenon
    <3> QED
      BY <3>3, <3>4
  <2> QED
    BY <1>1, <1>4, <2>1, <2>2 DEF StoreInv, BatchInv, Running
<1> QED
  BY <1>7, <1>8, <1>9, <1>10 DEF StoreInv

\* A run of whole records ends at a natural number of bytes.
LEMMA EndPositionType == ASSUME NEW f \in Seq(Rec) PROVE EndPosition(f) \in Nat
<1>1. CASE f = <<>>
  BY <1>1 DEF EndPosition
<1>2. CASE f # <<>>
  <2>1. f[Len(f)] \in Rec
    BY <1>2
  <2> QED
    BY <1>2, <2>1, HeaderAssumption DEF EndPosition, RecordBytes, Rec
<1> QED
  BY <1>1, <1>2

\* While the process is up, every record of the log is whole.
LEMMA WholeRecords ==
  ASSUME StoreInv, NEW m \in Nat, NEW n \in Nat, n <= Len(log),
         \A i \in 1..n : log[i] # Torn
  PROVE  /\ SubSeq(log, m + 1, n) \in Seq(Rec)
         /\ m <= n => Len(SubSeq(log, m + 1, n)) = n - m
         /\ \A i \in 1..(n - m) : SubSeq(log, m + 1, n)[i] = log[m + i]
<1>1. \A i \in 1..n : log[i] \in Rec
  BY DEF StoreInv, TypeOK, DiskType
<1>2. \A i \in (m + 1)..n : log[i] \in Rec
  BY <1>1
<1>3. log \in Seq(Rec \cup {Torn})
  BY DEF StoreInv, TypeOK, DiskType
<1> QED
  BY <1>2, <1>3, CutOut, SMTT(30)

\* The log write puts the whole batch behind the log.
LEMMA WriteLogInv == ASSUME StoreInv, WriteLog PROVE StoreInv' /\ KeepsFlushed
<1> USE DEF queueVars, batchVars, memoryVars, onceVars, diskVars
<1> DEFINE end == EndPosition(File(Active))
           written == [i \in DOMAIN buffer |-> [buffer[i] EXCEPT !.pos = @ + end]]
<1>1. /\ io = "write" /\ io' = "commit" /\ Len(buffer) = Len(batch) /\ log' = log \o written
      /\ UNCHANGED <<queueVars, batchVars, memoryVars, committed_offset, records_since_flush>>
      /\ UNCHANGED <<onceVars, handed, segs, synced, fetch, crashes>>
  BY Zenon DEF WriteLog
<1>2. /\ Len(log) \in Nat /\ log \in Seq(Rec \cup {Torn}) /\ buffer \in Seq(Rec)
      /\ Len(buffer) \in Nat /\ segs[Active].start \in Nat /\ segs[Active].start <= Len(log)
      /\ synced.log \in Nat
  BY DiskFacts, SMTT(30) DEF StoreInv, TypeOK, DiskType, BatchType, SegInv, Active
<1>3. \A i \in 1..Len(log) : log[i] # Torn /\ log[i].offset = i - 1
  BY <1>1, Zenon DEF StoreInv, LogInv
<1>4. end \in Nat
  <2>1. SubSeq(log, segs[Active].start + 1, Len(log)) \in Seq(Rec)
    BY <1>2, <1>3, WholeRecords
  <2>2. File(Active) = SubSeq(log, segs[Active].start + 1, Len(log))
    BY DEF File, Active
  <2> QED
    BY <2>1, <2>2, EndPositionType, ZenonT(30)
<1> HIDE DEF end
<1>5. \A i \in 1..Len(buffer) : [buffer[i] EXCEPT !.pos = @ + end] \in Rec
                                 /\ [buffer[i] EXCEPT !.pos = @ + end].offset = buffer[i].offset
  <2> TAKE i \in 1..Len(buffer)
  <2>1. buffer[i] \in Rec
    BY <1>2
  <2> QED
    BY <1>4, <2>1 DEF Rec
<1>6. /\ written \in Seq(Rec) /\ Len(written) = Len(buffer)
      /\ \A i \in 1..Len(buffer) : written[i].offset = buffer[i].offset /\ written[i] # Torn
  <2>1. DOMAIN buffer = 1..Len(buffer)
    BY <1>2
  <2>2. written = [i \in 1..Len(buffer) |-> [buffer[i] EXCEPT !.pos = @ + end]]
    BY <2>1
  <2> HIDE DEF written
  <2>3. \A i \in 1..Len(buffer) : written[i] \in Rec /\ written[i].offset = buffer[i].offset
    BY <1>5, <2>2, ZenonT(30)
  <2>4. written \in [1..Len(buffer) -> Rec]
    BY <2>2, <2>3
  <2>5. written \in Seq(Rec) /\ Len(written) = Len(buffer)
    BY <1>2, <2>4
  <2> QED
    BY <2>3, <2>5, TornAssumption
<1> HIDE DEF written
<1>7. /\ log' \in Seq(Rec \cup {Torn}) /\ Len(log') = Len(log) + Len(batch)
      /\ \A i \in 1..Len(log) : log'[i] = log[i]
      /\ \A i \in 1..Len(batch) : log'[Len(log) + i] = written[i]
  <2>1. written \in Seq(Rec \cup {Torn})
    BY <1>6, Widened
  <2>2. /\ log' \in Seq(Rec \cup {Torn}) /\ Len(log') = Len(log) + Len(written)
        /\ \A i \in 1..(Len(log) + Len(written)) :
             log'[i] = IF i <= Len(log) THEN log[i] ELSE written[i - Len(log)]
    BY <1>1, <1>2, <2>1, Concatenated, Zenon
  <2> QED
    BY <1>1, <1>2, <1>6, <2>2
<1>8. \A i \in 1..Len(batch) : batch[i].offset = Len(log) + i - 1 /\ buffer[i].offset = batch[i].offset
  BY <1>1, Zenon DEF StoreInv, BatchInv
<1>9. \A i \in 1..Len(log') : log'[i] # Torn /\ log'[i].offset = i - 1
  <2> TAKE i \in 1..Len(log')
  <2>1. CASE i \in 1..Len(log)
    BY <1>3, <1>7, <2>1
  <2>2. CASE i \notin 1..Len(log)
    <3>1. i - Len(log) \in 1..Len(batch) /\ i = Len(log) + (i - Len(log)) /\ i \in Nat
      BY <1>1, <1>2, <1>7, <2>2, SMTT(30)
    <3>2. /\ log'[i] = written[i - Len(log)]
          /\ written[i - Len(log)].offset = Len(log) + (i - Len(log)) - 1
          /\ written[i - Len(log)] # Torn
      BY <1>1, <1>6, <1>7, <1>8, <3>1, Zenon
    <3> QED
      BY <1>2, <3>1, <3>2, SMTT(30)
  <2> QED
    BY <2>1, <2>2
<1>10. TypeOK'
  BY <1>1, <1>7, Zenon DEF StoreInv, TypeOK, QueueType, BatchType, CounterType, OnceType, DiskType
<1>11. LogInv' /\ SegInv'
  <2>1. LogInv'
    BY <1>9 DEF LogInv
  <2>2. Len(log) <= Len(log')
    BY <1>2, <1>7 DEF StoreInv, TypeOK, BatchType
  <2>3. SegInv
    BY DEF StoreInv
  <2>4. SegInv'
    BY <1>1, <1>2, <1>7, <2>2, <2>3 DEF SegInv
  <2> QED
    BY <2>1, <2>4
<1>12. CallbackInv' /\ HandedInv' /\ ExitInv'
  BY <1>1, Zenon DEF StoreInv, CallbackInv, HandedInv, ExitInv
<1>13. BatchInv'
  <2>1. committed_offset = Len(log) /\ writer.next_offset = committed_offset /\ Len(batch) > 0
    BY <1>1, Zenon DEF StoreInv, BatchInv, Running
  <2>2. \A i \in 1..Len(batch) : batch[i].offset = Len(log') - Len(batch) + i - 1
    BY <1>1, <1>2, <1>7, <1>8, SMTT(30)
  <2>3. /\ Len(log') = committed_offset + Len(batch) /\ Len(buffer) = Len(batch)
        /\ \A i \in 1..Len(buffer) : buffer[i].offset = batch[i].offset
    BY <1>1, <1>2, <1>7, <1>8, <2>1, Zenon
  <2>4. /\ io' = "commit" /\ UNCHANGED <<batch, buffer, writer, committed_offset>>
    BY <1>1, SMTT(30)
  <2> QED
    BY <2>1, <2>2, <2>3, <2>4, SMTT(30) DEF BatchInv, Running
<1>14. QueueInv'
  <2>1. QueueStart = Len(log) + Len(batch) /\ QueueStart' = Len(log')
    BY <1>1, <1>2, <1>7, SMTT(30) DEF QueueStart
  <2> QED
    BY <1>1, <1>7, <2>1, Zenon DEF StoreInv, QueueInv, Running
<1>15. KeepsFlushed
  <2>1. synced.log <= Len(log)
    BY DEF StoreInv, SegInv
  <2> QED
    BY <1>1, <1>2, <1>7, <2>1 DEF KeepsFlushed
<1> QED
  BY <1>10, <1>11, <1>12, <1>13, <1>14, <1>15 DEF StoreInv

-----------------------------------------------------------------------------
(* From the commit on *)

\* The commit catches up with the log.
LEMMA CommitInv == ASSUME StoreInv, Commit PROVE StoreInv'
<1> USE DEF queueVars, batchVars, memoryVars, onceVars, diskVars
<1>1. /\ io = "commit" /\ io' = "fire" /\ committed_offset' = batch[Len(batch)].offset + 1
      /\ UNCHANGED <<queueVars, batchVars, records_since_flush, onceVars, handed, diskVars, crashes>>
  BY SMTT(30) DEF Commit
<1>2. /\ Len(batch) \in Nat /\ Len(batch) > 0 /\ Len(log) \in Nat /\ committed_offset \in Nat
      /\ committed_offset + Len(batch) = Len(log) /\ Len(buffer) <= Len(batch)
      /\ writer.next_offset = committed_offset
      /\ \A i \in 1..Len(batch) : batch[i].offset = Len(log) - Len(batch) + i - 1
  BY <1>1 DEF StoreInv, TypeOK, BatchType, CounterType, DiskType, BatchInv, Running
<1>3. committed_offset' = Len(log) /\ committed_offset < committed_offset'
  BY <1>1, <1>2
<1>4. writer' \in [base : Nat, next_offset : Nat, bytes_written : Nat]
      /\ writer'.next_offset = Len(log)
  <2>1. writer \in [base : Nat, next_offset : Nat, bytes_written : Nat] /\ buffer_bytes \in Nat
    BY DEF StoreInv, TypeOK, CounterType, BatchType
  <2>2. writer' = [writer EXCEPT !.bytes_written = writer.bytes_written + buffer_bytes,
                                 !.next_offset = writer.next_offset + Len(batch)]
    BY DEF Commit
  <2>3. /\ writer' \in [base : Nat, next_offset : Nat, bytes_written : Nat]
        /\ writer'.next_offset = writer.next_offset + Len(batch)
    <3>1. /\ writer.bytes_written + buffer_bytes \in Nat
          /\ writer.next_offset + Len(batch) \in Nat
      BY <1>2, <2>1
    <3> QED
      BY <2>1, <2>2, <3>1, ZenonT(30)
  <2> QED
    BY <1>2, <2>3
<1>5. TypeOK'
  BY <1>1, <1>2, <1>3, <1>4, Zenon DEF StoreInv, TypeOK, QueueType, BatchType, CounterType, OnceType, DiskType
<1>6. LogInv' /\ SegInv'
  BY <1>1, Zenon DEF StoreInv, LogInv, SegInv
<1>7. CallbackInv'
  <2>1. to_call = {}
    BY <1>1, Zenon DEF StoreInv, CallbackInv
  <2>2. ASSUME NEW c \in Callbacks, NEW i \in 1..Len(called[c])
        PROVE  called[c][i] < committed_offset'
    <3>1. called[c] \in Seq(Nat)
      BY DEF StoreInv, TypeOK, OnceType
    <3>2. called[c][i] \in Nat /\ called[c][i] < committed_offset
      BY <3>1, SMTT(30) DEF StoreInv, CallbackInv
    <3> QED
      BY <1>2, <1>3, <3>2
  <2> QED
    BY <1>1, <2>1, <2>2, Zenon DEF StoreInv, CallbackInv
<1>8. HandedInv' /\ ExitInv'
  BY <1>1, <1>2, <1>3, ZenonT(30) DEF StoreInv, HandedInv, ExitInv
<1>9. BatchInv' /\ QueueInv'
  BY <1>1, <1>2, <1>3, <1>4, Zenon DEF StoreInv, BatchInv, QueueInv, QueueStart, Running
<1> QED
  BY <1>5, <1>6, <1>7, <1>8, <1>9 DEF StoreInv

\* Collecting splits the waiting callbacks at the commit.
LEMMA CollectInv == ASSUME StoreInv, CollectCallbacks PROVE StoreInv'
<1> USE DEF queueVars, batchVars, memoryVars, onceVars, diskVars
<1>1. /\ io = "fire" /\ io' = "callback"
      /\ to_call' = {r \in once_callbacks : r.offset < committed_offset}
      /\ once_callbacks' = {r \in once_callbacks : r.offset >= committed_offset}
      /\ UNCHANGED <<queueVars, batchVars, memoryVars, committed_offset, records_since_flush>>
      /\ UNCHANGED <<called, handed, diskVars, crashes>>
  BY Zenon DEF CollectCallbacks
<1>2. TypeOK'
  BY <1>1, Zenon DEF StoreInv, TypeOK, QueueType, BatchType, CounterType, OnceType, DiskType
<1>3. LogInv' /\ SegInv' /\ HandedInv' /\ ExitInv'
  BY <1>1, Zenon DEF StoreInv, LogInv, SegInv, HandedInv, ExitInv
<1>4. CallbackInv'
  BY <1>1, Zenon DEF StoreInv, CallbackInv
<1>5. BatchInv' /\ QueueInv'
  BY <1>1, Zenon DEF StoreInv, BatchInv, QueueInv, QueueStart, Running
<1> QED
  BY <1>2, <1>3, <1>4, <1>5, Zenon DEF StoreInv

\* The collected callbacks are called; each of them for the first time.
LEMMA RunCallbacksInv == ASSUME StoreInv, RunCallbacks PROVE StoreInv'
<1> USE DEF queueVars, batchVars, memoryVars, onceVars, diskVars
<1>1. /\ io = "callback" /\ io' = "policy" /\ to_call' = {}
      /\ handed' = batch[Len(batch)].offset + 1
      /\ UNCHANGED <<queueVars, batchVars, memoryVars, committed_offset, records_since_flush>>
      /\ UNCHANGED <<once_callbacks, diskVars, crashes>>
  BY Zenon DEF RunCallbacks
<1>2. /\ Len(batch) \in Nat /\ Len(batch) > 0 /\ Len(log) \in Nat /\ committed_offset = Len(log)
      /\ \A i \in 1..Len(batch) : batch[i].offset = Len(log) - Len(batch) + i - 1
  <2>1. batch \in Seq(Cmd) /\ log \in Seq(Rec \cup {Torn})
    BY Zenon DEF StoreInv, TypeOK, BatchType, DiskType
  <2>2. Len(batch) \in Nat /\ Len(log) \in Nat
    BY <2>1
  <2> QED
    BY <1>1, <2>2, Zenon DEF StoreInv, BatchInv
<1>3. handed' = committed_offset
  BY <1>1, <1>2, SMTT(30)
<1>4. ASSUME NEW c \in Callbacks
      PROVE  /\ called'[c] \in Seq(Nat) /\ Len(called'[c]) <= 1
             /\ called'[c] # <<>> => \A r \in once_callbacks : r.cb # c
             /\ \A i \in 1..Len(called'[c]) : called'[c][i] < committed_offset
  <2>1. called[c] \in Seq(Nat)
    BY SMTT(30) DEF StoreInv, TypeOK, OnceType
  <2>2. CASE \E r \in to_call : r.cb = c
    <3>1. PICK q : q = CHOOSE r \in to_call : r.cb = c
      OBVIOUS
    <3>2. q \in to_call /\ q.cb = c
      BY <2>2, <3>1
    <3>3. called[c] = <<>> /\ q.offset < committed_offset /\ q.offset \in Nat
      BY <3>2 DEF StoreInv, TypeOK, OnceType, OnceCallback, CallbackInv
    <3>4. called'[c] = <<q.offset>>
      <4>1. called'[c] = Append(called[c], q.offset)
        BY <2>2, <3>1, Zenon DEF RunCallbacks
      <4> QED
        BY <3>3, <4>1
    <3>5. \A r \in once_callbacks : r.cb # c
      <4> SUFFICES ASSUME NEW r \in once_callbacks, r.cb = c PROVE FALSE
        OBVIOUS
      <4>1. r = q
        BY <3>2, SMTT(30) DEF StoreInv, CallbackInv
      <4>2. r.offset >= committed_offset
        BY <1>1, Zenon DEF StoreInv, CallbackInv
      <4> QED
        BY <1>2, <3>3, <4>1, <4>2
    <3> QED
      BY <3>3, <3>4, <3>5
  <2>3. CASE ~ \E r \in to_call : r.cb = c
    <3>1. called'[c] = called[c]
      BY <2>3, Zenon DEF RunCallbacks
    <3> QED
      BY <2>1, <3>1, Zenon DEF StoreInv, CallbackInv
  <2> QED
    BY <2>2, <2>3, Zenon
<1>5. called' \in [Callbacks -> Seq(Nat)]
  <2>1. called' = [c \in Callbacks |-> called'[c]]
    BY Zenon DEF RunCallbacks
  <2> QED
    BY <1>4, <2>1, Zenon
<1>6. TypeOK'
  BY <1>1, <1>2, <1>3, <1>5, Zenon DEF StoreInv, TypeOK, QueueType, BatchType, CounterType, OnceType, DiskType
<1>7. LogInv' /\ SegInv' /\ HandedInv' /\ ExitInv'
  BY <1>1, <1>3, Zenon DEF StoreInv, LogInv, SegInv, HandedInv, ExitInv
<1>8. CallbackInv'
  BY <1>1, <1>4, Zenon DEF StoreInv, CallbackInv
<1>9. BatchInv' /\ QueueInv'
  BY <1>1, Zenon DEF StoreInv, BatchInv, QueueInv, QueueStart, Running
<1> QED
  BY <1>6, <1>7, <1>8, <1>9 DEF StoreInv

\* What a flush, alone or with a new segment, leaves of LogInv and SegInv.
LEMMA FlushFacts ==
  ASSUME StoreInv, Running
  PROVE  /\ \A i \in 1..Len(log) : log[i] # Torn /\ log[i].offset = i - 1
         /\ segs[Len(segs)].start <= Len(log) /\ segs[Len(segs)].base = segs[Len(segs)].start
         /\ Len(log) \in Nat /\ Len(segs) \in Nat \ {0} /\ Len(segs[Len(segs)].idx) \in Nat
         /\ synced.log \in Nat /\ synced.log <= Len(log)
<1>1. /\ Len(log) \in Nat /\ Len(segs) \in Nat \ {0} /\ Len(segs[Len(segs)].idx) \in Nat
      /\ synced.log \in Nat /\ segs[Len(segs)].start \in Nat
  BY DiskFacts, Zenon DEF StoreInv, TypeOK, Active
<1>2. \A i \in 1..Len(log) : log[i] # Torn /\ log[i].offset = i - 1
  BY Zenon DEF StoreInv, LogInv, Running
<1>3. /\ segs[Len(segs)].base = segs[Len(segs)].start /\ segs[Len(segs)].start <= synced.log
      /\ synced.log <= Len(log)
  BY Zenon DEF StoreInv, SegInv
<1> QED
  BY <1>1, <1>2, <1>3

\* A flush of the active segment.
LEMMA FlushInv ==
  ASSUME StoreInv, Running, UNCHANGED <<log, segs>>,
         synced' = [log |-> Len(log), idx |-> Len(segs[Len(segs)].idx)]
  PROVE  LogInv' /\ SegInv' /\ synced' \in [log : Nat, idx : Nat]
<1>1. /\ \A i \in 1..Len(log) : log[i] # Torn /\ log[i].offset = i - 1
      /\ segs[Len(segs)].start <= Len(log) /\ segs[Len(segs)].base = segs[Len(segs)].start
      /\ Len(log) \in Nat /\ Len(segs) >= 1 /\ Len(segs[Len(segs)].idx) \in Nat
  BY FlushFacts
<1>2. synced'.log = Len(log) /\ synced'.idx = Len(segs[Len(segs)].idx)
  OBVIOUS
<1>3. Len(log) <= Len(log) /\ Len(segs[Len(segs)].idx) <= Len(segs[Len(segs)].idx)
  BY <1>1
<1>4. LogInv'
  BY <1>1, Zenon DEF LogInv
<1>5. SegInv'
  BY <1>1, <1>2, <1>3, Zenon DEF SegInv
<1> QED
  BY <1>1, <1>4, <1>5, Zenon

\* Sealing flushes the full segment.
LEMMA SealInv == ASSUME StoreInv, SealSegment PROVE StoreInv'
<1> USE DEF queueVars, batchVars, memoryVars, onceVars, diskVars
<1>1. /\ io = "policy" /\ io' = "open_segment"
      /\ synced' = [log |-> Len(log), idx |-> Len(segs[Len(segs)].idx)]
      /\ UNCHANGED <<queueVars, batchVars, writer, committed_offset, records_since_flush>>
      /\ UNCHANGED <<onceVars, handed, log, segs, crashes>>
  BY Zenon DEF SealSegment, FlushActive, Active
<1>2. TypeOK'
  BY <1>1, FlushFacts, Zenon DEF StoreInv, TypeOK, QueueType, BatchType, CounterType, OnceType, DiskType,
                          Running
<1>3. LogInv' /\ SegInv'
  BY <1>1, FlushInv, Zenon DEF Running
<1>4. CallbackInv' /\ HandedInv' /\ ExitInv' /\ BatchInv' /\ QueueInv'
  BY <1>1, ZenonT(30) DEF StoreInv, CallbackInv, HandedInv, ExitInv, BatchInv, QueueInv, QueueStart, Running
<1> QED
  BY <1>2, <1>3, <1>4, Zenon DEF StoreInv

\* The end of a batch forgets the batch.
LEMMA BatchDoneInv ==
  ASSUME StoreInv, BatchDone, io \in {"policy", "open_segment"}, io' = "take",
         writer'.next_offset = writer.next_offset,
         UNCHANGED <<queue, next_offset, committed_offset, log, handed, onceVars>>
  PROVE  BatchInv' /\ QueueInv' /\ CallbackInv' /\ HandedInv' /\ ExitInv' /\ BatchType'
<1> USE DEF BatchDone, onceVars
<1>1. Len(batch') = 0 /\ Len(buffer') = 0 /\ Len(log) \in Nat
  <2>1. batch' = <<>> /\ buffer' = <<>> /\ log \in Seq(Rec \cup {Torn})
    BY Zenon DEF StoreInv, TypeOK, DiskType
  <2> QED
    BY <2>1
<1>2. QueueStart = Len(log) /\ QueueStart' = Len(log)
  BY <1>1, SMTT(30) DEF QueueStart
<1>3. QueueInv'
  BY <1>2, Zenon DEF StoreInv, QueueInv, Running
<1>4. BatchInv'
  <2>1. writer.next_offset = committed_offset /\ committed_offset = Len(log)
    BY Zenon DEF StoreInv, BatchInv, Running
  <2> QED
    BY <1>1, <2>1, SMTT(30) DEF BatchInv
<1>5. CallbackInv' /\ HandedInv' /\ ExitInv'
  BY Zenon DEF StoreInv, CallbackInv, HandedInv, ExitInv
<1>6. BatchType'
  BY DEF BatchType
<1> QED
  BY <1>3, <1>4, <1>5, <1>6, Zenon

\* The new segment is empty and named after the end of the log.
LEMMA OpenSegmentInv == ASSUME StoreInv, OpenSegment PROVE StoreInv'
<1> USE DEF queueVars, batchVars, memoryVars, onceVars, diskVars
<1> DEFINE new == [base |-> writer.next_offset, start |-> Len(log), idx |-> <<>>]
<1>1. /\ io = "open_segment" /\ io' = "take" /\ BatchDone /\ segs' = Append(segs, new)
      /\ writer' = [base |-> writer.next_offset, next_offset |-> writer.next_offset,
                    bytes_written |-> 0]
      /\ synced' = [synced EXCEPT !.idx = 0] /\ records_since_flush' = 0
      /\ UNCHANGED <<queueVars, committed_offset, onceVars, handed, log, crashes>>
  BY DEF OpenSegment, NewWriter
<1>2. BatchInv' /\ QueueInv' /\ CallbackInv' /\ HandedInv' /\ ExitInv' /\ BatchType'
  BY <1>1, BatchDoneInv
<1>3. writer.next_offset = Len(log) /\ synced.log = Len(log)
  BY <1>1 DEF StoreInv, BatchInv, ExitInv, Running
<1>4. /\ segs \in Seq(Segment) /\ Len(segs) \in Nat /\ Len(log) \in Nat
      /\ synced \in [log : Nat, idx : Nat]
  BY SMTT(30) DEF StoreInv, TypeOK, DiskType
<1>5. new \in Segment
  BY <1>3, <1>4 DEF Segment
<1>6. /\ segs' \in Seq(Segment) /\ Len(segs') = Len(segs) + 1 /\ segs'[Len(segs')] = new
  BY <1>1, <1>4, <1>5
<1>7. synced' \in [log : Nat, idx : Nat] /\ synced'.log = synced.log /\ synced'.idx = 0
  BY <1>1, <1>4, Zenon
<1>8. TypeOK'
  BY <1>1, <1>2, <1>3, <1>4, <1>6, <1>7, ZenonT(30) DEF StoreInv, TypeOK, QueueType, CounterType, OnceType, DiskType
<1>9. SegInv'
  BY <1>1, <1>3, <1>4, <1>6, <1>7 DEF SegInv
<1>10. LogInv'
  BY <1>1, FlushFacts DEF LogInv, Running
<1> QED
  BY <1>2, <1>8, <1>9, <1>10, Zenon DEF StoreInv

\* A batch that does not fill the segment ends with or without a flush.
LEMMA FlushPolicyInv == ASSUME StoreInv, FlushPolicy PROVE StoreInv'
<1> USE DEF queueVars, batchVars, memoryVars, onceVars, diskVars
<1>1. /\ io = "policy" /\ io' = "take" /\ BatchDone
      /\ UNCHANGED <<queueVars, memoryVars, committed_offset, onceVars, handed, log, segs, crashes>>
  BY Zenon DEF FlushPolicy
<1>2. \/ records_since_flush' = 0 /\ synced' = [log |-> Len(log), idx |-> Len(segs[Len(segs)].idx)]
      \/ records_since_flush' = records_since_flush + Len(batch) /\ synced' = synced
  BY Zenon DEF FlushPolicy, FlushActive, Active
<1>3. BatchInv' /\ QueueInv' /\ CallbackInv' /\ HandedInv' /\ ExitInv' /\ BatchType'
  BY <1>1, BatchDoneInv, Zenon
<1>4. records_since_flush' \in Nat
  BY <1>2, SMTT(30) DEF StoreInv, TypeOK, CounterType, BatchType
<1>5. synced' \in [log : Nat, idx : Nat]
  BY <1>1, <1>2, FlushInv, Zenon DEF StoreInv, TypeOK, DiskType, Running
<1>6. TypeOK'
  BY <1>1, <1>3, <1>4, <1>5, Zenon DEF StoreInv, TypeOK, QueueType, CounterType, OnceType, DiskType
<1>7. LogInv'
  BY <1>1, FlushFacts, Zenon DEF LogInv, Running
<1>8. SegInv'
  BY <1>1, <1>2, FlushInv, Zenon DEF StoreInv, SegInv, Running
<1> QED
  BY <1>3, <1>6, <1>7, <1>8 DEF StoreInv

\* A fetch changes nothing that the invariant speaks of.
LEMMA FetchInv ==
  ASSUME StoreInv,
         UNCHANGED <<queueVars, io, batchVars, writer, committed_offset, records_since_flush,
                     onceVars, handed, diskVars, crashes>>
  PROVE  StoreInv'
<1> USE DEF queueVars, batchVars, onceVars, diskVars
<1>1. TypeOK'
  BY Zenon DEF StoreInv, TypeOK, QueueType, BatchType, CounterType, OnceType, DiskType
<1>2. LogInv' /\ SegInv' /\ CallbackInv' /\ HandedInv' /\ ExitInv'
  BY ZenonT(30) DEF StoreInv, LogInv, SegInv, CallbackInv, HandedInv, ExitInv
<1>3. BatchInv' /\ QueueInv'
  BY Zenon DEF StoreInv, BatchInv, QueueInv, QueueStart, Running
<1> QED
  BY <1>1, <1>2, <1>3, Zenon DEF StoreInv

-----------------------------------------------------------------------------
(* The crash and the recovery *)

\* A crash keeps a prefix of the log that reaches the flushed mark, and at most
\* one partial record behind it.
LEMMA CrashLog ==
  ASSUME "zeros" \notin TailFaults, StoreInv, Crash
  PROVE  \E k \in synced.log..Len(log) :
           /\ log' \in Seq(Rec \cup {Torn}) /\ Len(log') \in {k, k + 1}
           /\ \A i \in 1..k : log'[i] = log[i]
           /\ \A i \in 1..Len(log') : i > k => i = k + 1 /\ i = Len(log') /\ log'[i] = Torn
<1>1. PICK k \in synced.log..Len(log) : \E tail \in CrashTail(k) : log' = SubSeq(log, 1, k) \o tail
  BY ZenonT(30) DEF Crash
<1>2. PICK tail \in CrashTail(k) : log' = SubSeq(log, 1, k) \o tail
  BY <1>1, ZenonT(30)
<1>3. tail = <<>> \/ tail = <<Torn>>
  BY DEF CrashTail
<1>5. log \in Seq(Rec \cup {Torn}) /\ Len(log) \in Nat /\ k \in Nat /\ k <= Len(log)
  BY DiskFacts DEF StoreInv, TypeOK, DiskType
<1>7. /\ SubSeq(log, 1, k) \in Seq(Rec \cup {Torn}) /\ Len(SubSeq(log, 1, k)) = k
      /\ \A i \in 1..k : SubSeq(log, 1, k)[i] = log[i]
  BY <1>5
<1>8. /\ log' \in Seq(Rec \cup {Torn}) /\ Len(log') \in {k, k + 1}
      /\ \A i \in 1..k : log'[i] = log[i]
      /\ \A i \in 1..Len(log') : i > k => i = k + 1 /\ i = Len(log') /\ log'[i] = Torn
  <2>1. CASE tail = <<>>
    <3>1. log' = SubSeq(log, 1, k)
      BY <1>2, <1>7, <2>1, NothingBehind, Zenon
    <3> QED
      BY <1>5, <1>7, <3>1
  <2>2. CASE tail = <<Torn>>
    <3>1. tail \in Seq(Rec \cup {Torn}) /\ Len(tail) = 1 /\ tail[1] = Torn
      BY <2>2
    <3>2. /\ log' \in Seq(Rec \cup {Torn}) /\ Len(log') = k + 1
          /\ \A i \in 1..(k + 1) : log'[i] = IF i <= k THEN SubSeq(log, 1, k)[i] ELSE tail[i - k]
      <4> DEFINE kept == SubSeq(log, 1, k)
      <4>1. kept \in Seq(Rec \cup {Torn}) /\ Len(kept) = k /\ log' = kept \o tail
        BY <1>2, <1>7, Zenon
      <4> HIDE DEF kept
      <4>2. /\ kept \o tail \in Seq(Rec \cup {Torn}) /\ Len(kept \o tail) = Len(kept) + Len(tail)
            /\ \A i \in 1..(Len(kept) + Len(tail)) :
                 (kept \o tail)[i] = IF i <= Len(kept) THEN kept[i] ELSE tail[i - Len(kept)]
        BY <3>1, <4>1, Concatenated, ZenonT(30)
      <4> QED
        BY <3>1, <4>1, <4>2, Zenon DEF kept
    <3>3. log'[k + 1] = Torn
      <4>1. k + 1 \in 1..(k + 1) /\ ~(k + 1 <= k) /\ (k + 1) - k = 1
        BY <1>5
      <4> QED
        BY <3>1, <3>2, <4>1, Zenon
    <3>4. \A i \in 1..k : log'[i] = log[i]
      BY <1>5, <1>7, <3>2
    <3> QED
      BY <1>5, <3>2, <3>3, <3>4
  <2> QED
    BY <1>3, <2>1, <2>2, Zenon
<1> QED
  BY <1>1, <1>8, ZenonT(30)

\* The process is down, and what was flushed is still there.
LEMMA CrashInv == ASSUME "zeros" \notin TailFaults, StoreInv, Crash PROVE StoreInv' /\ KeepsFlushed
<1>1. PICK k \in synced.log..Len(log) :
        /\ log' \in Seq(Rec \cup {Torn}) /\ Len(log') \in {k, k + 1}
        /\ \A i \in 1..k : log'[i] = log[i]
        /\ \A i \in 1..Len(log') : i > k => i = k + 1 /\ i = Len(log') /\ log'[i] = Torn
  BY CrashLog, Zenon
<1>2. PICK j \in synced.idx..Len(segs[Active].idx) :
        segs' = [segs EXCEPT ![Active].idx = SubSeq(segs[Active].idx, 1, j)]
  BY ZenonT(30) DEF Crash
<1>4. /\ io # "down" /\ io' = "down" /\ crashes' = crashes + 1 /\ crashes < MaxCrashes
      /\ synced' = synced
      /\ queue' = <<>> /\ pending_bytes' = 0 /\ shutdown' = FALSE /\ next_offset' = 0
      /\ batch' = <<>> /\ batch_bytes' = 0 /\ buffer' = <<>> /\ buffer_bytes' = 0
      /\ writer' = [base |-> 0, next_offset |-> 0, bytes_written |-> 0]
      /\ committed_offset' = 0 /\ records_since_flush' = 0 /\ handed' = 0
      /\ once_callbacks' = {} /\ to_call' = {} /\ called' = [c \in Callbacks |-> <<>>]
  BY DEF Crash, FreshMemory, NewWriter
<1>5. /\ log \in Seq(Rec \cup {Torn}) /\ Len(log) \in Nat /\ k \in Nat /\ k <= Len(log)
      /\ synced \in [log : Nat, idx : Nat] /\ synced.log \in Nat /\ synced.log <= k
      /\ synced.idx \in Nat /\ j \in Nat /\ synced.idx <= j /\ j <= Len(segs[Active].idx)
      /\ segs[Active].idx \in Seq(IndexEntry)
  BY DiskFacts DEF StoreInv, TypeOK, DiskType
<1>6. \A i \in 1..Len(log) : log[i] # Torn /\ log[i].offset = i - 1
  BY <1>4, Zenon DEF StoreInv, LogInv
<1>9. LogInv'
  <2>1. ASSUME NEW i \in 1..Len(log')
        PROVE  /\ log'[i] # Torn => log'[i].offset = i - 1
               /\ log'[i] = Torn => i = Len(log') /\ i > synced.log
    <3>1. CASE i \in 1..k
      <4>1. i \in 1..Len(log)
        BY <1>5, <3>1
      <4> QED
        BY <1>6, <1>1, <3>1, <4>1, Zenon
    <3>2. CASE i \notin 1..k
      <4>1. i > k /\ i \in Nat
        BY <1>5, <1>1, <3>2
      <4> QED
        BY <1>5, <1>1, <4>1
    <3> QED
      BY <3>1, <3>2, Zenon
  <2> QED
    BY <1>4, <2>1, Zenon DEF LogInv
<1>10. /\ SubSeq(segs[Active].idx, 1, j) \in Seq(IndexEntry)
       /\ Len(SubSeq(segs[Active].idx, 1, j)) = j
  BY <1>5
<1>11. /\ segs' \in Seq(Segment) /\ Len(segs') = Len(segs)
       /\ segs'[Len(segs)].base = segs[Len(segs)].base
       /\ segs'[Len(segs)].start = segs[Len(segs)].start
       /\ Len(segs'[Len(segs)].idx) = j
  BY <1>2, <1>10, IdxUpdate, ZenonT(30) DEF StoreInv, TypeOK
<1>12. SegInv'
  <2>1. synced'.log <= Len(log') /\ synced'.idx <= j
    BY <1>4, <1>5, <1>1
  <2>2. /\ Len(segs) >= 1 /\ segs[Len(segs)].base = segs[Len(segs)].start
        /\ segs[Len(segs)].start <= synced.log
    BY Zenon DEF StoreInv, SegInv
  <2> QED
    BY <1>4, <1>11, <2>1, <2>2, Zenon DEF SegInv
<1>13. TypeOK'
  <2>1. DiskType'
    BY <1>4, <1>5, <1>1, <1>11, Zenon DEF DiskType
  <2>2. CounterType'
    BY <1>4, StoreAssumption DEF StoreInv, TypeOK, CounterType
  <2>3. QueueType' /\ BatchType' /\ OnceType'
    BY <1>4 DEF QueueType, BatchType, OnceType
  <2>4. shutdown' \in BOOLEAN
    BY <1>4, ZenonT(30)
  <2> QED
    BY <2>1, <2>2, <2>3, <2>4 DEF TypeOK
<1>14. BatchInv' /\ QueueInv' /\ HandedInv' /\ ExitInv'
  <2>1. /\ io' = "down" /\ batch' = <<>> /\ buffer' = <<>> /\ queue' = <<>>
        /\ committed_offset' = 0 /\ handed' = 0 /\ next_offset' = 0
    BY <1>4, Zenon
  <2>2. BatchInv'
    <3>1. Len(buffer') <= Len(batch') /\ \A i \in 1..Len(buffer') : FALSE
      BY <2>1
    <3> QED
      BY <2>1, <3>1, Zenon DEF BatchInv, Running
  <2>3. QueueInv' /\ HandedInv' /\ ExitInv'
    BY <2>1, Zenon DEF QueueInv, HandedInv, ExitInv, Running
  <2> QED
    BY <2>2, <2>3
<1>15. CallbackInv'
  BY <1>4 DEF CallbackInv
<1>16. KeepsFlushed
  <2>1. synced.log <= Len(log') /\ \A i \in 1..synced.log : i \in 1..k
    BY <1>5, <1>1
  <2>2. \A i \in 1..synced.log : log'[i] = log[i]
    BY <1>1, <2>1, Zenon
  <2>3. synced.log <= synced'.log
    BY <1>4, <1>5
  <2> QED
    BY <2>1, <2>2, <2>3, Zenon DEF KeepsFlushed
<1> QED
  BY <1>9, <1>12, <1>13, <1>14, <1>15, <1>16, Zenon DEF StoreInv

\* scan_valid returns the records of the active file up to some point m of the
\* log, behind the flushed mark, and recovery resumes at the offset m.
LEMMA RecoverFacts ==
  ASSUME StoreInv
  PROVE  \E m \in synced.log..Len(log) :
           /\ Recovered \in Seq(Rec) /\ segs[Active].start + Len(Recovered) = m
           /\ \A i \in 1..m : log[i] # Torn
           /\ m = Len(log) \/ (m + 1 = Len(log) /\ log[m + 1] = Torn)
           /\ RecoveredNextOffset = m
<1> DEFINE start == segs[Active].start
           f == File(Active)
<1>1. /\ log \in Seq(Rec \cup {Torn}) /\ Len(log) \in Nat /\ start \in Nat /\ start <= synced.log
      /\ synced.log \in Nat /\ synced.log <= Len(log) /\ segs[Active].base = start
  BY DiskFacts, Zenon DEF StoreInv, TypeOK, DiskType, SegInv, Active
<1>2. f = SubSeq(log, start + 1, Len(log))
  BY DEF File, Active
<1> HIDE DEF start, f
<1>3. /\ f \in Seq(Rec \cup {Torn}) /\ Len(f) = Len(log) - start /\ Len(f) \in Nat
      /\ \A i \in 1..Len(f) : f[i] = log[start + i]
  <2>1. start <= Len(log)
    BY <1>1
  <2>2. /\ SubSeq(log, start + 1, Len(log)) \in Seq(Rec \cup {Torn})
        /\ Len(SubSeq(log, start + 1, Len(log))) = Len(log) - start
        /\ \A i \in 1..(Len(log) - start) : SubSeq(log, start + 1, Len(log))[i] = log[start + i]
    BY <1>1, <2>1, SuffixFacts, Zenon
  <2>3. Len(log) - start \in Nat
    BY <1>1, <2>1
  <2> QED
    BY <1>2, <2>2, <2>3, Zenon
<1>4. ASSUME NEW m \in synced.log..Len(log), \A i \in 1..m : log[i] # Torn,
             Recovered = SubSeq(f, 1, m - start)
      PROVE  /\ Recovered \in Seq(Rec) /\ start + Len(Recovered) = m
             /\ RecoveredNextOffset = m
  <2>1. m \in Nat /\ start <= m /\ m - start <= Len(f) /\ m - start \in Nat
    BY <1>1, <1>3
  <2>2. \A i \in 1..(m - start) : f[i] \in Rec /\ f[i] = log[start + i]
    <3> TAKE i \in 1..(m - start)
    <3>1. start + i \in 1..m /\ i \in 1..Len(f)
      BY <1>1, <2>1
    <3> QED
      BY <1>3, <1>4, <3>1
  <2>3. /\ Recovered \in Seq(Rec) /\ Len(Recovered) = m - start
        /\ \A i \in 1..(m - start) : Recovered[i] = log[start + i]
    BY <1>4, <2>1, <2>2
  <2>4. CASE Recovered = <<>>
    BY <1>1, <2>1, <2>3, <2>4 DEF RecoveredNextOffset
  <2>5. CASE Recovered # <<>>
    <3>1. m - start \in 1..(m - start) /\ start + (m - start) = m /\ m \in 1..Len(log)
      BY <1>1, <2>1, <2>3, <2>5
    <3>2. Recovered[Len(Recovered)] = log[m] /\ log[m].offset = m - 1
      BY <1>1, <1>4, <2>1, <2>3, <3>1, Zenon DEF StoreInv, LogInv
    <3> QED
      BY <1>1, <2>1, <2>3, <2>5, <3>2 DEF RecoveredNextOffset
  <2> QED
    BY <1>1, <2>1, <2>3, <2>4, <2>5, Zenon
<1>5. CASE \A i \in 1..Len(log) : log[i] # Torn
  <2>1. \A i \in 1..Len(f) : f[i] # Torn
    BY <1>1, <1>3, <1>5
  <2>2. Recovered = f
    BY <1>3, <2>1 DEF Recovered, ScanValid, f
  <2>3. f = SubSeq(f, 1, Len(log) - start)
    BY <1>3, WholeCut, Zenon
  <2> QED
    <3>1. Len(log) \in synced.log..Len(log)
      BY <1>1
    <3>2. /\ Recovered \in Seq(Rec) /\ start + Len(Recovered) = Len(log)
          /\ RecoveredNextOffset = Len(log)
      BY <1>4, <1>5, <2>2, <2>3, <3>1
    <3> QED
      BY <1>5, <3>1, <3>2, Zenon DEF start
<1>6. CASE \E i \in 1..Len(log) : log[i] = Torn
  <2> DEFINE torn == {i \in DOMAIN f : f[i] = Torn}
  <2>1. log[Len(log)] = Torn /\ Len(log) > synced.log
    BY <1>6, Zenon DEF StoreInv, LogInv
  <2>2. \A i \in 1..(Len(log) - 1) : log[i] # Torn
    BY <1>1 DEF StoreInv, LogInv
  <2>3. DOMAIN f = 1..Len(f) /\ Len(f) \in 1..Len(f)
    BY <1>1, <1>3, <2>1
  <2>4. torn = {Len(f)}
    <3>1. f[Len(f)] = Torn
      BY <1>1, <1>3, <2>1, <2>3
    <3>2. \A i \in 1..Len(f) : f[i] = Torn => i = Len(f)
      <4> TAKE i \in 1..Len(f)
      <4>1. start + i \in 1..Len(log) /\ (i # Len(f) => start + i \in 1..(Len(log) - 1))
        <5>1. Len(f) = Len(log) - start /\ Len(log) \in Nat /\ start \in Nat /\ Len(f) \in Nat
          BY <1>1, <1>3, Zenon
        <5> QED
          BY <5>1
      <4> QED
        BY <1>3, <2>2, <4>1, Zenon
    <3> QED
      BY <2>3, <3>1, <3>2, ZenonT(30)
  <2>5. Recovered = SubSeq(f, 1, (CHOOSE i \in torn : \A j \in torn : i <= j) - 1)
    BY <2>4, ZenonT(30) DEF Recovered, ScanValid, f
  <2> HIDE DEF torn
  <2>6. (CHOOSE i \in torn : \A j \in torn : i <= j) = Len(f)
    BY <2>3, <2>4
  <2>7. Recovered = SubSeq(f, 1, (Len(log) - 1) - start) /\ Len(log) - 1 \in synced.log..Len(log)
    <3>1. Len(f) - 1 = (Len(log) - 1) - start /\ Len(log) - 1 \in synced.log..Len(log)
      BY <1>1, <1>3, <2>1
    <3> QED
      BY <2>5, <2>6, <3>1, ZenonT(30)
  <2>8. (Len(log) - 1) + 1 = Len(log)
    BY <1>1
  <2> QED
    BY <1>4, <2>1, <2>2, <2>7, <2>8, ZenonT(30) DEF start
<1> QED
  BY <1>5, <1>6, Zenon

\* The constructor finds the log, the commit and the numbering in agreement.
LEMMA OpenInv == ASSUME StoreInv, Open PROVE StoreInv' /\ KeepsFlushed
<1>1. PICK m \in synced.log..Len(log) :
        /\ Recovered \in Seq(Rec) /\ segs[Active].start + Len(Recovered) = m
        /\ \A i \in 1..m : log[i] # Torn
        /\ RecoveredNextOffset = m
  BY RecoverFacts, Zenon
<1>2. /\ io' = "take" /\ UNCHANGED <<segs, synced, crashes>>
      /\ log' = SubSeq(log, 1, m)
      /\ queue' = <<>> /\ pending_bytes' = 0 /\ shutdown' = FALSE /\ next_offset' = m
      /\ batch' = <<>> /\ batch_bytes' = 0 /\ buffer' = <<>> /\ buffer_bytes' = 0
      /\ writer' = [base |-> segs[Active].base, next_offset |-> m,
                    bytes_written |-> EndPosition(Recovered)]
      /\ committed_offset' = m /\ records_since_flush' = 0 /\ handed' = m
      /\ once_callbacks' = {} /\ to_call' = {} /\ called' = [c \in Callbacks |-> <<>>]
  BY <1>1, Zenon DEF Open, FreshMemory, NewWriter
<1>3. /\ log \in Seq(Rec \cup {Torn}) /\ Len(log) \in Nat /\ m \in Nat /\ m <= Len(log)
      /\ synced.log \in Nat /\ synced.log <= m /\ segs[Active].base \in Nat
      /\ EndPosition(Recovered) \in Nat
  <2>1. EndPosition(Recovered) \in Nat
    BY <1>1, EndPositionType, Zenon
  <2>2. /\ log \in Seq(Rec \cup {Torn}) /\ Len(log) \in Nat /\ synced.log \in Nat
        /\ segs[Active].base \in Nat
    BY DiskFacts, Zenon DEF StoreInv, TypeOK, DiskType
  <2>3. m \in Nat /\ m <= Len(log) /\ synced.log <= m
    BY <2>2, SMTT(30)
  <2> QED
    BY <2>1, <2>2, <2>3, Zenon
<1>4. /\ log' \in Seq(Rec \cup {Torn}) /\ Len(log') = m
      /\ \A i \in 1..m : log'[i] = log[i]
  <2>1. /\ SubSeq(log, 1, m) \in Seq(Rec \cup {Torn}) /\ Len(SubSeq(log, 1, m)) = m
        /\ \A i \in 1..m : SubSeq(log, 1, m)[i] = log[i]
    BY <1>3, PrefixFacts, Zenon
  <2> QED
    BY <1>2, <2>1, Zenon
<1>5. LogInv'
  <2>1. \A i \in 1..m : log[i] # Torn /\ log[i].offset = i - 1
    <3> TAKE i \in 1..m
    <3>1. i \in 1..Len(log)
      BY <1>3
    <3> QED
      BY <1>1, <3>1, Zenon DEF StoreInv, LogInv
  <2> QED
    BY <1>4, <2>1, Zenon DEF LogInv
<1>6. SegInv'
  BY <1>2, <1>3, <1>4, Zenon DEF StoreInv, SegInv
<1>7. TypeOK'
  <2>1. DiskType'
    BY <1>2, <1>4, Zenon DEF StoreInv, TypeOK, DiskType
  <2>2. CounterType'
    BY <1>2, <1>3, Zenon DEF StoreInv, TypeOK, CounterType
  <2>3. QueueType' /\ BatchType' /\ OnceType'
    <3>1. QueueType'
      <4>1. queue' = <<>> /\ pending_bytes' = 0 /\ next_offset' = m /\ m \in Nat
        BY <1>2, <1>3, Zenon
      <4> QED
        BY <4>1 DEF QueueType
    <3>2. BatchType'
      <4>1. io' = "take" /\ batch' = <<>> /\ batch_bytes' = 0 /\ buffer' = <<>> /\ buffer_bytes' = 0
        BY <1>2, Zenon
      <4> QED
        BY <4>1 DEF BatchType
    <3>3. OnceType'
      <4>1. once_callbacks' = {} /\ to_call' = {} /\ called' = [c \in Callbacks |-> <<>>]
        BY <1>2, Zenon
      <4> QED
        BY <4>1 DEF OnceType
    <3> QED
      BY <3>1, <3>2, <3>3
  <2>4. shutdown' \in BOOLEAN
    BY <1>2, ZenonT(30)
  <2> QED
    BY <2>1, <2>2, <2>3, <2>4, Zenon DEF TypeOK
<1>8. BatchInv' /\ QueueInv' /\ HandedInv' /\ ExitInv'
  <2>1. /\ io' = "take" /\ batch' = <<>> /\ buffer' = <<>> /\ queue' = <<>>
        /\ writer'.next_offset = m /\ committed_offset' = m /\ handed' = m /\ next_offset' = m
        /\ Len(log') = m /\ m \in Nat
    BY <1>2, <1>3, <1>4, Zenon
  <2>2. BatchInv'
    BY <2>1 DEF BatchInv, Running
  <2>3. QueueInv'
    BY <2>1 DEF QueueInv, QueueStart
  <2> QED
    BY <2>1, <2>2, <2>3, Zenon DEF HandedInv, ExitInv
<1>9. CallbackInv'
  BY <1>2 DEF CallbackInv
<1>10. KeepsFlushed
  <2>1. synced.log <= Len(log') /\ synced.log <= synced'.log /\ synced.log <= m
    <3>1. synced' = synced /\ Len(log') = m /\ synced.log \in Nat /\ synced.log <= m
      BY <1>2, <1>3, <1>4, Zenon
    <3> QED
      BY <3>1
  <2>2. \A i \in 1..synced.log : i \in 1..m
    BY <1>3, <2>1
  <2>3. \A i \in 1..synced.log : log'[i] = log[i]
    BY <1>4, <2>2, Zenon
  <2> QED
    BY <2>1, <2>3, Zenon DEF KeepsFlushed
<1> QED
  BY <1>5, <1>6, <1>7, <1>8, <1>9, <1>10, Zenon DEF StoreInv

\* A step that leaves the log alone and flushes at most what is in it.
LEMMA KeepsFlushedIfLogKept ==
  ASSUME StoreInv, log' = log, synced'.log \in {synced.log, Len(log)}
  PROVE  KeepsFlushed
<1>1. Len(log) \in Nat /\ synced.log \in Nat /\ synced.log <= Len(log)
  BY DiskFacts, Zenon DEF StoreInv, TypeOK, SegInv
<1>2. synced.log <= Len(log') /\ synced.log <= synced'.log
  BY <1>1
<1> QED
  BY <1>2, Zenon DEF KeepsFlushed

\* Every step of the store preserves the invariant and the flushed records, a
\* crash if it leaves no zeroed blocks.
LEMMA StepInv ==
  ASSUME Crash => "zeros" \notin TailFaults, StoreInv, [Next]_vars
  PROVE  StoreInv' /\ KeepsFlushed
<1> USE DEF queueVars, batchVars, memoryVars, onceVars, diskVars
<1>1. CASE UNCHANGED vars
  <2>1. log' = log /\ synced'.log \in {synced.log, Len(log)}
    BY <1>1, Zenon DEF vars
  <2> QED
    BY <1>1, <2>1, FetchInv, KeepsFlushedIfLogKept, Zenon DEF vars
<1>2. ASSUME NEW v \in Values, NEW s \in Sizes, AppendRecord(v, s)
      PROVE  StoreInv' /\ KeepsFlushed
  <2>1. log' = log /\ synced'.log \in {synced.log, Len(log)}
    BY <1>2, Zenon DEF AppendRecord
  <2> QED
    BY <1>2, <2>1, AppendInv, KeepsFlushedIfLogKept, Zenon
<1>3. ASSUME NEW c \in Callbacks, NEW o \in 0..(MaxOffset - 1), SetOnceCommitCallback(c, o)
      PROVE  StoreInv' /\ KeepsFlushed
  <2>1. log' = log /\ synced'.log \in {synced.log, Len(log)}
    BY <1>3, Zenon DEF SetOnceCommitCallback
  <2> QED
    BY <1>3, <2>1, RegisterInv, KeepsFlushedIfLogKept, Zenon
<1>4. ASSUME NEW c \in Consumers, NEW o \in 0..(MaxOffset - 1), NEW n \in FetchSizes,
             FetchLocate(c, o, n)
      PROVE  StoreInv' /\ KeepsFlushed
  <2>1. log' = log /\ synced'.log = synced.log /\ StoreInv'
    BY <1>4, FetchInv, Zenon DEF FetchLocate
  <2> QED
    BY <2>1, KeepsFlushedIfLogKept, Zenon
<1>5. ASSUME NEW c \in Consumers, FetchRead(c)
      PROVE  StoreInv' /\ KeepsFlushed
  <2>1. log' = log /\ synced'.log = synced.log /\ StoreInv'
    BY <1>5, FetchInv, Zenon DEF FetchRead
  <2> QED
    BY <2>1, KeepsFlushedIfLogKept, Zenon
<1>6. CASE Shutdown
  <2>1. log' = log /\ synced'.log \in {synced.log, Len(log)}
    BY <1>6, Zenon DEF Shutdown
  <2> QED
    BY <1>6, <2>1, ShutdownInv, KeepsFlushedIfLogKept, Zenon
<1>7. CASE PopRecord
  <2>1. log' = log /\ synced'.log \in {synced.log, Len(log)}
    BY <1>7, Zenon DEF PopRecord
  <2> QED
    BY <1>7, <2>1, PopInv, KeepsFlushedIfLogKept, Zenon
<1>8. CASE GatherTimeout
  <2>1. log' = log /\ synced'.log \in {synced.log, Len(log)}
    BY <1>8, Zenon DEF GatherTimeout
  <2> QED
    BY <1>8, <2>1, TimeoutInv, KeepsFlushedIfLogKept, Zenon
<1>9. CASE ExitLoop
  <2>1. log' = log /\ synced'.log \in {synced.log, Len(log)}
    BY <1>9, Zenon DEF ExitLoop, FlushActive
  <2> QED
    BY <1>9, <2>1, ExitLoopInv, KeepsFlushedIfLogKept, Zenon
<1>10. CASE SerializeRecord
  <2>1. log' = log /\ synced'.log \in {synced.log, Len(log)}
    BY <1>10, Zenon DEF SerializeRecord
  <2> QED
    BY <1>10, <2>1, SerializeInv, KeepsFlushedIfLogKept, Zenon
<1>11. CASE WriteLog
  BY <1>11, WriteLogInv
<1>12. CASE Commit
  <2>1. log' = log /\ synced'.log \in {synced.log, Len(log)}
    BY <1>12, Zenon DEF Commit
  <2> QED
    BY <1>12, <2>1, CommitInv, KeepsFlushedIfLogKept, Zenon
<1>13. CASE CollectCallbacks
  <2>1. log' = log /\ synced'.log \in {synced.log, Len(log)}
    BY <1>13, Zenon DEF CollectCallbacks
  <2> QED
    BY <1>13, <2>1, CollectInv, KeepsFlushedIfLogKept, Zenon
<1>14. CASE RunCallbacks
  <2>1. log' = log /\ synced'.log \in {synced.log, Len(log)}
    BY <1>14, Zenon DEF RunCallbacks
  <2> QED
    BY <1>14, <2>1, RunCallbacksInv, KeepsFlushedIfLogKept, Zenon
<1>15. CASE SealSegment
  <2>1. log' = log /\ synced'.log \in {synced.log, Len(log)}
    BY <1>15, Zenon DEF SealSegment, FlushActive
  <2> QED
    BY <1>15, <2>1, SealInv, KeepsFlushedIfLogKept, Zenon
<1>16. CASE OpenSegment
  <2>1. synced'.log = synced.log
    BY <1>16 DEF OpenSegment, StoreInv, TypeOK, DiskType
  <2> QED
    BY <1>16, <2>1, OpenSegmentInv, KeepsFlushedIfLogKept DEF OpenSegment
<1>17. CASE FlushPolicy
  <2>1. log' = log /\ synced'.log \in {synced.log, Len(log)}
    BY <1>17 DEF FlushPolicy, FlushActive
  <2> QED
    BY <1>17, <2>1, FlushPolicyInv, KeepsFlushedIfLogKept
<1>18. CASE Open
  BY <1>18, OpenInv
<1>19. CASE Crash
  BY <1>19, CrashInv
<1> QED
  BY ZenonT(30), <1>1, <1>2, <1>3, <1>4, <1>5, <1>6, <1>7, <1>8, <1>9, <1>10, <1>11, <1>12, <1>13, <1>14,
     <1>15, <1>16, <1>17, <1>18, <1>19 DEF Next, IoStep, ClientStep

==============================================================================
