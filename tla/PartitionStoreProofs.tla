------------------------ MODULE PartitionStoreProofs ------------------------
(***************************************************************************)
(* Theorems about PartitionStore: that the safety properties and the       *)
(* refinement of CommitLog follow from StoreInv, whose induction is in     *)
(* PartitionStoreSteps.  FetchSound is in FetchProofs.                     *)
(***************************************************************************)
EXTENDS PartitionStoreSteps, TLAPS

-----------------------------------------------------------------------------
(* The theorems *)

\* StoreInv holds in every reachable state, for any constants, unless a crash
\* may leave zeroed blocks.
THEOREM StoreInvariant ==
  ASSUME "zeros" \notin TailFaults
  PROVE  Spec => []StoreInv
<1>1. StoreInv /\ [Next]_vars => StoreInv'
  BY StepInv
<1> QED
  BY <1>1, InitInv, PTL DEF Spec

\* Every variable keeps its type.
THEOREM TypeCorrect ==
  ASSUME "zeros" \notin TailFaults
  PROVE  Spec => []TypeOK
<1>1. StoreInv => TypeOK
  BY DEF StoreInv
<1> QED
  BY <1>1, StoreInvariant, PTL

\* Log, batch and queue hold the offsets 0, 1, 2, ... without gap or duplicate,
\* through batching, rotation, crash and recovery.
THEOREM OffsetsAreContiguous ==
  ASSUME "zeros" \notin TailFaults
  PROVE  Spec => []OffsetsContiguous
<1>1. StoreInv => OffsetsContiguous
  <2> SUFFICES ASSUME StoreInv, Running
               PROVE  /\ \A i \in DOMAIN log : log[i].offset = i - 1
                      /\ \A i \in DOMAIN Pending : Pending[i].offset = Len(log) + i - 1
                      /\ next_offset = Len(log) + Len(Pending)
    BY DEF OffsetsContiguous
  <2> DEFINE b == IF io \in {"take", "pop", "gather", "write"} THEN batch ELSE <<>>
  <2>1. /\ log \in Seq(Rec \cup {Torn}) /\ queue \in Seq(Cmd) /\ b \in Seq(Cmd)
        /\ Len(log) \in Nat /\ Len(queue) \in Nat /\ Len(b) \in Nat
    BY DEF StoreInv, TypeOK, DiskType, QueueType, BatchType
  <2>2. \A i \in DOMAIN log : log[i].offset = i - 1
    BY <2>1, SMTT(30) DEF StoreInv, LogInv, Running
  <2>3. QueueStart = Len(log) + Len(b)
    BY SMTT(30) DEF QueueStart
  <2>4. \A i \in 1..Len(b) : b[i].offset = Len(log) + i - 1
    BY SMTT(30) DEF StoreInv, BatchInv
  <2>5. /\ \A i \in 1..Len(queue) : queue[i].offset = Len(log) + Len(b) + i - 1
        /\ next_offset = Len(log) + Len(b) + Len(queue)
    BY <2>3 DEF StoreInv, QueueInv
  <2>6. Pending = b \o queue
    BY DEF Pending
  <2> HIDE DEF b
  <2>7. /\ Pending \in Seq(Cmd) /\ Len(Pending) = Len(b) + Len(queue)
        /\ \A i \in 1..(Len(b) + Len(queue)) :
             Pending[i] = IF i <= Len(b) THEN b[i] ELSE queue[i - Len(b)]
    BY <2>1, <2>6, Concatenated
  <2>8. ASSUME NEW i \in DOMAIN Pending PROVE Pending[i].offset = Len(log) + i - 1
    <3>1. i \in 1..(Len(b) + Len(queue)) /\ i \in Nat
      BY <2>7
    <3>2. CASE i <= Len(b)
      BY <2>1, <2>4, <2>7, <3>1, <3>2
    <3>3. CASE ~(i <= Len(b))
      <4>1. i - Len(b) \in 1..Len(queue) /\ Pending[i] = queue[i - Len(b)]
        BY <2>1, <2>7, <3>1, <3>3, SMTT(30)
      <4>2. Pending[i].offset = Len(log) + Len(b) + (i - Len(b)) - 1
        BY <2>5, <4>1, Zenon
      <4> QED
        BY <2>1, <3>1, <4>2
    <3> QED
      BY <3>2, <3>3
  <2>9. next_offset = Len(log) + Len(Pending)
    BY <2>1, <2>5, <2>7
  <2> QED
    BY <2>2, <2>8, <2>9
<1> QED
  BY <1>1, StoreInvariant, PTL

\* A one-shot callback is called at most once, and only after its commit.
THEOREM CallbacksCalledOnce ==
  ASSUME "zeros" \notin TailFaults
  PROVE  Spec => []CallbackOnceAfterCommit
<1>1. StoreInv => CallbackOnceAfterCommit
  <2> SUFFICES ASSUME StoreInv, NEW c \in Callbacks
               PROVE  Len(called[c]) <= 1 /\ \A i \in DOMAIN called[c] : called[c][i] < committed_offset
    BY DEF CallbackOnceAfterCommit
  <2>1. called[c] \in Seq(Nat)
    BY DEF StoreInv, TypeOK, OnceType
  <2>2. DOMAIN called[c] = 1..Len(called[c])
    BY <2>1
  <2> QED
    BY <2>2 DEF StoreInv, CallbackInv
<1> QED
  BY <1>1, StoreInvariant, PTL

\* No callback for a committed offset is left waiting.
THEOREM NoCallbackIsLost ==
  ASSUME "zeros" \notin TailFaults
  PROVE  Spec => []NoLostCallback
<1>1. StoreInv => NoLostCallback
  BY DEF StoreInv, CallbackInv, NoLostCallback
<1> QED
  BY <1>1, StoreInvariant, PTL

\* on_commit_cb_ receives every committed record exactly once, in order.
THEOREM CommitCallbackIsGapless ==
  ASSUME "zeros" \notin TailFaults
  PROVE  Spec => []CommitCallbackGapless
<1>1. StoreInv => CommitCallbackGapless
  <2> SUFFICES ASSUME StoreInv, io = "callback" PROVE batch[1].offset = handed
    BY SMTT(30) DEF CommitCallbackGapless, StoreInv, HandedInv
  <2>1. /\ Len(batch) \in Nat /\ Len(batch) > 0 /\ Len(log) \in Nat /\ handed \in Nat
        /\ handed + Len(batch) = Len(log)
    BY SMTT(30) DEF StoreInv, TypeOK, BatchType, DiskType, CounterType, BatchInv, HandedInv
  <2>2. batch[1].offset = Len(log) - Len(batch) + 1 - 1
    BY <2>1, SMTT(30) DEF StoreInv, BatchInv
  <2> QED
    BY <2>1, <2>2
<1> QED
  BY <1>1, StoreInvariant, PTL

\* When the destructor returns, nothing accepted is pending or unflushed.
THEOREM ShutdownIsClean ==
  ASSUME "zeros" \notin TailFaults
  PROVE  Spec => []ShutdownDrains
<1>1. StoreInv => ShutdownDrains
  <2> SUFFICES ASSUME StoreInv, io = "exited" PROVE ShutdownDrains
    BY SMTT(30) DEF ShutdownDrains
  <2>1. /\ queue = <<>> /\ batch = <<>> /\ committed_offset = Len(log) /\ synced.log = Len(log)
        /\ Len(log) \in Nat
    BY DEF StoreInv, BatchInv, ExitInv, TypeOK, DiskType
  <2>2. next_offset = Len(log)
    BY <2>1 DEF StoreInv, QueueInv, QueueStart
  <2>3. \A r \in once_callbacks : r.offset >= committed_offset
    BY DEF StoreInv, CallbackInv
  <2> QED
    BY <2>1, <2>2, <2>3 DEF ShutdownDrains
<1> QED
  BY <1>1, StoreInvariant, PTL

\* No step loses or changes a flushed record.
THEOREM FlushedIsNeverLost ==
  ASSUME "zeros" \notin TailFaults
  PROVE  Spec => FlushedNeverLost
<1>1. StoreInv /\ [Next]_vars => [KeepsFlushed]_vars
  BY StepInv
<1> QED
  BY <1>1, StoreInvariant, PTL DEF Spec, FlushedNeverLost

-----------------------------------------------------------------------------
(* The bytes of the queue *)

\* AddUpTo with counts that grow, which is what survives a pop: the count of what is
\* left is the old count less the first record's.
Adds(s, total) ==
  \E sum \in [0..Len(s) -> 0..total] :
    /\ sum[0] = 0 /\ sum[Len(s)] = total
    /\ \A i \in 1..Len(s) : sum[i] = sum[i - 1] + s[i].size
    /\ \A i, j \in 0..Len(s) : i <= j => sum[i] <= sum[j]

AccountInv == Adds(queue, pending_bytes) /\ pending_bytes \in 0..max_pending_bytes /\ Len(queue) <= queue_capacity

\* append adds the size of the record.
LEMMA AddsAppend ==
  ASSUME NEW s \in Seq(Cmd), NEW e \in Cmd, NEW t \in Nat, Adds(s, t)
  PROVE  Adds(Append(s, e), t + e.size)
<1>1. PICK n \in Nat : n = Len(s)
  OBVIOUS
<1>2. PICK sum \in [0..n -> 0..t] :
        /\ sum[0] = 0 /\ sum[n] = t
        /\ \A i \in 1..n : sum[i] = sum[i - 1] + s[i].size
        /\ \A i, j \in 0..n : i <= j => sum[i] <= sum[j]
  BY <1>1, Zenon DEF Adds
<1>3. PICK z \in Nat : z = e.size
  BY DEF Cmd
<1>4. /\ Len(Append(s, e)) = n + 1 /\ Append(s, e)[n + 1] = e
      /\ \A i \in 1..n : Append(s, e)[i] = s[i]
  BY <1>1
<1> DEFINE new == [i \in 0..(n + 1) |-> IF i = n + 1 THEN t + z ELSE sum[i]]
<1>5. new \in [0..(n + 1) -> 0..(t + z)]
  BY <1>2
<1>6. new[0] = 0 /\ new[n + 1] = t + z
  BY <1>2
<1>7. ASSUME NEW i \in 1..(n + 1) PROVE new[i] = new[i - 1] + Append(s, e)[i].size
  BY <1>2, <1>3, <1>4
<1>8. ASSUME NEW i \in 0..(n + 1), NEW j \in 0..(n + 1), i <= j PROVE new[i] <= new[j]
  <2>1. CASE j = n + 1
    BY <1>2, <2>1
  <2>2. CASE j # n + 1
    <3>1. i \in 0..n /\ j \in 0..n /\ new[i] = sum[i] /\ new[j] = sum[j]
      BY <1>8, <2>2
    <3> QED
      BY <1>2, <1>8, <3>1, Zenon
  <2> QED
    BY <2>1, <2>2
<1> HIDE DEF new
<1> QED
  BY <1>3, <1>4, <1>5, <1>6, <1>7, <1>8, Zenon DEF Adds

\* take_batch subtracts that of the first record, which is never more than the total.
LEMMA AddsTail ==
  ASSUME NEW s \in Seq(Cmd), s # <<>>, NEW t \in Nat, Adds(s, t)
  PROVE  t - Head(s).size \in 0..t /\ Adds(Tail(s), t - Head(s).size)
<1>1. PICK n \in Nat : n + 1 = Len(s)
  <2>1. Len(s) \in Nat /\ Len(s) # 0
    OBVIOUS
  <2>2. Len(s) - 1 \in Nat /\ (Len(s) - 1) + 1 = Len(s)
    BY <2>1
  <2> QED
    BY <2>2, Zenon
<1>2. PICK sum \in [0..(n + 1) -> 0..t] :
        /\ sum[0] = 0 /\ sum[n + 1] = t
        /\ \A i \in 1..(n + 1) : sum[i] = sum[i - 1] + s[i].size
        /\ \A i, j \in 0..(n + 1) : i <= j => sum[i] <= sum[j]
  BY <1>1, Zenon DEF Adds
<1>3. Head(s) = s[1] /\ s[1] \in Cmd
  OBVIOUS
<1>4. PICK z \in Nat : z = Head(s).size /\ z = s[1].size
  BY <1>3, Zenon DEF Cmd
<1>5. Len(Tail(s)) = n /\ \A i \in 1..n : Tail(s)[i] = s[i + 1]
  BY <1>1
<1>6. sum[1] = z /\ z <= t /\ \A i \in 0..n : z <= sum[i + 1]
  BY <1>2, <1>4
<1> DEFINE new == [i \in 0..n |-> sum[i + 1] - z]
<1>7. new \in [0..n -> 0..(t - z)]
  BY <1>2, <1>6
<1>8. new[0] = 0 /\ new[n] = t - z
  BY <1>2, <1>6
<1>9. ASSUME NEW i \in 1..n PROVE new[i] = new[i - 1] + Tail(s)[i].size
  <2>1. i + 1 \in 1..(n + 1) /\ i - 1 \in 0..n /\ (i - 1) + 1 = i /\ (i + 1) - 1 = i
    OBVIOUS
  <2>2. sum[i + 1] = sum[i] + s[i + 1].size
    BY <1>2, <2>1, Zenon
  <2>a. i + 1 \in 1..Len(s)
    BY <1>1
  <2>b. s[i + 1] \in Cmd
    BY <2>a
  <2>3. s[i + 1].size \in Nat
    BY <2>b, Zenon DEF Cmd
  <2>4. new[i] = sum[i + 1] - z /\ new[i - 1] = sum[i] - z
    BY <2>1
  <2>5. sum[i] \in Nat
    BY <1>2
  <2>6. Tail(s)[i].size = s[i + 1].size
    BY <1>5, Zenon
  <2> HIDE DEF new
  <2>7. \A x, y \in Nat : (x + y) - z = (x - z) + y
    OBVIOUS
  <2> QED
    <3>1. (sum[i] + s[i + 1].size) - z = (sum[i] - z) + s[i + 1].size
      BY <2>3, <2>5, <2>7, Zenon
    <3> QED
      BY <2>2, <2>4, <2>6, <3>1, Zenon
<1>10. ASSUME NEW i \in 0..n, NEW j \in 0..n, i <= j PROVE new[i] <= new[j]
  <2>1. sum[i + 1] <= sum[j + 1] /\ sum[i + 1] \in Nat /\ sum[j + 1] \in Nat
    BY <1>2, <1>10
  <2> QED
    BY <2>1
<1> HIDE DEF new
<1>11. Adds(Tail(s), t - z)
  BY <1>5, <1>7, <1>8, <1>9, <1>10, Zenon DEF Adds
<1>12. t - z \in 0..t
  BY <1>6
<1> QED
  BY <1>4, <1>11, <1>12, Zenon

\* An empty queue holds nothing.
LEMMA AddsNothing == Adds(<<>>, 0)
<1> DEFINE sum == [i \in 0..0 |-> 0]
<1>1. Len(<<>>) = 0 /\ sum \in [0..0 -> 0..0] /\ sum[0] = 0
  OBVIOUS
<1>2. \A i \in 0..0 : i = 0
  OBVIOUS
<1> HIDE DEF sum
<1>3. \A i \in 1..0 : FALSE
  OBVIOUS
<1>4. \A i, j \in 0..0 : sum[i] <= sum[j]
  BY <1>1, <1>2
<1> QED
  BY <1>1, <1>3, <1>4, Zenon DEF Adds

\* Each step keeps the account of the queue.
LEMMA StepAccount == StoreInv /\ AccountInv /\ [Next]_vars => AccountInv'
<1> SUFFICES ASSUME StoreInv, AccountInv, [Next]_vars PROVE AccountInv'
  OBVIOUS
<1>1. queue \in Seq(Cmd) /\ pending_bytes \in Nat /\ max_pending_bytes \in Nat /\ queue_capacity \in Nat
  BY StoreAssumption DEF StoreInv, TypeOK, QueueType, AccountInv
<1>2. CASE queue' = queue /\ pending_bytes' = pending_bytes
  BY <1>2, Zenon DEF AccountInv
<1>3. CASE queue' = <<>> /\ pending_bytes' = 0
  <2>1. Len(<<>>) = 0 /\ 0 <= queue_capacity /\ 0 \in 0..max_pending_bytes
    BY <1>1
  <2> QED
    BY <1>3, <2>1, AddsNothing, Zenon DEF AccountInv
<1>4. ASSUME NEW v \in Values, NEW s \in Sizes, AppendRecord(v, s) PROVE AccountInv'
  <2>0. next_offset \in Nat /\ s \in Nat
    BY StoreAssumption DEF StoreInv, TypeOK, QueueType
  <2>1. PICK e \in Cmd : queue' = Append(queue, e) /\ e.size = s
    <3>1. PICK e \in Cmd : e = [offset |-> next_offset, val |-> v, size |-> s]
      BY <2>0, Zenon DEF Cmd
    <3>2. queue' = Append(queue, e)
      BY <1>4, <3>1, Zenon DEF AppendRecord
    <3>3. e.size = s
      BY <3>1
    <3> QED
      BY <3>2, <3>3, Zenon
  <2>2. /\ s \in Nat /\ pending_bytes' = pending_bytes + e.size
        /\ pending_bytes + e.size <= max_pending_bytes /\ Len(queue) < queue_capacity
    BY <1>4, <2>1, StoreAssumption DEF AppendRecord
  <2>3. pending_bytes' \in 0..max_pending_bytes
    BY <1>1, <2>1, <2>2
  <2>4. Len(queue') <= queue_capacity
    BY <1>1, <2>1, <2>2
  <2>5. Adds(queue', pending_bytes')
    BY <1>1, <2>1, <2>2, AddsAppend, Zenon DEF AccountInv
  <2> QED
    BY <2>3, <2>4, <2>5 DEF AccountInv
<1>5. CASE PopRecord
  <2>1. queue # <<>> /\ queue' = Tail(queue) /\ pending_bytes' = pending_bytes - Head(queue).size
    BY <1>5 DEF PopRecord
  <2>2. pending_bytes' \in 0..pending_bytes /\ Adds(queue', pending_bytes')
    BY <1>1, <2>1, AddsTail, Zenon DEF AccountInv
  <2>3. Len(queue') <= queue_capacity
    BY <1>1, <2>1 DEF AccountInv
  <2>4. pending_bytes <= max_pending_bytes
    BY DEF AccountInv
  <2> QED
    BY <1>1, <2>2, <2>3, <2>4 DEF AccountInv
<1>6. CASE UNCHANGED queueVars
  BY <1>2, <1>6 DEF queueVars
<1>7. CASE IoStep
  BY <1>5, <1>6, <1>7, Zenon DEF IoStep, GatherTimeout, ExitLoop, SerializeRecord, WriteLog, Commit,
     CollectCallbacks, RunCallbacks, SealSegment, OpenSegment, FlushPolicy
<1>8. CASE ClientStep
  BY <1>4, <1>6, <1>8, Zenon DEF ClientStep, SetOnceCommitCallback, FetchLocate, FetchRead
<1>9. CASE Shutdown
  BY <1>2, <1>9 DEF Shutdown
<1>10. CASE Open \/ Crash
  BY <1>3, <1>10 DEF Open, Crash, FreshMemory
<1>11. CASE UNCHANGED vars
  BY <1>6, <1>11 DEF vars
<1> QED
  BY <1>7, <1>8, <1>9, <1>10, <1>11 DEF Next

\* pending_bytes_ is the payload of the queue and both limits of append hold, through
\* append, take_batch, crashes and restarts; the subtraction in take_batch never wraps.
THEOREM QueueIsAccounted ==
  ASSUME "zeros" \notin TailFaults
  PROVE  Spec => []QueueAccounting
<1>1. Init => AccountInv
  <2> SUFFICES ASSUME Init PROVE AccountInv
    OBVIOUS
  <2>1. queue = <<>> /\ pending_bytes = 0
    BY DEF Init
  <2>2. Len(<<>>) = 0 /\ 0 <= queue_capacity /\ 0 \in 0..max_pending_bytes
    BY StoreAssumption
  <2> QED
    BY <2>1, <2>2, AddsNothing, Zenon DEF AccountInv
<1>2. AccountInv => QueueAccounting
  <2> SUFFICES ASSUME AccountInv PROVE QueueAccounting
    OBVIOUS
  <2>1. AddUpTo(queue, pending_bytes)
    BY Zenon DEF AccountInv, Adds, AddUpTo
  <2>2. pending_bytes <= max_pending_bytes
    BY StoreAssumption DEF AccountInv
  <2> QED
    BY <2>1, <2>2, Zenon DEF AccountInv, QueueAccounting
<1> QED
  BY <1>1, <1>2, StepAccount, StoreInvariant, PTL DEF Spec

-----------------------------------------------------------------------------
(* Refinement of CommitLog *)

\* scan_valid of a file of whole records.
LEMMA ScanWhole ==
  ASSUME NEW f \in Seq(Rec \cup {Torn}), \A i \in 1..Len(f) : f[i] # Torn
  PROVE  ScanValid(f) = f /\ f \in Seq(Rec)
<1>1. DOMAIN f = 1..Len(f) /\ Len(f) \in Nat
  OBVIOUS
<1>2. {i \in DOMAIN f : f[i] = Torn} = {}
  BY <1>1, Zenon
<1>3. \A i \in 1..Len(f) : f[i] \in Rec
  OBVIOUS
<1> QED
  BY <1>2, <1>3 DEF ScanValid

\* scan_valid of a file that ends in a partial record.
LEMMA ScanTorn ==
  ASSUME NEW f \in Seq(Rec \cup {Torn}), NEW m \in Nat, Len(f) = m + 1, f[m + 1] = Torn,
         \A i \in 1..m : f[i] # Torn
  PROVE  ScanValid(f) = SubSeq(f, 1, m)
<1> DEFINE torn == {i \in DOMAIN f : f[i] = Torn}
<1>1. DOMAIN f = 1..(m + 1) /\ m + 1 \in 1..(m + 1) /\ (m + 1) - 1 = m
  OBVIOUS
<1>2. \A i \in 1..(m + 1) : i \notin 1..m => i = m + 1
  OBVIOUS
<1>3. torn = {m + 1}
  BY <1>1, <1>2, Zenon
<1>4. ScanValid(f) = SubSeq(f, 1, (CHOOSE i \in torn : \A j \in torn : i <= j) - 1)
  BY <1>3, Zenon DEF ScanValid
<1> HIDE DEF torn
<1>5. (CHOOSE i \in torn : \A j \in torn : i <= j) = m + 1
  BY <1>3
<1> QED
  BY <1>1, <1>4, <1>5, Zenon

\* Payloads, place by place.
Vals(w, p) == [i \in 1..(Len(w) + Len(p)) |-> IF i <= Len(w) THEN w[i].val ELSE p[i - Len(w)].val]

\* Once the valid records are known, Payloads is a function of place.
LEMMA PayloadsAre ==
  ASSUME NEW f, NEW w \in Seq(Rec), ScanValid(f) = w, NEW p \in Seq(Cmd)
  PROVE  Payloads(f, p) = Vals(w, p)
<1> DEFINE S == Rec \cup Cmd
           r == w \o p
<1>1. w \in Seq(S) /\ p \in Seq(S) /\ Len(w) \in Nat /\ Len(p) \in Nat
  OBVIOUS
<1> HIDE DEF S
<1>2. /\ r \in Seq(S) /\ Len(r) = Len(w) + Len(p)
      /\ \A i \in 1..(Len(w) + Len(p)) : r[i] = IF i <= Len(w) THEN w[i] ELSE p[i - Len(w)]
  BY <1>1, Concatenated
<1>3. Payloads(f, p) = [i \in DOMAIN r |-> r[i].val]
  BY Zenon DEF Payloads
<1>4. DOMAIN r = 1..(Len(w) + Len(p))
  BY <1>2
<1> HIDE DEF r
<1>5. \A i \in 1..(Len(w) + Len(p)) : r[i].val = IF i <= Len(w) THEN w[i].val ELSE p[i - Len(w)].val
  BY <1>2
<1> QED
  BY <1>3, <1>4, <1>5, Zenon DEF Vals

\* It is a sequence of values, one for each record and each command.
LEMMA ValsType ==
  ASSUME NEW w \in Seq(Rec), NEW p \in Seq(Cmd)
  PROVE  Vals(w, p) \in Seq(Values) /\ Len(Vals(w, p)) = Len(w) + Len(p)
<1>1. Len(w) \in Nat /\ Len(p) \in Nat /\ Len(w) + Len(p) \in Nat
  OBVIOUS
<1>2. ASSUME NEW i \in 1..(Len(w) + Len(p))
      PROVE  (IF i <= Len(w) THEN w[i].val ELSE p[i - Len(w)].val) \in Values
  <2>1. CASE i <= Len(w)
    <3>1. i \in 1..Len(w)
      BY <1>1, <2>1
    <3>2. w[i] \in Rec
      BY <3>1
    <3> QED
      BY <2>1, <3>2 DEF Rec
  <2>2. CASE ~(i <= Len(w))
    <3>1. i - Len(w) \in 1..Len(p)
      BY <1>1, <2>2
    <3>2. p[i - Len(w)] \in Cmd
      BY <3>1
    <3> QED
      BY <2>2, <3>2 DEF Cmd
  <2> QED
    BY <2>1, <2>2
<1> QED
  BY <1>1, <1>2 DEF Vals

\* An accepted record is one value more.
LEMMA ValsAppend ==
  ASSUME NEW w \in Seq(Rec), NEW p \in Seq(Cmd), NEW c \in Cmd
  PROVE  Vals(w, Append(p, c)) = Append(Vals(w, p), c.val)
<1>1. PICK m \in Nat, n \in Nat : m = Len(w) /\ n = Len(p)
  OBVIOUS
<1>2. PICK q \in Seq(Cmd) : q = Append(p, c)
  BY Appended, Zenon
<1>3. Len(q) = n + 1 /\ q[n + 1] = c /\ \A i \in 1..n : q[i] = p[i]
  BY <1>1, <1>2, Appended
<1>4. PICK v \in Seq(Values) : v = Vals(w, p) /\ Len(v) = m + n
  BY <1>1, ValsType, Zenon
<1>5. \A i \in 1..(m + n) : v[i] = IF i <= m THEN w[i].val ELSE p[i - m].val
  BY <1>1, <1>4, Zenon DEF Vals
<1>6. PICK y \in Seq(Values) : y = Vals(w, q) /\ Len(y) = m + (n + 1)
  BY <1>1, <1>3, ValsType, Zenon
<1>7. \A i \in 1..(m + (n + 1)) : y[i] = IF i <= m THEN w[i].val ELSE q[i - m].val
  BY <1>1, <1>3, <1>6, Zenon DEF Vals
<1>8. c.val \in Values
  BY DEF Cmd
<1>9. PICK x \in Seq(Values) : x = Append(v, c.val)
  BY <1>4, <1>8, Appended, Zenon
<1>10. Len(x) = (m + n) + 1 /\ x[(m + n) + 1] = c.val /\ \A i \in 1..(m + n) : x[i] = v[i]
  <2>1. /\ Len(Append(v, c.val)) = Len(v) + 1 /\ Append(v, c.val)[Len(v) + 1] = c.val
        /\ \A i \in 1..Len(v) : Append(v, c.val)[i] = v[i]
    BY <1>8, Appended
  <2> QED
    BY <1>4, <1>9, <2>1, Zenon
<1>11. \A i \in 1..(m + (n + 1)) : y[i] = x[i]
  <2> TAKE i \in 1..(m + (n + 1))
  <2>1. CASE i = m + (n + 1)
    <3>1. i = (m + n) + 1 /\ i - m = n + 1 /\ ~(i <= m)
      BY <2>1
    <3> QED
      BY <1>3, <1>7, <1>10, <3>1, Zenon
  <2>2. CASE i # m + (n + 1)
    <3>1. i \in 1..(m + n) /\ (i <= m \/ i - m \in 1..n)
      BY <2>2
    <3> QED
      BY <1>3, <1>5, <1>7, <1>10, <3>1, Zenon
  <2> QED
    BY <2>1, <2>2, Zenon
<1>12. Len(y) = Len(x)
  BY <1>6, <1>10
<1>13. y = x
  BY <1>6, <1>11, <1>12, SameElements, Zenon
<1> QED
  BY <1>2, <1>4, <1>6, <1>9, <1>13, Zenon

\* The log and the records written behind it.
LEMMA RecConcat ==
  ASSUME NEW w \in Seq(Rec), NEW r \in Seq(Rec)
  PROVE  /\ w \o r \in Seq(Rec) /\ Len(w \o r) = Len(w) + Len(r)
         /\ \A i \in 1..(Len(w) + Len(r)) : (w \o r)[i] = IF i <= Len(w) THEN w[i] ELSE r[i - Len(w)]
BY Concatenated, Zenon

\* A batch that moves to the log keeps its place.
LEMMA ValsMove ==
  ASSUME NEW w \in Seq(Rec), NEW b \in Seq(Cmd), NEW q \in Seq(Cmd), NEW r \in Seq(Rec),
         Len(r) = Len(b), \A i \in 1..Len(b) : r[i].val = b[i].val
  PROVE  Vals(w \o r, q) = Vals(w, b \o q)
<1>1. PICK m \in Nat, n \in Nat, k \in Nat : m = Len(w) /\ n = Len(b) /\ k = Len(q)
  OBVIOUS
<1>2. PICK wr \in Seq(Rec) : wr = w \o r
  BY Concatenated, Zenon
<1>3. Len(wr) = m + n /\ \A i \in 1..(m + n) : wr[i] = IF i <= m THEN w[i] ELSE r[i - m]
  <2>1. /\ Len(w \o r) = Len(w) + Len(r)
        /\ \A i \in 1..(Len(w) + Len(r)) : (w \o r)[i] = IF i <= Len(w) THEN w[i] ELSE r[i - Len(w)]
    BY RecConcat, Zenon
  <2>2. Len(w) = m /\ Len(r) = n /\ wr = w \o r
    BY <1>1, <1>2
  <2> QED
    BY <2>1, <2>2, Zenon
<1>4. PICK bq \in Seq(Cmd) : bq = b \o q
  BY Concatenated, Zenon
<1>5. Len(bq) = n + k /\ \A i \in 1..(n + k) : bq[i] = IF i <= n THEN b[i] ELSE q[i - n]
  BY <1>1, <1>4, Concatenated
<1>6. PICK x \in Seq(Values) : x = Vals(wr, q) /\ Len(x) = (m + n) + k
  BY <1>1, <1>3, ValsType, Zenon
<1>7. \A i \in 1..((m + n) + k) : x[i] = IF i <= m + n THEN wr[i].val ELSE q[i - (m + n)].val
  BY <1>1, <1>3, <1>6, Zenon DEF Vals
<1>8. PICK y \in Seq(Values) : y = Vals(w, bq) /\ Len(y) = m + (n + k)
  BY <1>1, <1>5, ValsType, Zenon
<1>9. \A i \in 1..(m + (n + k)) : y[i] = IF i <= m THEN w[i].val ELSE bq[i - m].val
  BY <1>1, <1>5, <1>8, Zenon DEF Vals
<1>10. (m + n) + k = m + (n + k)
  OBVIOUS
<1>11. \A i \in 1..((m + n) + k) : x[i] = y[i]
  <2> TAKE i \in 1..((m + n) + k)
  <2>1. CASE i <= m
    <3>1. i \in 1..(m + n) /\ i <= m + n
      BY <2>1
    <3> QED
      BY <1>3, <1>7, <1>9, <1>10, <2>1, <3>1, Zenon
  <2>2. CASE ~(i <= m) /\ i <= m + n
    <3>1. i \in 1..(m + n) /\ i - m \in 1..n /\ i - m \in 1..(n + k) /\ i - m <= n
      BY <2>2
    <3>2. wr[i] = r[i - m] /\ bq[i - m] = b[i - m]
      BY <1>3, <1>5, <2>2, <3>1, Zenon
    <3>3. r[i - m].val = b[i - m].val
      BY <1>1, <3>1, Zenon
    <3> QED
      BY <1>7, <1>9, <1>10, <2>2, <3>2, <3>3, Zenon
  <2>3. CASE ~(i <= m + n)
    <3>1. ~(i <= m) /\ i - m \in 1..(n + k) /\ ~(i - m <= n) /\ (i - m) - n = i - (m + n)
      BY <2>3
    <3>2. bq[i - m] = q[i - (m + n)]
      BY <1>5, <3>1, Zenon
    <3> QED
      BY <1>7, <1>9, <1>10, <2>3, <3>1, <3>2, Zenon
  <2> QED
    BY <2>1, <2>2, <2>3
<1>12. x = y
  BY <1>6, <1>8, <1>10, <1>11, SameElements, Zenon
<1> QED
  BY <1>2, <1>4, <1>6, <1>8, <1>12, Zenon

\* Records that are lost are a suffix of the values.
LEMMA ValsCut ==
  ASSUME NEW w \in Seq(Rec), NEW p \in Seq(Cmd), NEW k \in Nat, k <= Len(w)
  PROVE  Vals(SubSeq(w, 1, k), <<>>) = SubSeq(Vals(w, p), 1, k)
<1>1. PICK m \in Nat, n \in Nat : m = Len(w) /\ n = Len(p)
  OBVIOUS
<1>2. PICK c \in Seq(Rec) : c = SubSeq(w, 1, k)
  BY PrefixFacts, Zenon
<1>3. Len(c) = k /\ \A i \in 1..k : c[i] = w[i]
  BY <1>2, PrefixFacts, Zenon
<1>0. <<>> \in Seq(Cmd) /\ Len(<<>>) = 0
  OBVIOUS
<1>4. PICK e \in Seq(Cmd) : e = <<>> /\ Len(e) = 0
  BY <1>0, Zenon
<1>5. PICK x \in Seq(Values) : x = Vals(c, e) /\ Len(x) = k + 0
  BY <1>3, <1>4, ValsType, Zenon
<1>6. \A i \in 1..(k + 0) : x[i] = IF i <= k THEN c[i].val ELSE e[i - k].val
  BY <1>3, <1>4, <1>5, Zenon DEF Vals
<1>7. PICK v \in Seq(Values) : v = Vals(w, p) /\ Len(v) = m + n
  BY <1>1, ValsType, Zenon
<1>8. \A i \in 1..(m + n) : v[i] = IF i <= m THEN w[i].val ELSE p[i - m].val
  BY <1>1, <1>7, Zenon DEF Vals
<1>9. k <= m + n /\ k + 0 = k /\ k <= m
  BY <1>1
<1>10. PICK y \in Seq(Values) : y = SubSeq(v, 1, k)
  BY <1>7, <1>9, PrefixFacts, Zenon
<1>11. Len(y) = k /\ \A i \in 1..k : y[i] = v[i]
  BY <1>7, <1>9, <1>10, PrefixFacts, Zenon
<1>12. \A i \in 1..k : x[i] = y[i]
  <2> TAKE i \in 1..k
  <2>1. i <= k /\ i <= m /\ i \in 1..(m + n)
    BY <1>9
  <2> QED
    BY <1>3, <1>6, <1>8, <1>9, <1>11, <2>1, Zenon
<1>13. x = y
  BY <1>5, <1>9, <1>11, <1>12, SameElements, Zenon
<1> QED
  BY <1>2, <1>4, <1>5, <1>7, <1>10, <1>13, Zenon

-----------------------------------------------------------------------------
(* Simulation *)

\* The values of a log of whole records and of the records behind it.
LEMMA WholePayloads ==
  ASSUME NEW f \in Seq(Rec \cup {Torn}), \A i \in 1..Len(f) : f[i] # Torn, NEW p \in Seq(Cmd)
  PROVE  f \in Seq(Rec) /\ Payloads(f, p) = Vals(f, p)
BY ScanWhole, PayloadsAre, Zenon

\* A store that is not down shows all of its log, then the batch and the queue.
LEMMA Shows ==
  ASSUME StoreInv, io # "down"
  PROVE  /\ log \in Seq(Rec) /\ Pending \in Seq(Cmd) /\ Len(log) \in Nat /\ Len(Pending) \in Nat
         /\ AcceptedValues = Vals(log, Pending)
         /\ AcceptedValues \in Seq(Values) /\ Len(AcceptedValues) = Len(log) + Len(Pending)
<1>1. log \in Seq(Rec \cup {Torn}) /\ batch \in Seq(Cmd) /\ queue \in Seq(Cmd)
  BY Zenon DEF StoreInv, TypeOK, DiskType, BatchType, QueueType
<1>2. \A i \in 1..Len(log) : log[i] # Torn
  BY Zenon DEF StoreInv, LogInv
<1>3. Pending \in Seq(Cmd)
  BY <1>1 DEF Pending
<1>4. log \in Seq(Rec) /\ AcceptedValues = Vals(log, Pending)
  BY <1>1, <1>2, <1>3, WholePayloads, Zenon DEF AcceptedValues
<1>5. Len(log) \in Nat /\ Len(Pending) \in Nat
  BY <1>1, <1>3
<1>6. Vals(log, Pending) \in Seq(Values) /\ Len(Vals(log, Pending)) = Len(log) + Len(Pending)
  BY <1>3, <1>4, ValsType, Zenon
<1> QED
  BY <1>3, <1>4, <1>5, <1>6, Zenon

\* The same after a step.
LEMMA ShowsNext ==
  ASSUME StoreInv', io' # "down"
  PROVE  log' \in Seq(Rec) /\ Pending' \in Seq(Cmd) /\ AcceptedValues' = Vals(log', Pending')
<1>1. log' \in Seq(Rec \cup {Torn}) /\ batch' \in Seq(Cmd) /\ queue' \in Seq(Cmd)
  BY Zenon DEF StoreInv, TypeOK, DiskType, BatchType, QueueType
<1>2. \A i \in 1..Len(log') : log'[i] # Torn
  BY Zenon DEF StoreInv, LogInv
<1>3. Pending' \in Seq(Cmd)
  BY <1>1 DEF Pending
<1> QED
  BY <1>1, <1>2, <1>3, WholePayloads, Zenon DEF AcceptedValues

\* append is Accept.
LEMMA AppendAccepts ==
  ASSUME StoreInv, StoreInv', NEW v \in Values, NEW s \in Sizes, AppendRecord(v, s)
  PROVE  CL!Accept
<1> DEFINE cmd == [offset |-> next_offset, val |-> v, size |-> s]
           b == IF io \in {"take", "pop", "gather", "write"} THEN batch ELSE <<>>
<1>1. /\ Running /\ io' = io /\ log' = log /\ queue' = Append(queue, cmd) /\ batch' = batch
      /\ UNCHANGED <<committed_offset, synced>>
  BY DEF AppendRecord, batchVars, diskVars
<1>2. io # "down" /\ io' # "down" /\ Running' = Running
  BY <1>1 DEF Running
<1>3. cmd \in Cmd /\ cmd.val = v
  <2>1. next_offset \in Nat /\ s \in Nat
    BY StoreAssumption DEF StoreInv, TypeOK, QueueType
  <2> QED
    BY <2>1 DEF Cmd
<1>4. b \in Seq(Cmd) /\ queue \in Seq(Cmd)
  BY DEF StoreInv, TypeOK, BatchType, QueueType
<1>5. Pending = b \o queue /\ Pending' = b \o queue'
  BY <1>1, Zenon DEF Pending
<1> HIDE DEF cmd, b
<1>6. b \o Append(queue, cmd) = Append(b \o queue, cmd)
  BY <1>3, <1>4
<1>7. Pending' = Append(Pending, cmd)
  BY <1>1, <1>5, <1>6, Zenon
<1>8. AcceptedValues' = Append(AcceptedValues, v)
  BY <1>1, <1>2, <1>3, <1>7, Shows, ShowsNext, ValsAppend, ZenonT(30)
<1> QED
  BY <1>1, <1>2, <1>8, Zenon DEF CL!Accept

\* Moving the first record of the queue to the end of the batch.
LEMMA MoveHead ==
  ASSUME NEW s \in Seq(Cmd), NEW t \in Seq(Cmd), t # <<>>
  PROVE  Append(s, Head(t)) \o Tail(t) = s \o t
OBVIOUS

\* take_batch moves records within the line.
LEMMA PopShows == ASSUME StoreInv, PopRecord PROVE Pending' = Pending
<1>1. /\ io \in {"take", "pop", "gather"} /\ io' \in {"pop", "gather", "write"} /\ queue # <<>>
      /\ batch' = Append(batch, Head(queue)) /\ queue' = Tail(queue)
  BY DEF PopRecord
<1>2. batch \in Seq(Cmd) /\ queue \in Seq(Cmd)
  BY Zenon DEF StoreInv, TypeOK, BatchType, QueueType
<1>3. Append(batch, Head(queue)) \o Tail(queue) = batch \o queue
  BY <1>1, <1>2, MoveHead, Zenon
<1> QED
  BY <1>1, <1>3, Zenon DEF Pending

\* The write moves the batch from the front of the line to the log.
LEMMA WriteShows ==
  ASSUME StoreInv, CarryInv, StoreInv', WriteLog PROVE AcceptedValues' = AcceptedValues
<1> DEFINE end == EndPosition(File(Active))
           r == [i \in DOMAIN buffer |-> [buffer[i] EXCEPT !.pos = @ + end]]
<1>1. /\ io = "write" /\ io' = "commit" /\ Len(buffer) = Len(batch) /\ log' = log \o r
      /\ UNCHANGED <<batch, queue>>
  BY Zenon DEF WriteLog, batchVars, queueVars
<1>2. batch \in Seq(Cmd) /\ queue \in Seq(Cmd) /\ buffer \in Seq(Rec)
  BY Zenon DEF StoreInv, TypeOK, BatchType, QueueType
<1>3. Pending = batch \o queue /\ Pending' = queue
  <2>1. <<>> \o queue = queue
    BY <1>2
  <2> QED
    BY <1>1, <2>1, Zenon DEF Pending
<1>4. log \in Seq(Rec) /\ Len(log) \in Nat
  BY <1>1, Shows
<1>5. DOMAIN buffer = 1..Len(batch) /\ Len(batch) \in Nat
  BY <1>1, <1>2
<1>6. end \in Nat
  <2>1. File(Active) \in Seq(Rec)
    <3>1. segs[Active].start \in Nat /\ Len(log) \in Nat
      BY <1>4, DiskFacts DEF StoreInv, TypeOK
    <3>2. File(Active) = SubSeq(log, segs[Active].start + 1, Len(log))
      BY DEF File, Active
    <3> QED
      BY <1>4, <3>1, <3>2
  <2> QED
    BY <2>1, EndPositionType
<1>7. ASSUME NEW i \in 1..Len(batch)
      PROVE  /\ [buffer[i] EXCEPT !.pos = @ + end] \in Rec
             /\ [buffer[i] EXCEPT !.pos = @ + end].val = buffer[i].val
  <2>1. buffer[i] \in Rec
    BY <1>2, <1>5
  <2> HIDE DEF end
  <2> QED
    BY <1>6, <2>1 DEF Rec
<1> HIDE DEF end
<1>8. r \in Seq(Rec) /\ Len(r) = Len(batch)
  BY <1>5, <1>7
<1>9. \A i \in 1..Len(batch) : r[i].val = batch[i].val
  BY <1>1, <1>5, <1>7, Zenon DEF CarryInv
<1> HIDE DEF r
<1>10. AcceptedValues = Vals(log, batch \o queue)
  BY <1>1, <1>3, Shows, Zenon
<1>11. AcceptedValues' = Vals(log \o r, queue)
  BY <1>1, <1>3, ShowsNext, Zenon
<1> QED
  BY <1>2, <1>4, <1>8, <1>9, <1>10, <1>11, ValsMove, ZenonT(30)

\* A commit advances over a part of the line.
LEMMA CommitAdvances ==
  ASSUME StoreInv, Commit PROVE CL!Advance
<1>1. /\ io = "commit" /\ io' = "fire" /\ committed_offset' = batch[Len(batch)].offset + 1
      /\ UNCHANGED <<log, batch, queue, synced>>
  BY DEF Commit, batchVars, queueVars, diskVars
<1>2. /\ Len(batch) \in Nat /\ Len(batch) > 0 /\ Len(log) \in Nat /\ committed_offset \in Nat
      /\ committed_offset + Len(batch) = Len(log)
      /\ \A i \in 1..Len(batch) : batch[i].offset = Len(log) - Len(batch) + i - 1
  BY <1>1 DEF StoreInv, TypeOK, BatchType, CounterType, DiskType, BatchInv
<1>3. committed_offset' = Len(log)
  BY <1>1, <1>2
<1>4. Pending' = Pending /\ AcceptedValues' = AcceptedValues
  BY <1>1, Zenon DEF Pending, AcceptedValues
<1>5. Len(AcceptedValues) = Len(log) + Len(Pending) /\ Len(Pending) \in Nat
  BY <1>1, Shows, Zenon
<1>6. committed_offset' \in (committed_offset + 1)..Len(AcceptedValues)
  BY <1>2, <1>3, <1>5
<1>7. Running /\ Running'
  BY <1>1, Zenon DEF Running
<1> QED
  BY <1>1, <1>4, <1>6, <1>7, Zenon DEF CL!Advance

\* A flush makes what is committed stable.
LEMMA FlushStabilises ==
  ASSUME StoreInv, io \in {"policy", "open_segment"}, io' \in {"take", "open_segment"},
         UNCHANGED <<log, queue, committed_offset>>, io' = "take" => batch' = <<>>,
         synced'.log \in {synced.log, Len(log)}
  PROVE  [CL!CLNext]_(CL!clVars)
<1>1. <<>> \o queue = queue /\ committed_offset = Len(log)
  BY DEF StoreInv, TypeOK, QueueType, BatchInv
<1>2. Pending' = Pending
  BY <1>1, Zenon DEF Pending
<1>3. AcceptedValues' = AcceptedValues
  BY <1>2, Zenon DEF AcceptedValues
<1>4. Running /\ Running'
  BY Zenon DEF Running
<1>5. CASE synced'.log = synced.log
  BY <1>3, <1>4, <1>5, Zenon DEF CL!clVars
<1>6. CASE synced'.log = Len(log)
  BY <1>1, <1>3, <1>4, <1>6, Zenon DEF CL!CLNext, CL!Stabilise
<1> QED
  BY <1>5, <1>6, Zenon

\* The I/O thread leaves its loop with everything committed and flushed.
LEMMA ExitStops ==
  ASSUME StoreInv, ExitLoop PROVE CL!Stop
<1>1. /\ io = "take" /\ io' = "exited" /\ queue = <<>>
      /\ synced' = [log |-> Len(log), idx |-> Len(segs[Active].idx)]
      /\ UNCHANGED <<log, batch, queue, committed_offset>>
  BY DEF ExitLoop, FlushActive, batchVars, queueVars
<1>2. batch = <<>> /\ committed_offset = Len(log)
  BY <1>1 DEF StoreInv, BatchInv
<1>3. Pending = <<>> /\ Pending' = <<>>
  BY <1>1, <1>2 DEF Pending
<1>4. AcceptedValues' = AcceptedValues
  BY <1>1, <1>3, Zenon DEF AcceptedValues
<1>5. Len(AcceptedValues) = Len(log)
  <2>1. Len(AcceptedValues) = Len(log) + Len(<<>>) /\ Len(log) \in Nat
    BY <1>1, <1>3, Shows, Zenon
  <2> QED
    BY <2>1
<1>6. synced'.log = Len(log)
  BY <1>1
<1>7. Running /\ Running' = FALSE
  BY <1>1, Zenon DEF Running
<1> QED
  BY <1>1, <1>2, <1>4, <1>5, <1>6, <1>7, Zenon DEF CL!Stop

\* A crash loses a suffix that is not stable.
LEMMA CrashFails ==
  ASSUME "zeros" \notin TailFaults, StoreInv, Crash PROVE CL!Fail
<1>1. PICK k \in synced.log..Len(log) :
        /\ log' \in Seq(Rec \cup {Torn}) /\ Len(log') \in {k, k + 1}
        /\ \A i \in 1..k : log'[i] = log[i]
        /\ \A i \in 1..Len(log') : i > k => i = k + 1 /\ i = Len(log') /\ log'[i] = Torn
  BY CrashLog, Zenon
<1>2. /\ io # "down" /\ io' = "down" /\ queue' = <<>> /\ committed_offset' = 0 /\ synced' = synced
  BY DEF Crash, FreshMemory, NewWriter
<1>3. /\ log \in Seq(Rec) /\ Len(log) \in Nat /\ Pending \in Seq(Cmd) /\ Len(Pending) \in Nat
      /\ AcceptedValues = Vals(log, Pending) /\ Len(AcceptedValues) = Len(log) + Len(Pending)
  BY <1>2, Shows, Zenon
<1>4. k \in Nat /\ k <= Len(log) /\ synced.log \in Nat
  BY <1>3, DiskFacts DEF StoreInv, TypeOK
<1>5. Pending' = <<>>
  BY <1>2 DEF Pending
<1>6. PICK w \in Seq(Rec) : w = SubSeq(log, 1, k)
  BY <1>3, <1>4, PrefixFacts, Zenon
<1>7. Len(w) = k /\ \A i \in 1..k : w[i] = log[i] /\ w[i] \in Rec
  <2>1. Len(w) = k /\ \A i \in 1..k : w[i] = log[i]
    BY <1>3, <1>4, <1>6, PrefixFacts, Zenon
  <2>2. \A i \in 1..k : w[i] \in Rec
    BY <2>1
  <2> QED
    BY <2>1, <2>2, Zenon
<1>8. \A i \in 1..k : log'[i] = w[i] /\ log'[i] # Torn
  BY <1>1, <1>7, TornAssumption, Zenon
<1>9. ScanValid(log') = w
  <2>1. PICK f \in Seq(Rec \cup {Torn}) : f = log'
    BY <1>1, Zenon
  <2>2. w \in Seq(Rec \cup {Torn})
    OBVIOUS
  <2>3. CASE Len(f) = k
    <3>1. f = w
      BY <1>7, <1>8, <2>1, <2>2, <2>3, SameElements, Zenon
    <3> QED
      BY <1>8, <2>1, <2>3, <3>1, ScanWhole, Zenon
  <2>4. CASE Len(f) = k + 1
    <3>1. k + 1 \in 1..(k + 1) /\ k + 1 > k /\ k <= k + 1
      BY <1>4
    <3>2. f[k + 1] = Torn
      BY <1>1, <2>1, <2>4, <3>1, Zenon
    <3>3. ScanValid(f) = SubSeq(f, 1, k)
      BY <1>4, <1>8, <2>1, <2>4, <3>2, ScanTorn, Zenon
    <3>4. /\ SubSeq(f, 1, k) \in Seq(Rec \cup {Torn}) /\ Len(SubSeq(f, 1, k)) = k
          /\ \A i \in 1..k : SubSeq(f, 1, k)[i] = f[i]
      BY <1>4, <2>4, <3>1, PrefixFacts, Zenon
    <3>5. PICK g \in Seq(Rec \cup {Torn}) : g = SubSeq(f, 1, k)
      BY <3>4, Zenon
    <3>6. Len(g) = Len(w) /\ \A i \in 1..Len(g) : g[i] = w[i]
      BY <1>7, <1>8, <2>1, <3>4, <3>5, Zenon
    <3>7. g = w
      BY <2>2, <3>6, SameElements, Zenon
    <3> QED
      BY <2>1, <3>3, <3>5, <3>7, Zenon
  <2> QED
    BY <1>1, <2>1, <2>3, <2>4, Zenon
<1>10. <<>> \in Seq(Cmd)
  OBVIOUS
<1>11. AcceptedValues' = Vals(w, <<>>)
  BY <1>5, <1>9, <1>10, PayloadsAre, Zenon DEF AcceptedValues
<1>12. AcceptedValues' = SubSeq(AcceptedValues, 1, k)
  BY <1>3, <1>4, <1>6, <1>11, ValsCut, Zenon
<1>13. k \in synced.log..Len(AcceptedValues)
  BY <1>3, <1>4
<1>14. Running' = FALSE
  BY <1>2, Zenon DEF Running
<1> QED
  BY <1>2, <1>12, <1>13, <1>14, Zenon DEF CL!Fail

\* The constructor commits what recovery finds, which is all there is.
LEMMA OpenRestarts ==
  ASSUME StoreInv, CarryInv, StoreInv', Open PROVE CL!Restart
<1>1. PICK m \in synced.log..Len(log) :
        /\ segs[Active].start + Len(Recovered) = m
        /\ \A i \in 1..m : log[i] # Torn
        /\ m = Len(log) \/ (m + 1 = Len(log) /\ log[m + 1] = Torn)
        /\ RecoveredNextOffset = m
  BY RecoverFacts, Zenon
<1>2. /\ io \in {"down", "exited"} /\ io' = "take" /\ synced' = synced /\ log' = SubSeq(log, 1, m)
      /\ queue' = <<>> /\ batch' = <<>> /\ committed_offset' = m
  BY <1>1, Zenon DEF Open, FreshMemory, NewWriter
<1>3. queue = <<>>
  BY <1>2, Zenon DEF StoreInv, ExitInv, CarryInv
<1>4. Pending = <<>> /\ Pending' = <<>>
  <2>1. <<>> \o <<>> = <<>>
    OBVIOUS
  <2> QED
    BY <1>2, <1>3, <2>1, Zenon DEF Pending
<1>5. /\ log \in Seq(Rec \cup {Torn}) /\ m \in Nat /\ m <= Len(log) /\ Len(log) \in Nat
  <2>1. log \in Seq(Rec \cup {Torn}) /\ synced.log \in Nat /\ Len(log) \in Nat
    BY DiskFacts, Zenon DEF StoreInv, TypeOK, DiskType
  <2> QED
    BY <2>1
<1>6. ScanValid(log) = log'
  <2>1. CASE m = Len(log)
    <3>1. SubSeq(log, 1, Len(log)) = log
      BY <1>5, WholeCut, Zenon
    <3> QED
      BY <1>1, <1>2, <1>5, <2>1, <3>1, ScanWhole, Zenon
  <2>2. CASE m + 1 = Len(log) /\ log[m + 1] = Torn
    BY <1>1, <1>2, <1>5, <2>2, ScanTorn, Zenon
  <2> QED
    BY <1>1, <2>1, <2>2, Zenon
<1>7. log' \in Seq(Rec) /\ AcceptedValues' = Vals(log', <<>>)
  BY <1>2, <1>4, ShowsNext, Zenon
<1>8. <<>> \in Seq(Cmd) /\ Len(<<>>) = 0
  OBVIOUS
<1>9. PICK w \in Seq(Rec), e \in Seq(Cmd) : w = log' /\ e = <<>> /\ Len(e) = 0
  BY <1>7, <1>8, Zenon
<1>10. AcceptedValues = Vals(w, e)
  BY <1>4, <1>6, <1>9, PayloadsAre, Zenon DEF AcceptedValues
<1>11. Len(w) = m
  BY <1>2, <1>5, <1>9, PrefixFacts, ZenonT(30)
<1>12. Len(AcceptedValues) = m
  <2>1. Len(AcceptedValues) = m + 0
    BY <1>9, <1>10, <1>11, ValsType, Zenon
  <2> QED
    BY <1>5, <2>1
<1>13. ~Running /\ Running'
  BY <1>2, Zenon DEF Running
<1> QED
  BY <1>2, <1>7, <1>9, <1>10, <1>12, <1>13, Zenon DEF CL!Restart

\* A step that leaves batch and buffer alone.
LEMMA CarryKept ==
  ASSUME CarryInv, UNCHANGED <<batch, buffer>>, io' = "down" => io = "down" /\ queue' = queue
  PROVE  CarryInv'
BY Zenon DEF CarryInv

\* Serialisation copies the payload.
LEMMA CarrySerialize == ASSUME StoreInv, CarryInv, SerializeRecord PROVE CarryInv'
<1>1. PICK n \in Nat : n = Len(buffer)
  BY DEF StoreInv, TypeOK, BatchType
<1>2. PICK r : /\ r = [offset |-> batch[n + 1].offset, val |-> batch[n + 1].val,
                       size |-> batch[n + 1].size, pos |-> buffer_bytes]
               /\ buffer' = Append(buffer, r)
  BY <1>1, Zenon DEF SerializeRecord
<1>3. io = "write" /\ io' = "write" /\ batch' = batch
  BY Zenon DEF SerializeRecord
<1>4. r.val = batch[n + 1].val
  BY <1>2
<1>5. /\ Len(buffer') = n + 1 /\ buffer'[n + 1] = r
      /\ \A i \in 1..n : buffer'[i] = buffer[i]
  <2>1. buffer \in Seq(Rec)
    BY Zenon DEF StoreInv, TypeOK, BatchType
  <2> QED
    BY <1>1, <1>2, <2>1
<1>6. \A i \in 1..(n + 1) : i \in 1..n \/ i = n + 1
  BY <1>1
<1> QED
  BY <1>1, <1>3, <1>4, <1>5, <1>6, Zenon DEF CarryInv

\* A step that leaves no buffer and, if it is a crash, no queue.
LEMMA CarryEmpty ==
  ASSUME buffer' = <<>>, io' = "down" => queue' = <<>>
  PROVE  CarryInv'
<1>1. Len(buffer') = 0 /\ 1..0 = {}
  OBVIOUS
<1> QED
  BY <1>1, Zenon DEF CarryInv

\* Every step keeps CarryInv and is a step of CommitLog or none.
LEMMA StepSimulates ==
  ASSUME "zeros" \notin TailFaults, StoreInv, CarryInv, StoreInv', [Next]_vars
  PROVE  CarryInv' /\ [CL!CLNext]_(CL!clVars)
<1> USE DEF queueVars, batchVars, memoryVars, onceVars, diskVars
<1> DEFINE Goal == CarryInv' /\ [CL!CLNext]_(CL!clVars)
<1>0. ASSUME UNCHANGED <<log, io, batch, queue, buffer, committed_offset, synced>> PROVE Goal
  <2>1. Pending' = Pending /\ Running' = Running
    BY <1>0, Zenon DEF Pending, Running
  <2>2. AcceptedValues' = AcceptedValues
    BY <1>0, <2>1, Zenon DEF AcceptedValues
  <2> QED
    BY <1>0, <2>1, <2>2, CarryKept, Zenon DEF CL!clVars
<1>01. ASSUME UNCHANGED <<log, batch, queue, buffer, committed_offset, synced>>,
              \/ io \in {"gather"} /\ io' = "write"
              \/ io \in {"fire", "callback"} /\ io' \in {"callback", "policy"}
       PROVE  Goal
  <2>1. Pending' = Pending /\ Running' = Running
    BY <1>01, Zenon DEF Pending, Running
  <2>2. AcceptedValues' = AcceptedValues
    BY <1>01, <2>1, Zenon DEF AcceptedValues
  <2> QED
    BY <1>01, <2>1, <2>2, CarryKept, Zenon DEF CL!clVars
<1>1. CASE UNCHANGED vars
  BY <1>0, <1>1, Zenon DEF vars
<1>2. ASSUME NEW v \in Values, NEW s \in Sizes, AppendRecord(v, s) PROVE Goal
  <2>1. UNCHANGED <<batch, buffer, io>> /\ io # "down"
    BY <1>2, Zenon DEF AppendRecord, Running
  <2> QED
    BY <1>2, <2>1, CarryKept, AppendAccepts, Zenon DEF CL!CLNext
<1>3. ASSUME NEW c \in Callbacks, NEW o \in 0..(MaxOffset - 1), SetOnceCommitCallback(c, o)
      PROVE  Goal
  BY <1>0, <1>3, Zenon DEF SetOnceCommitCallback
<1>4. ASSUME NEW c \in Consumers, NEW o \in 0..(MaxOffset - 1), NEW n \in FetchSizes,
             FetchLocate(c, o, n)
      PROVE  Goal
  BY <1>0, <1>4, Zenon DEF FetchLocate
<1>5. ASSUME NEW c \in Consumers, FetchRead(c) PROVE Goal
  BY <1>0, <1>5, Zenon DEF FetchRead
<1>6. CASE Shutdown
  BY <1>0, <1>6, Zenon DEF Shutdown
<1>7. CASE PopRecord
  <2>1. /\ buffer' = buffer /\ io \in {"take", "pop", "gather"}
        /\ io' \in {"pop", "gather", "write"}
        /\ UNCHANGED <<log, committed_offset, synced>>
    BY <1>7, Zenon DEF PopRecord
  <2>2. buffer' = <<>> /\ io' # "down"
    BY <2>1, Zenon DEF StoreInv, BatchInv
  <2>3. AcceptedValues' = AcceptedValues
    BY <1>7, <2>1, PopShows, Zenon DEF AcceptedValues
  <2>4. Running' = Running
    BY <2>1, Zenon DEF Running
  <2> QED
    BY <2>1, <2>2, <2>3, <2>4, CarryEmpty, Zenon DEF CL!clVars
<1>8. CASE GatherTimeout
  BY <1>01, <1>8, Zenon DEF GatherTimeout
<1>9. CASE ExitLoop
  <2>1. UNCHANGED <<batch, buffer>> /\ io' # "down"
    BY <1>9, Zenon DEF ExitLoop
  <2> QED
    BY <1>9, <2>1, CarryKept, ExitStops, Zenon DEF CL!CLNext
<1>10. CASE SerializeRecord
  <2>1. UNCHANGED <<log, io, batch, queue, committed_offset, synced>>
    BY <1>10, Zenon DEF SerializeRecord
  <2>2. Pending' = Pending /\ Running' = Running
    BY <2>1, Zenon DEF Pending, Running
  <2>3. AcceptedValues' = AcceptedValues
    BY <2>1, <2>2, Zenon DEF AcceptedValues
  <2> QED
    BY <1>10, <2>1, <2>2, <2>3, CarrySerialize, Zenon DEF CL!clVars
<1>11. CASE WriteLog
  <2>1. UNCHANGED <<batch, buffer, committed_offset, synced>> /\ io = "write" /\ io' = "commit"
    BY <1>11, Zenon DEF WriteLog
  <2>2. Running' = Running /\ io' # "down"
    BY <2>1, Zenon DEF Running
  <2> QED
    BY <1>11, <2>1, <2>2, CarryKept, WriteShows, Zenon DEF CL!clVars
<1>12. CASE Commit
  <2>1. UNCHANGED <<batch, buffer>> /\ io' # "down"
    BY <1>12, Zenon DEF Commit
  <2> QED
    BY <1>12, <2>1, CarryKept, CommitAdvances, Zenon DEF CL!CLNext
<1>13. CASE CollectCallbacks
  BY <1>01, <1>13, Zenon DEF CollectCallbacks
<1>14. CASE RunCallbacks
  BY <1>01, <1>14, Zenon DEF RunCallbacks
<1>15. CASE SealSegment
  <2>1. /\ io = "policy" /\ io' = "open_segment" /\ UNCHANGED <<log, queue, batch, buffer, committed_offset>>
        /\ synced' = [log |-> Len(log), idx |-> Len(segs[Active].idx)]
    BY <1>15, Zenon DEF SealSegment, FlushActive
  <2>2. synced'.log = Len(log) /\ io' # "down" /\ io' # "take"
    BY <2>1
  <2> QED
    BY <2>1, <2>2, CarryKept, FlushStabilises, Zenon
<1>16. CASE OpenSegment
  <2>1. /\ io = "open_segment" /\ io' = "take" /\ UNCHANGED <<log, queue, committed_offset>>
        /\ batch' = <<>> /\ buffer' = <<>> /\ synced' = [synced EXCEPT !.idx = 0]
    BY <1>16, Zenon DEF OpenSegment, BatchDone
  <2>2. synced'.log = synced.log /\ io' # "down"
    BY <2>1 DEF StoreInv, TypeOK, DiskType
  <2> QED
    BY <2>1, <2>2, CarryEmpty, FlushStabilises, Zenon
<1>17. CASE FlushPolicy
  <2>1. /\ io = "policy" /\ io' = "take" /\ UNCHANGED <<log, queue, committed_offset>>
        /\ batch' = <<>> /\ buffer' = <<>>
    BY <1>17, Zenon DEF FlushPolicy, BatchDone
  <2>2. synced'.log \in {synced.log, Len(log)} /\ io' # "down"
    BY <1>17, <2>1 DEF FlushPolicy, FlushActive
  <2> QED
    BY <2>1, <2>2, CarryEmpty, FlushStabilises, Zenon
<1>18. CASE Open
  <2>1. buffer' = <<>> /\ io' # "down"
    BY <1>18, Zenon DEF Open, FreshMemory
  <2> QED
    BY <1>18, <2>1, CarryEmpty, OpenRestarts, Zenon DEF CL!CLNext
<1>19. CASE Crash
  <2>1. buffer' = <<>> /\ queue' = <<>>
    BY <1>19, Zenon DEF Crash, FreshMemory
  <2> QED
    BY <1>19, <2>1, CarryEmpty, CrashFails, Zenon DEF CL!CLNext
<1> QED
  BY ZenonT(30), <1>1, <1>2, <1>3, <1>4, <1>5, <1>6, <1>7, <1>8, <1>9, <1>10, <1>11, <1>12, <1>13, <1>14,
     <1>15, <1>16, <1>17, <1>18, <1>19 DEF Next, IoStep, ClientStep

\* The store implements CommitLog: consecutive places, a committed prefix that
\* grows, a stable prefix behind it that no crash cuts, a restart that commits
\* all that is left, and an orderly stop that loses nothing.
THEOREM StoreRefinesCommitLog ==
  ASSUME "zeros" \notin TailFaults
  PROVE  Spec => ImplementsCommitLog
<1>1. Init => CarryInv /\ CL!CLInit
  <2> SUFFICES ASSUME Init PROVE CarryInv /\ CL!CLInit
    OBVIOUS
  <2>1. /\ log = <<>> /\ batch = <<>> /\ queue = <<>> /\ buffer = <<>> /\ io = "take"
        /\ committed_offset = 0 /\ synced.log = 0
    BY DEF Init
  <2>2. StoreInv
    BY InitInv
  <2>3. CarryInv
    <3>1. Len(buffer) = 0 /\ 1..0 = {}
      BY <2>1
    <3> QED
      BY <2>1, <3>1, Zenon DEF CarryInv
  <2>4. Pending = <<>>
    BY <2>1 DEF Pending
  <2>5. AcceptedValues \in Seq(Values) /\ Len(AcceptedValues) = 0
    <3>1. AcceptedValues \in Seq(Values) /\ Len(AcceptedValues) = Len(<<>>) + Len(<<>>)
      BY <2>1, <2>2, <2>4, Shows, Zenon
    <3> QED
      BY <3>1
  <2>6. AcceptedValues = <<>>
    BY <2>5
  <2>7. Running = TRUE
    BY <2>1, Zenon DEF Running
  <2> QED
    BY <2>1, <2>3, <2>6, <2>7, Zenon DEF CL!CLInit
<1>2. StoreInv /\ CarryInv /\ StoreInv' /\ [Next]_vars => CarryInv' /\ [CL!CLNext]_(CL!clVars)
  BY StepSimulates
<1> QED
  BY <1>1, <1>2, StoreInvariant, PTL DEF Spec, ImplementsCommitLog, CL!CLSpec

=============================================================================
