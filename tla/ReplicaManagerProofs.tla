------------------------ MODULE ReplicaManagerProofs ------------------------
(***************************************************************************)
(* ManagerInv is an inductive invariant of ReplicaManager with acks=-1, for *)
(* any number of replicas, publishes and batches.                          *)
(***************************************************************************)
EXTENDS ReplicaManager, FiniteSetTheorems, TLAPS

(* The initial states, and the steps that send no ACK *)

\* The invariant holds when the manager and the store have just been created.
LEMMA InitInv == Init => ManagerInv
<1> SUFFICES ASSUME Init PROVE ManagerInv
  OBVIOUS
<1> USE ManagerAssumption DEF Init, Offsets, Idle, NoBatch
<1>1. DOMAIN pending = {}
  OBVIOUS
<1>2. commit_queue \in Seq(QueuedCommit) /\ batch \in QueuedCommit
  BY DEF QueuedCommit
<1>3. attached \in BOOLEAN /\ running \in BOOLEAN /\ notify \in BOOLEAN
  BY Zenon
<1>4. replicas \in [Replicas -> ReplicaState]
  BY DEF ReplicaState
<1>5. pending \in [DOMAIN pending -> PendingAck]
  BY <1>1
<1>6. TypeOK
  BY <1>1, <1>2, <1>3, <1>4, <1>5 DEF TypeOK
<1>7. HandlerInv /\ PendingInv /\ PostedInv /\ EarlyInv /\ NoLostCommit
  BY <1>1 DEF HandlerInv, PendingInv, PostedInv, EarlyInv, NoLostCommit
<1>8. AnsweredOnce /\ ReleasedHasQuorum
  BY <1>1 DEF AnsweredOnce, ReleasedHasQuorum
<1>9. QueueOrder /\ AckBound
  BY <1>4 DEF QueueOrder, AckBound
<1> QED BY <1>6, <1>7, <1>8, <1>9 DEF ManagerInv

\* The set of followers past an offset is finite.
LEMMA AcknowledgedFinite ==
  ASSUME NEW o
  PROVE  IsFiniteSet(Acknowledged(o))
BY ManagerAssumption, FS_Subset DEF Acknowledged

\* Every entry that reaches its quorum is one that was just changed, so the
\* erase removes exactly the entries whose ACK try_release sends.
LEMMA ReleaseFacts ==
  ASSUME TypeOK, PendingInv, NEW new, NEW touched,
         new \in [DOMAIN pending -> PendingAck], touched \subseteq DOMAIN pending,
         \A o \in DOMAIN pending : new[o].ack,
         \A o \in DOMAIN pending \ touched : new[o] = pending[o],
         Release(new, touched)
  PROVE  /\ DOMAIN pending' = {o \in DOMAIN pending : ~QuorumMet(new[o])}
         /\ \A o \in DOMAIN pending' : pending'[o] = new[o]
         /\ pending' \in [DOMAIN pending' -> PendingAck]
         /\ posted' \in [Offsets -> Nat]
         /\ \A o \in Offsets : posted'[o] = IF o \in DOMAIN pending /\ QuorumMet(new[o])
                                            THEN posted[o] + 1 ELSE posted[o]
<1> DEFINE done == {o \in DOMAIN new : QuorumMet(new[o])}
           sent == {o \in touched \cap done : new[o].ack}
<1>1. DOMAIN new = DOMAIN pending
  OBVIOUS
<1>2. \A o \in DOMAIN pending : ~QuorumMet(pending[o])
  BY DEF PendingInv
<1>3. sent = done
  BY <1>1, <1>2
<1>4. /\ pending' = [o \in DOMAIN new \ done |-> new[o]]
      /\ posted' = [o \in Offsets |-> IF o \in sent THEN posted[o] + 1 ELSE posted[o]]
  BY DEF Release
<1>5. posted \in [Offsets -> Nat]
  BY DEF TypeOK
<1>6. DOMAIN pending' = {o \in DOMAIN pending : ~QuorumMet(new[o])}
  BY <1>1, <1>4
<1>7. \A o \in DOMAIN pending' : pending'[o] = new[o]
  BY <1>4
<1>8. pending' \in [DOMAIN pending' -> PendingAck]
  BY <1>1, <1>4
<1>9. posted' \in [Offsets -> Nat]
  BY <1>4, <1>5
<1>10. \A o \in Offsets : posted'[o] = IF o \in DOMAIN pending /\ QuorumMet(new[o])
                                       THEN posted[o] + 1 ELSE posted[o]
  BY <1>1, <1>3, <1>4
<1> QED BY <1>6, <1>7, <1>8, <1>9, <1>10

-----------------------------------------------------------------------------
(* The event loop *)

\* Publish: the new offset is unregistered and nothing else moves.
LEMMA PublishInv == acks = "all" /\ ManagerInv /\ Publish => ManagerInv'
<1> SUFFICES ASSUME acks = "all", ManagerInv, Publish PROVE ManagerInv'
  OBVIOUS
<1> USE ManagerAssumption DEF ManagerInv, Publish, workerVars, Offsets
<1>0. /\ TypeOK /\ next_offset \in Nat /\ MaxOffset \in Nat /\ next_offset < MaxOffset
      /\ next_offset' = next_offset + 1
      /\ handler' = [pc |-> "defer", offset |-> next_offset]
      /\ UNCHANGED <<log_end, handed, attached, pending, posted, required, early, commit_queue, worker,
                     batch, running, notify, replicas>>
  BY SMTT(30) DEF TypeOK
<1>1. TypeOK'
  BY <1>0, SMTT(30) DEF TypeOK
<1>2. HandlerInv'
  BY <1>0 DEF HandlerInv, TypeOK
<1>3. PendingInv' /\ EarlyInv'
  BY <1>0 DEF PendingInv, EarlyInv, QuorumMet, Acknowledged, InBatch
<1>4. PostedInv' /\ AnsweredOnce' /\ ReleasedHasQuorum'
  BY <1>0 DEF PostedInv, AnsweredOnce, ReleasedHasQuorum, Acknowledged
<1>5. QueueOrder' /\ AckBound' /\ NoLostCommit'
  BY <1>0 DEF QueueOrder, AckBound, NoLostCommit
<1> QED BY <1>1, <1>2, <1>3, <1>4, <1>5

\* GetOrCreate: the manager appears with an empty queue.
LEMMA GetOrCreateInv == ManagerInv /\ GetOrCreate => ManagerInv'
<1> SUFFICES ASSUME ManagerInv, GetOrCreate PROVE ManagerInv'
  OBVIOUS
<1> USE DEF ManagerInv, GetOrCreate, storeVars, ackVars
<1>0. /\ UNCHANGED <<next_offset, log_end, handed, pending, posted, required, early, commit_queue,
                     batch, notify, replicas>>
      /\ attached' = TRUE
      /\ handler' = [handler EXCEPT !.pc = "register"]
      /\ handler \in [pc : {"idle", "defer", "register"}, offset : Nat]
      /\ handler.pc = "defer"
  BY DEF TypeOK
<1>1. handler'.pc = "register" /\ handler'.offset = handler.offset
      /\ handler' \in [pc : {"idle", "defer", "register"}, offset : Nat]
  BY <1>0
<1>2. running' \in BOOLEAN /\ attached' \in BOOLEAN
  BY Zenon DEF TypeOK
<1>3. worker' \in {worker, "loop"}
  OBVIOUS
<1>4. TypeOK'
  BY <1>0, <1>1, <1>2, <1>3 DEF TypeOK
<1>5. HandlerInv'
  BY <1>0, <1>1 DEF HandlerInv
<1>6. worker' # worker => ~attached
  OBVIOUS
<1>7. PendingInv'
  BY <1>0 DEF PendingInv, QuorumMet, Acknowledged
<1>8. EarlyInv'
  BY <1>0, <1>6 DEF EarlyInv, PendingInv, Acknowledged, InBatch
<1>9. PostedInv' /\ AnsweredOnce' /\ ReleasedHasQuorum'
  BY <1>0 DEF PostedInv, AnsweredOnce, ReleasedHasQuorum, Acknowledged
<1>10. QueueOrder' /\ AckBound' /\ NoLostCommit'
  BY <1>0, <1>3 DEF QueueOrder, AckBound, NoLostCommit
<1> QED BY <1>4, <1>5, <1>7, <1>8, <1>9, <1>10

\* RegisterPending: the new entry waits for the leader at least.
LEMMA RegisterInv == ManagerInv /\ RegisterPending => ManagerInv'
<1> SUFFICES ASSUME ManagerInv, RegisterPending PROVE ManagerInv'
  OBVIOUS
<1> USE ManagerAssumption DEF ManagerInv, RegisterPending, storeVars, workerVars
<1> DEFINE o == handler.offset
           need == NewPendingAck.isr_required
<1>0. /\ UNCHANGED <<next_offset, log_end, handed, attached, posted, commit_queue, worker, batch,
                     running, notify, replicas>>
      /\ handler' = Idle
      /\ attached /\ required[o] = -1 /\ next_offset > 0 /\ o = next_offset - 1
      /\ next_offset \in 0..MaxOffset
      /\ required \in [Offsets -> Nat \cup {-1}]
      /\ early \subseteq Offsets /\ DOMAIN pending \subseteq Offsets
  BY Zenon DEF HandlerInv, TypeOK
<1>1. o \in Offsets /\ o \in Nat
  BY <1>0 DEF Offsets
<1>2. IsFiniteSet(Isr) /\ Cardinality(Isr) \in Nat
  BY FS_Subset, FS_CardinalityType DEF Isr
<1>3. need \in Nat
  BY <1>2 DEF NewPendingAck
<1>4. NewPendingAck \in PendingAck /\ NewPendingAck.ack /\ ~NewPendingAck.leader_committed
      /\ NewPendingAck.isr_acked = 0 /\ NewPendingAck.acked_followers = {}
  BY <1>3 DEF NewPendingAck, PendingAck
<1>5. /\ DOMAIN pending' = DOMAIN pending \cup {o}
      /\ pending'[o] = NewPendingAck
      /\ \A x \in DOMAIN pending \ {o} : pending'[x] = pending[x]
      /\ required' = [required EXCEPT ![o] = need]
      /\ early' \subseteq early \cup {o}
      /\ o \in early' => o \in early \/ o >= log_end
  OBVIOUS
<1>6. o \notin DOMAIN pending
  <2>1. ASSUME o \in DOMAIN pending PROVE FALSE
    <3>1. pending[o].isr_required = -1
      BY <1>0, <2>1 DEF PendingInv
    <3>2. pending[o] \in PendingAck
      BY <2>1 DEF TypeOK
    <3> QED BY <3>1, <3>2 DEF PendingAck
  <2> QED BY <2>1
<1> HIDE DEF RegisterPending, o, need
<1>7. pending' \in [DOMAIN pending' -> PendingAck]
  <2>1. pending \in [DOMAIN pending -> PendingAck]
    BY DEF TypeOK
  <2> QED BY <1>4, <1>5, <2>1 DEF RegisterPending, o
<1>8. required' \in [Offsets -> Nat \cup {-1}] /\ required'[o] = need
      /\ \A x \in Offsets \ {o} : required'[x] = required[x]
  BY <1>0, <1>1, <1>3, <1>5, SMTT(30)
<1>9. TypeOK'
  BY <1>0, <1>1, <1>5, <1>7, <1>8, Zenon DEF TypeOK, Idle
<1>10. HandlerInv'
  <2>1. ASSUME NEW x \in Offsets, x >= next_offset PROVE required'[x] = -1
    BY <1>0, <1>1, <1>8, <2>1 DEF HandlerInv, Offsets
  <2>2. ASSUME NEW x \in early' PROVE required'[x] # -1
    BY <1>0, <1>3, <1>5, <1>8, <2>2 DEF HandlerInv
  <2> QED BY <1>0, <2>1, <2>2, Zenon DEF HandlerInv, Idle, Offsets
<1>11. PendingInv'
  <2> SUFFICES ASSUME NEW x \in DOMAIN pending' PROVE
        /\ attached' /\ pending'[x].ack /\ ~QuorumMet(pending'[x])
        /\ pending'[x].isr_required = required'[x]
        /\ pending'[x].leader_committed => x < handed'
        /\ pending'[x].isr_acked = Cardinality(pending'[x].acked_followers)
        /\ pending'[x].acked_followers \subseteq Acknowledged(x)'
    BY DEF PendingInv, QuorumMet
  <2>1. CASE x = o
    BY <1>0, <1>4, <1>5, <1>8, <2>1, FS_EmptySet, ZenonT(30) DEF QuorumMet, need
  <2>2. CASE x # o
    BY <1>0, <1>5, <1>8, <2>2 DEF PendingInv, QuorumMet, Acknowledged
  <2> QED BY <2>1, <2>2, Zenon
<1>12. EarlyInv'
  <2> SUFFICES ASSUME NEW x \in DOMAIN pending' \cap early' PROVE
        /\ Acknowledged(x)' \subseteq pending'[x].acked_followers
        /\ \/ pending'[x].leader_committed
           \/ x >= handed'
           \/ worker' = "release" /\ InBatch(x)'
           \/ \E i \in 1..Len(commit_queue') :
                commit_queue'[i].base <= x /\ x < commit_queue'[i].base + commit_queue'[i].count
    BY DEF EarlyInv
  <2>1. CASE x = o
    <3>1. o >= log_end
      BY <1>0, <1>5, <2>1 DEF HandlerInv
    <3>2. handed <= log_end /\ handed \in Nat /\ log_end \in Nat
      BY DEF TypeOK
    <3>3. \A f \in Live : replicas[f].ack_offset <= log_end /\ replicas[f].ack_offset \in Nat
      BY DEF AckBound, TypeOK, ReplicaState
    <3>4. Acknowledged(x)' = {}
      BY <1>0, <1>1, <2>1, <3>1, <3>2, <3>3, SMTT(30) DEF Acknowledged
    <3> QED BY <1>0, <1>1, <2>1, <3>1, <3>2, <3>4
  <2>2. CASE x # o
    BY <1>0, <1>5, <2>2, Zenon DEF EarlyInv, Acknowledged, InBatch
  <2> QED BY <2>1, <2>2
<1>13. PostedInv' /\ AnsweredOnce'
  BY <1>0, <1>1, <1>3, <1>5, <1>6, <1>8, SMTT(30) DEF PostedInv, AnsweredOnce
<1>14. ReleasedHasQuorum'
  <2>1. posted[o] = 0
    BY <1>0, <1>1 DEF PostedInv
  <2> QED BY <1>0, <1>8, <2>1 DEF ReleasedHasQuorum, Acknowledged
<1>15. QueueOrder' /\ AckBound' /\ NoLostCommit'
  BY <1>0, Zenon DEF QueueOrder, AckBound, NoLostCommit
<1> QED BY <1>9, <1>10, <1>11, <1>12, <1>13, <1>14, <1>15, SMTT(30)

-----------------------------------------------------------------------------
(* The store's I/O thread *)

\* StoreWrite: acknowledgements stay below the end of the log.
LEMMA StoreWriteInv == ManagerInv /\ StoreWrite => ManagerInv'
<1> SUFFICES ASSUME ManagerInv, StoreWrite PROVE ManagerInv'
  OBVIOUS
<1> USE ManagerAssumption DEF ManagerInv, StoreWrite, ackVars, workerVars
<1>0. /\ UNCHANGED <<next_offset, handed, attached, handler, pending, posted, required, early,
                     commit_queue, worker, batch, running, notify, replicas>>
      /\ log_end' \in (log_end + 1)..next_offset
      /\ log_end \in Nat /\ next_offset \in Nat /\ handed \in 0..log_end
  BY DEF TypeOK
<1>1. TypeOK'
  BY <1>0, SMTT(30) DEF TypeOK
<1>2. HandlerInv' /\ PendingInv' /\ EarlyInv'
  BY <1>0 DEF HandlerInv, PendingInv, EarlyInv, QuorumMet, Acknowledged, InBatch
<1>3. PostedInv' /\ AnsweredOnce' /\ ReleasedHasQuorum'
  BY <1>0 DEF PostedInv, AnsweredOnce, ReleasedHasQuorum, Acknowledged
<1>4. \A f \in Live : replicas[f].ack_offset \in Nat
  BY SMTT(30) DEF TypeOK, ReplicaState
<1>5. QueueOrder' /\ AckBound' /\ NoLostCommit'
  BY <1>0, <1>4 DEF QueueOrder, AckBound, NoLostCommit
<1> QED BY <1>1, <1>2, <1>3, <1>5

\* EnqueueCommitted: the new batch continues the queue and covers every entry
\* that was not handed over before.
LEMMA EnqueueInv == ManagerInv /\ EnqueueCommitted => ManagerInv'
<1> SUFFICES ASSUME ManagerInv, EnqueueCommitted PROVE ManagerInv'
  OBVIOUS
<1> USE ManagerAssumption DEF ManagerInv, ackVars
<1> DEFINE new == [base |-> handed, count |-> log_end - handed]
           Q == Len(commit_queue)
<1>0. /\ UNCHANGED <<next_offset, log_end, attached, handler, pending, posted, required, early,
                     batch, running, notify, replicas>>
      /\ handed' = log_end /\ handed < log_end
      /\ log_end \in Nat /\ next_offset \in Nat /\ handed \in Nat
      /\ commit_queue \in Seq(QueuedCommit) /\ Q \in Nat
      /\ DOMAIN pending \subseteq Offsets /\ batch \in QueuedCommit
  BY DEF TypeOK, EnqueueCommitted
<1>1. new \in QueuedCommit
  BY <1>0 DEF QueuedCommit
<1>4. ReleasedHasQuorum'
  <2> SUFFICES ASSUME NEW o \in Offsets, posted[o] > 0
               PROVE  o < log_end /\ Cardinality(Acknowledged(o)') >= required[o]
    BY <1>0 DEF ReleasedHasQuorum, Offsets
  <2>1. o < handed /\ Cardinality(Acknowledged(o)) >= required[o]
    BY DEF ReleasedHasQuorum
  <2>2. Acknowledged(o)' = Acknowledged(o)
    BY <1>0 DEF Acknowledged
  <2>3. o \in Int
    BY DEF Offsets
  <2> QED BY <1>0, <2>1, <2>2, <2>3
<1>2. CASE attached
  <2>1. /\ commit_queue' = Append(commit_queue, new)
        /\ worker' = IF worker = "blocked" THEN "wait" ELSE worker
        /\ worker # "blocking"
    BY <1>2, Zenon DEF EnqueueCommitted
  <2>2. /\ commit_queue' \in Seq(QueuedCommit) /\ Len(commit_queue') = Q + 1
        /\ \A i \in 1..Q : commit_queue'[i] = commit_queue[i]
        /\ commit_queue'[Q + 1] = new
    BY <1>0, <1>1, <2>1
  <2>3. TypeOK'
    BY <1>0, <2>1, <2>2, SMTT(30) DEF TypeOK
  <2>4. \A o \in DOMAIN pending : o \in Nat
    BY <1>0 DEF Offsets
  <2>5. PendingInv'
    BY <1>0, <2>4, SMTT(30) DEF PendingInv, QuorumMet, Acknowledged
  <2>6. EarlyInv'
    <3> SUFFICES ASSUME NEW o \in DOMAIN pending \cap early PROVE
          /\ Acknowledged(o)' \subseteq pending'[o].acked_followers
          /\ \/ pending'[o].leader_committed
             \/ o >= handed'
             \/ worker' = "release" /\ InBatch(o)'
             \/ \E i \in 1..Len(commit_queue') :
                  commit_queue'[i].base <= o /\ o < commit_queue'[i].base + commit_queue'[i].count
      BY <1>0, Zenon DEF EarlyInv
    <3>1. Acknowledged(o)' \subseteq pending'[o].acked_followers
      BY <1>0 DEF EarlyInv, Acknowledged
    <3>2. CASE pending[o].leader_committed
      BY <1>0, <3>1, <3>2, SMTT(30)
    <3>3. CASE o >= handed
      <4>1. o \in Nat
        BY <2>4
      <4>2. new.base = handed /\ new.base + new.count = log_end
        BY <1>0
      <4>3. CASE o >= log_end
        BY <1>0, <3>1, <4>3, SMTT(30)
      <4>4. CASE o < log_end
        BY <1>0, <2>2, <3>1, <3>3, <4>1, <4>2, <4>4, SMTT(30)
      <4> QED BY <1>0, <4>1, <4>3, <4>4
    <3>4. CASE worker = "release" /\ InBatch(o)
      BY <1>0, <2>1, <3>1, <3>4, Zenon DEF InBatch
    <3>5. CASE \E i \in 1..Q : commit_queue[i].base <= o /\ o < commit_queue[i].base + commit_queue[i].count
      BY <1>0, <2>2, <3>1, <3>5, SMTT(30)
    <3> QED BY <3>2, <3>3, <3>4, <3>5, Zenon DEF EarlyInv
  <2>7. QueueOrder'
    <3>1. \A i \in 1..Q : commit_queue[i] \in QueuedCommit
      BY <1>0
    <3>2. replicas[Leader].ack_offset \in Nat
      BY DEF TypeOK, ReplicaState
    <3>3. batch.base \in Nat /\ batch.count \in Nat
      BY <1>0 DEF QueuedCommit
    <3>4. \A i \in 1..Q : commit_queue[i].base \in Nat /\ commit_queue[i].count \in Nat
      BY <3>1 DEF QueuedCommit
    <3>5. new.base = handed /\ new.base + new.count = log_end
      BY <1>0
    <3> HIDE DEF new, Q
    <3>6. ASSUME NEW i \in 1..(Q + 1) PROVE
            /\ replicas[Leader].ack_offset <= commit_queue'[i].base
            /\ batch.base + batch.count <= commit_queue'[i].base
            /\ commit_queue'[i].base + commit_queue'[i].count <= log_end
      <4>1. CASE i \in 1..Q
        BY <1>0, <2>2, <3>2, <3>3, <3>4, <4>1, SMTT(30) DEF QueueOrder, Q
      <4>2. CASE i = Q + 1
        BY <1>0, <2>2, <3>5, <4>2 DEF QueueOrder
      <4> QED BY <1>0, <4>1, <4>2, SMTT(30)
    <3>7. ASSUME NEW i \in 1..(Q + 1), NEW j \in 1..(Q + 1), i < j
          PROVE  commit_queue'[i].base + commit_queue'[i].count <= commit_queue'[j].base
      <4>1. i \in 1..Q
        BY <1>0, <3>7, SMTT(30)
      <4>2. CASE j \in 1..Q
        BY <2>2, <3>7, <4>1, <4>2, Zenon DEF QueueOrder, Q
      <4>3. CASE j = Q + 1
        BY <2>2, <3>5, <4>1, <4>3, Zenon DEF QueueOrder, Q
      <4> QED BY <1>0, <4>2, <4>3
    <3>8. replicas[Leader].ack_offset <= log_end /\ batch.base + batch.count <= log_end
      BY <1>0, <3>2, <3>3, SMTT(30) DEF QueueOrder
    <3>9. worker' \in {"release", "meta"} => replicas[Leader].ack_offset <= batch.base
      BY <2>1, Zenon DEF QueueOrder
    <3> QED BY <1>0, <2>2, <3>6, <3>7, <3>8, <3>9, Zenon DEF QueueOrder
  <2>8. NoLostCommit'
    BY <2>1, SMTT(30) DEF NoLostCommit
  <2>9. HandlerInv' /\ PostedInv' /\ AnsweredOnce' /\ AckBound'
    BY <1>0, Zenon DEF HandlerInv, PostedInv, AnsweredOnce, AckBound
  <2> QED BY <1>4, <2>3, <2>5, <2>6, <2>7, <2>8, <2>9, SMTT(30)
<1>3. CASE ~attached
  <2>1. commit_queue' = commit_queue /\ worker' = worker
    BY <1>3 DEF EnqueueCommitted
  <2>2. DOMAIN pending = {}
    BY <1>3, ZenonT(30) DEF PendingInv
  <2>3. TypeOK'
    BY <1>0, <2>1 DEF TypeOK
  <2>4. PendingInv' /\ EarlyInv' /\ HandlerInv' /\ PostedInv' /\ AnsweredOnce' /\ AckBound' /\ NoLostCommit'
    BY <1>0, <2>1, <2>2, Zenon DEF PendingInv, EarlyInv, HandlerInv, PostedInv, AnsweredOnce, AckBound, NoLostCommit
  <2>6. QueueOrder'
    <3>0. \A i \in 1..Q : commit_queue[i] \in QueuedCommit
      BY <1>0
    <3>1. \A i \in 1..Q : commit_queue[i].base \in Nat /\ commit_queue[i].count \in Nat
      BY <3>0 DEF QueuedCommit
    <3>2. replicas[Leader].ack_offset \in Nat /\ batch.base \in Nat /\ batch.count \in Nat
      BY <1>0 DEF TypeOK, ReplicaState, QueuedCommit
    <3>3. ASSUME NEW i \in 1..Q
          PROVE  commit_queue[i].base + commit_queue[i].count <= log_end
      BY <1>0, <3>1 DEF QueueOrder
    <3>4. replicas[Leader].ack_offset <= log_end /\ batch.base + batch.count <= log_end
      BY <1>0, <3>2 DEF QueueOrder
    <3> QED BY <1>0, <2>1, <3>3, <3>4, Zenon DEF QueueOrder
  <2> QED BY <1>4, <2>3, <2>4, <2>6, SMTT(30)
<1> QED BY <1>2, <1>3

-----------------------------------------------------------------------------
(* The worker thread and stop() *)

\* Steps that move only the control of the worker and of stop().
LEMMA ControlInv ==
  ASSUME ManagerInv, UNCHANGED <<storeVars, attached, handler, ackVars, commit_queue, batch, replicas>>,
         running' \in BOOLEAN, notify' \in BOOLEAN,
         worker' # worker => /\ worker # "release"
                             /\ worker' \in {"loop", "wait", "blocking", "blocked", "exited"},
         worker' \in {"blocking", "blocked"} => commit_queue = <<>>
  PROVE  ManagerInv'
<1> USE DEF ManagerInv, storeVars, ackVars
<1>1. TypeOK'
  BY Zenon DEF TypeOK
<1>2. HandlerInv' /\ PendingInv' /\ EarlyInv'
  BY Zenon DEF HandlerInv, PendingInv, EarlyInv, QuorumMet, Acknowledged, InBatch
<1>3. PostedInv' /\ AnsweredOnce' /\ ReleasedHasQuorum'
  BY ZenonT(30) DEF PostedInv, AnsweredOnce, ReleasedHasQuorum, Acknowledged
<1>4. QueueOrder' /\ AckBound' /\ NoLostCommit'
  BY Zenon DEF QueueOrder, AckBound, NoLostCommit
<1> QED BY <1>1, <1>2, <1>3, <1>4

\* The worker's loop test and its wait, and the two steps of stop().
LEMMA ControlStepsInv ==
  ManagerInv /\ (WorkerLoop \/ WorkerCheck \/ WorkerBlock \/ StopFlag \/ StopNotify) => ManagerInv'
<1> SUFFICES ASSUME ManagerInv, WorkerLoop \/ WorkerCheck \/ WorkerBlock \/ StopFlag \/ StopNotify
             PROVE  ManagerInv'
  OBVIOUS
<1>1. UNCHANGED <<storeVars, attached, handler, ackVars, commit_queue, batch, replicas>>
  BY DEF WorkerLoop, WorkerCheck, WorkerBlock, StopFlag, StopNotify
<1>2. running' \in BOOLEAN /\ notify' \in BOOLEAN
  <2>1. running \in BOOLEAN /\ notify \in BOOLEAN
    BY Zenon DEF ManagerInv, TypeOK
  <2> QED BY <2>1, Zenon DEF WorkerLoop, WorkerCheck, WorkerBlock, StopFlag, StopNotify
<1>3. worker' # worker => /\ worker # "release"
                          /\ worker' \in {"loop", "wait", "blocking", "blocked", "exited"}
  BY DEF WorkerLoop, WorkerCheck, WorkerBlock, StopFlag, StopNotify
<1>4. worker' \in {"blocking", "blocked"} => commit_queue = <<>>
  BY DEF WorkerLoop, WorkerCheck, WorkerBlock, StopFlag, StopNotify, ManagerInv, NoLostCommit
<1> QED BY <1>1, <1>2, <1>3, <1>4, ControlInv

\* WorkerTake: what leaves the queue is the batch in hand.
LEMMA TakeInv == ManagerInv /\ WorkerTake => ManagerInv'
<1> SUFFICES ASSUME ManagerInv, WorkerTake PROVE ManagerInv'
  OBVIOUS
<1>1. CASE commit_queue = <<>>
  <2>1. worker = "wait" /\ worker' = "exited"
        /\ UNCHANGED <<storeVars, attached, handler, ackVars, commit_queue, batch, replicas, running, notify>>
    BY <1>1 DEF WorkerTake
  <2>2. running' \in BOOLEAN /\ notify' \in BOOLEAN
    BY <2>1, Zenon DEF ManagerInv, TypeOK
  <2> QED BY <2>1, <2>2, ControlInv
<1>2. CASE commit_queue # <<>>
  <2> USE DEF ManagerInv
  <2> DEFINE Q == Len(commit_queue)
  <2>0. /\ UNCHANGED <<next_offset, log_end, handed, attached, handler, pending, posted, required, early,
                       running, notify, replicas>>
        /\ batch' = Head(commit_queue) /\ commit_queue' = Tail(commit_queue)
        /\ worker = "wait" /\ worker' = "release"
        /\ commit_queue \in Seq(QueuedCommit) /\ handed \in Nat
    BY <1>2 DEF WorkerTake, TypeOK, storeVars, ackVars
  <2>1. /\ commit_queue' \in Seq(QueuedCommit) /\ Q \in Nat /\ Q >= 1 /\ Len(commit_queue') = Q - 1
        /\ \A i \in 1..(Q - 1) : commit_queue'[i] = commit_queue[i + 1]
        /\ batch' = commit_queue[1] /\ batch' \in QueuedCommit
    BY <1>2, <2>0
  <2>2. \A i \in 1..Q : commit_queue[i] \in QueuedCommit
    BY <2>0
  <2>3. \A i \in 1..Q : commit_queue[i].base \in Nat /\ commit_queue[i].count \in Nat
    BY <2>2 DEF QueuedCommit
  <2>4. TypeOK'
    BY <2>0, <2>1, Zenon DEF TypeOK
  <2>5. HandlerInv' /\ PendingInv' /\ PostedInv' /\ AnsweredOnce' /\ AckBound' /\ NoLostCommit'
    BY <2>0, Zenon DEF HandlerInv, PendingInv, PostedInv, AnsweredOnce, AckBound, NoLostCommit, QuorumMet,
                Acknowledged
  <2>6. ReleasedHasQuorum'
    BY <2>0, ZenonT(30) DEF ReleasedHasQuorum, Acknowledged
  <2> HIDE DEF Q
  <2>7. QueueOrder'
    <3>1. ASSUME NEW i \in 1..(Q - 1)
          PROVE  /\ replicas[Leader].ack_offset <= commit_queue'[i].base
                 /\ batch'.base + batch'.count <= commit_queue'[i].base
                 /\ commit_queue'[i].base + commit_queue'[i].count <= handed
      <4>1. i + 1 \in 1..Q /\ 1 \in 1..Q /\ 1 < i + 1
        BY <2>1
      <4> QED BY <2>1, <4>1, Zenon DEF QueueOrder, Q
    <3>2. ASSUME NEW i \in 1..(Q - 1), NEW j \in 1..(Q - 1), i < j
          PROVE  commit_queue'[i].base + commit_queue'[i].count <= commit_queue'[j].base
      <4>1. i + 1 \in 1..Q /\ j + 1 \in 1..Q /\ i + 1 < j + 1
        BY <2>1, <3>2
      <4> QED BY <2>1, <4>1, Zenon DEF QueueOrder, Q
    <3>3. /\ replicas[Leader].ack_offset <= handed
          /\ batch'.base + batch'.count <= handed
          /\ replicas[Leader].ack_offset <= batch'.base
      <4>1. 1 \in 1..Q
        BY <2>1, SMTT(30)
      <4> QED BY <2>1, <4>1, Zenon DEF QueueOrder, Q
    <3> QED BY <2>0, <2>1, <3>1, <3>2, <3>3, Zenon DEF QueueOrder
  <2>8. EarlyInv'
    <3> SUFFICES ASSUME NEW o \in DOMAIN pending \cap early PROVE
          /\ Acknowledged(o)' \subseteq pending'[o].acked_followers
          /\ \/ pending'[o].leader_committed
             \/ o >= handed'
             \/ worker' = "release" /\ InBatch(o)'
             \/ \E i \in 1..Len(commit_queue') :
                  commit_queue'[i].base <= o /\ o < commit_queue'[i].base + commit_queue'[i].count
      BY <2>0, Zenon DEF EarlyInv
    <3>1. Acknowledged(o)' \subseteq pending'[o].acked_followers
      BY <2>0, Zenon DEF EarlyInv, Acknowledged
    <3>2. CASE pending[o].leader_committed \/ o >= handed
      BY <2>0, <3>1, <3>2, Zenon
    <3>3. CASE \E i \in 1..Q : commit_queue[i].base <= o /\ o < commit_queue[i].base + commit_queue[i].count
      <4>1. PICK i \in 1..Q : commit_queue[i].base <= o /\ o < commit_queue[i].base + commit_queue[i].count
        BY <3>3, SMTT(30)
      <4>2. CASE i = 1
        BY <2>0, <2>1, <3>1, <4>1, <4>2, Zenon DEF InBatch
      <4>3. CASE i # 1
        <5>1. i - 1 \in 1..(Q - 1) /\ commit_queue'[i - 1] = commit_queue[i]
          BY <2>1, <4>3
        <5> QED BY <2>1, <3>1, <4>1, <5>1, Zenon
      <4> QED BY <4>2, <4>3, Zenon
    <3>4. \/ pending[o].leader_committed \/ o >= handed
          \/ \E i \in 1..Q : commit_queue[i].base <= o /\ o < commit_queue[i].base + commit_queue[i].count
      BY <2>0, Zenon DEF EarlyInv, Q
    <3> QED BY <3>2, <3>3, <3>4, Zenon
  <2> QED BY <2>4, <2>5, <2>6, <2>7, <2>8, SMTT(30)
<1> QED BY <1>1, <1>2

\* WorkerMeta: the leader's progress is the end of the batch just released.
LEMMA MetaInv == ManagerInv /\ WorkerMeta => ManagerInv'
<1> SUFFICES ASSUME ManagerInv, WorkerMeta PROVE ManagerInv'
  OBVIOUS
<1> USE ManagerAssumption DEF ManagerInv
<1> DEFINE L == replicas[Leader].ack_offset
<1>0. /\ UNCHANGED <<next_offset, log_end, handed, attached, handler, pending, posted, required, early,
                     commit_queue, running, notify>>
      /\ replicas' = [replicas EXCEPT ![Leader].ack_offset = Larger(@, batch.base + batch.count)]
      /\ worker = "meta" /\ worker' = "loop" /\ batch' = NoBatch
      /\ replicas \in [Replicas -> ReplicaState] /\ batch \in QueuedCommit
      /\ commit_queue \in Seq(QueuedCommit) /\ handed \in Nat
  BY DEF WorkerMeta, TypeOK, storeVars, ackVars
<1>1. batch.base \in Nat /\ batch.count \in Nat /\ L \in Nat
  BY <1>0 DEF QueuedCommit, ReplicaState
<1>2. L <= batch.base
  BY <1>0 DEF QueueOrder
<1>3. /\ replicas'[Leader].ack_offset = batch.base + batch.count
      /\ \A f \in Replicas \ {Leader} : replicas'[f] = replicas[f]
      /\ replicas' \in [Replicas -> ReplicaState]
  <2>1. Larger(L, batch.base + batch.count) = batch.base + batch.count
    BY <1>1, <1>2 DEF Larger
  <2>2. batch.base + batch.count \in Nat
    BY <1>1
  <2>3. replicas' = [replicas EXCEPT ![Leader] = [replicas[Leader] EXCEPT !.ack_offset = batch.base + batch.count]]
    BY <1>0, <2>1, ZenonT(30)
  <2> QED BY <1>0, <2>2, <2>3 DEF ReplicaState
<1>4. \A o : Acknowledged(o)' = Acknowledged(o)
  BY <1>3, Zenon DEF Acknowledged
<1>5. TypeOK'
  BY <1>0, <1>3, Zenon DEF TypeOK, NoBatch, QueuedCommit
<1>6. HandlerInv' /\ PendingInv' /\ PostedInv' /\ AnsweredOnce' /\ AckBound' /\ NoLostCommit'
  BY <1>0, <1>3, <1>4 DEF HandlerInv, PendingInv, PostedInv, AnsweredOnce, AckBound, NoLostCommit, QuorumMet
<1>7. ReleasedHasQuorum'
  BY <1>0, <1>4, Zenon DEF ReleasedHasQuorum
<1>8. EarlyInv'
  BY <1>0, <1>4 DEF EarlyInv, InBatch
<1>9. QueueOrder'
  <2>1. \A i \in 1..Len(commit_queue) : commit_queue[i] \in QueuedCommit
    BY <1>0
  <2>2. \A i \in 1..Len(commit_queue) : commit_queue[i].base \in Nat
    BY <2>1 DEF QueuedCommit
  <2>3. batch'.base + batch'.count = 0
    BY <1>0 DEF NoBatch
  <2> QED BY <1>0, <1>1, <1>3, <2>2, <2>3, SMTT(60) DEF QueueOrder
<1> QED BY <1>5, <1>6, <1>7, <1>8, <1>9

-----------------------------------------------------------------------------
(* Releasing ACKs *)

\* A finite set is at least as large as each of its subsets.
LEMMA SubsetCard ==
  ASSUME NEW S, NEW T, IsFiniteSet(T), S \subseteq T
  PROVE  Cardinality(S) \in Nat /\ Cardinality(T) \in Nat /\ Cardinality(S) <= Cardinality(T)
PROOF BY FS_Subset, FS_CardinalityType

\* Enough stays enough.
LEMMA EnoughKept ==
  ASSUME NEW a \in Nat, NEW b \in Nat, NEW n \in Int, a >= n, a <= b
  PROVE  b >= n
PROOF OBVIOUS

\* A release keeps the answers right, if the changed entries count their
\* followers, all of whom have acknowledged, and are committed only below handed.
LEMMA ReleaseKeepsAnswers ==
  ASSUME ManagerInv, NEW new, NEW touched,
         new \in [DOMAIN pending -> PendingAck], touched \subseteq DOMAIN pending,
         \A o \in DOMAIN pending \ touched : new[o] = pending[o],
         \A o \in DOMAIN pending :
           /\ new[o].ack /\ new[o].isr_required = pending[o].isr_required
           /\ new[o].leader_committed => o < handed
           /\ new[o].isr_acked = Cardinality(new[o].acked_followers)
           /\ new[o].acked_followers \subseteq Acknowledged(o)',
         \A o \in Offsets : Acknowledged(o) \subseteq Acknowledged(o)',
         \A o \in Offsets : IsFiniteSet(Acknowledged(o)'),
         Release(new, touched), UNCHANGED <<handed, attached, required, early>>
  PROVE  /\ PendingInv' /\ PostedInv' /\ AnsweredOnce' /\ ReleasedHasQuorum'
         /\ DOMAIN pending' \subseteq DOMAIN pending
         /\ \A o \in DOMAIN pending' : pending'[o] = new[o]
         /\ pending' \in [DOMAIN pending' -> PendingAck]
         /\ posted' \in [Offsets -> Nat]
<1> USE DEF ManagerInv
<1>1. /\ DOMAIN pending' = {o \in DOMAIN pending : ~QuorumMet(new[o])}
      /\ \A o \in DOMAIN pending' : pending'[o] = new[o]
      /\ pending' \in [DOMAIN pending' -> PendingAck]
      /\ posted' \in [Offsets -> Nat]
      /\ \A o \in Offsets : posted'[o] = IF o \in DOMAIN pending /\ QuorumMet(new[o])
                                         THEN posted[o] + 1 ELSE posted[o]
  BY ReleaseFacts, ZenonT(30)
<1>2. DOMAIN pending \subseteq Offsets /\ posted \in [Offsets -> Nat]
      /\ required \in [Offsets -> Nat \cup {-1}] /\ handed \in Nat
  BY DEF TypeOK
<1>3. \A o \in DOMAIN pending : /\ pending[o].isr_required = required[o] /\ attached
                                /\ required[o] \in Nat
  <2>1. \A o \in DOMAIN pending : pending[o].isr_required \in Nat
    BY Zenon DEF TypeOK, PendingAck
  <2> QED BY <2>1, Zenon DEF PendingInv
<1>4. PendingInv'
  <2> SUFFICES ASSUME NEW o \in DOMAIN pending' PROVE
        /\ attached' /\ pending'[o].ack /\ ~QuorumMet(pending'[o])
        /\ pending'[o].isr_required = required'[o]
        /\ pending'[o].leader_committed => o < handed'
        /\ pending'[o].isr_acked = Cardinality(pending'[o].acked_followers)
        /\ pending'[o].acked_followers \subseteq Acknowledged(o)'
    BY Zenon DEF PendingInv, QuorumMet
  <2> QED BY <1>1, <1>3, Zenon
<1>5. PostedInv'
  <2> SUFFICES ASSUME NEW o \in Offsets, required[o] = -1 PROVE posted'[o] = 0
    BY Zenon DEF PostedInv
  <2>1. o \notin DOMAIN pending
    BY <1>3
  <2> QED BY <1>1, <2>1, SMTT(60) DEF PostedInv
<1>6. AnsweredOnce'
  <2>1. required' = required
    BY Zenon
  <2> SUFFICES ASSUME NEW o \in Offsets, required[o] >= 0
               PROVE  posted'[o] = IF o \in DOMAIN pending' THEN 0 ELSE 1
    BY <2>1, Zenon DEF AnsweredOnce
  <2>2. posted[o] = IF o \in DOMAIN pending THEN 0 ELSE 1
    BY Zenon DEF AnsweredOnce
  <2> QED BY <1>1, <2>2, SMTT(60)
<1>7. ReleasedHasQuorum'
  <2>0. required' = required /\ handed' = handed
    BY Zenon
  <2> SUFFICES ASSUME NEW o \in Offsets, posted'[o] > 0
               PROVE  o < handed /\ Cardinality(Acknowledged(o)') >= required[o]
    BY <2>0, Zenon DEF ReleasedHasQuorum
  <2>1. required[o] \in Int
    BY <1>2
  <2>2. /\ Cardinality(Acknowledged(o)') \in Nat /\ Cardinality(Acknowledged(o)) \in Nat
        /\ Cardinality(Acknowledged(o)) <= Cardinality(Acknowledged(o)')
    BY SubsetCard, Zenon
  <2>3. CASE o \in DOMAIN pending /\ QuorumMet(new[o])
    <3>1. o < handed /\ new[o].isr_acked >= required[o]
      BY <1>3, <2>3, Zenon DEF QuorumMet
    <3>2. /\ Cardinality(new[o].acked_followers) \in Nat
          /\ Cardinality(new[o].acked_followers) <= Cardinality(Acknowledged(o)')
      BY <2>3, SubsetCard, Zenon
    <3>3. new[o].isr_acked = Cardinality(new[o].acked_followers)
      BY <2>3, Zenon
    <3>4. Cardinality(new[o].acked_followers) >= required[o]
      BY <3>1, <3>3, Zenon
    <3>5. Cardinality(Acknowledged(o)') >= required[o]
      BY <2>1, <2>2, <3>2, <3>4, EnoughKept, ZenonT(60)
    <3> QED BY <3>1, <3>5, Zenon
  <2>4. CASE ~(o \in DOMAIN pending /\ QuorumMet(new[o]))
    <3>1. posted[o] > 0
      BY <1>1, <2>4, Zenon
    <3>2. o < handed /\ Cardinality(Acknowledged(o)) >= required[o]
      BY <3>1, Zenon DEF ReleasedHasQuorum
    <3> QED BY <2>1, <2>2, <3>2, EnoughKept, Zenon
  <2> QED BY <2>3, <2>4, Zenon
<1> QED BY <1>1, <1>4, <1>5, <1>6, <1>7, Zenon

\* WorkerRelease: the entries of the batch become committed.
LEMMA WorkerReleaseInv == ManagerInv /\ WorkerRelease => ManagerInv'
<1> SUFFICES ASSUME ManagerInv, WorkerRelease PROVE ManagerInv'
  OBVIOUS
<1> USE ManagerAssumption DEF ManagerInv
<1> DEFINE touched == {o \in DOMAIN pending : InBatch(o)}
           new == [o \in DOMAIN pending |->
                     IF o \in touched THEN [pending[o] EXCEPT !.leader_committed = TRUE]
                     ELSE pending[o]]
<1>0. /\ UNCHANGED <<next_offset, log_end, handed, attached, handler, required, early, commit_queue, batch,
                     running, notify, replicas>>
      /\ worker = "release" /\ worker' = "meta" /\ Release(new, touched)
  BY DEF WorkerRelease, storeVars
<1>1. /\ pending \in [DOMAIN pending -> PendingAck] /\ DOMAIN pending \subseteq Offsets
      /\ handed \in Nat /\ batch \in QueuedCommit
  BY DEF TypeOK
<1>2. batch.base \in Nat /\ batch.count \in Nat /\ batch.base + batch.count <= handed
  BY <1>1 DEF QueuedCommit, QueueOrder
<1>3. new \in [DOMAIN pending -> PendingAck]
  BY <1>1, ZenonT(30) DEF PendingAck
<1>4. \A o : Acknowledged(o)' = Acknowledged(o)
  BY <1>0 DEF Acknowledged
<1>5. \A o \in DOMAIN pending :
        /\ new[o].isr_required = pending[o].isr_required /\ new[o].isr_acked = pending[o].isr_acked
        /\ new[o].ack = pending[o].ack /\ new[o].acked_followers = pending[o].acked_followers
        /\ o \in touched => new[o].leader_committed
        /\ o \notin touched => new[o] = pending[o]
  BY <1>1 DEF PendingAck
<1>6. \A o \in touched : o < handed
  <2>1. \A o \in touched : o \in Int
    BY <1>1 DEF Offsets
  <2> QED BY <1>1, <1>2, <2>1 DEF InBatch
<1>7. \A o \in DOMAIN pending :
        /\ new[o].ack /\ new[o].isr_required = pending[o].isr_required
        /\ new[o].leader_committed => o < handed
        /\ new[o].isr_acked = Cardinality(new[o].acked_followers)
        /\ new[o].acked_followers \subseteq Acknowledged(o)'
  BY <1>4, <1>5, <1>6 DEF PendingInv
<1>8. touched \subseteq DOMAIN pending /\ \A o \in DOMAIN pending \ touched : new[o] = pending[o]
  BY <1>5
<1>9. \A o \in Offsets : Acknowledged(o) \subseteq Acknowledged(o)' /\ IsFiniteSet(Acknowledged(o)')
  BY <1>4, AcknowledgedFinite
<1> HIDE DEF touched, new
<1>10. /\ PendingInv' /\ PostedInv' /\ AnsweredOnce' /\ ReleasedHasQuorum'
       /\ DOMAIN pending' \subseteq DOMAIN pending
       /\ \A o \in DOMAIN pending' : pending'[o] = new[o]
       /\ pending' \in [DOMAIN pending' -> PendingAck]
       /\ posted' \in [Offsets -> Nat]
  BY <1>0, <1>3, <1>7, <1>8, <1>9, ReleaseKeepsAnswers, Zenon
<1>11. TypeOK'
  BY <1>0, <1>10, Zenon DEF TypeOK
<1>12. HandlerInv' /\ AckBound' /\ NoLostCommit' /\ QueueOrder'
  BY <1>0, ZenonT(60) DEF HandlerInv, AckBound, NoLostCommit, QueueOrder
<1>13. EarlyInv'
  BY <1>0, <1>4, <1>5, <1>10, SMTT(60) DEF EarlyInv, touched
<1> QED BY <1>10, <1>11, <1>12, <1>13

\* OnReplicaAck: the follower is counted once per entry it has passed.
LEMMA ReplicaAckInv ==
  ASSUME ManagerInv, NEW f \in Live, NEW a \in 1..log_end, OnReplicaAck(f, a)
  PROVE  ManagerInv'
<1> USE ManagerAssumption DEF ManagerInv
<1> DEFINE touched == {o \in DOMAIN pending : a > o /\ f \notin pending[o].acked_followers}
           new == [o \in DOMAIN pending |->
                     IF o \in touched
                     THEN [pending[o] EXCEPT !.acked_followers = @ \cup {f}, !.isr_acked = @ + 1]
                     ELSE pending[o]]
           top == Larger(replicas[f].ack_offset, a)
<1>0. /\ UNCHANGED <<next_offset, log_end, handed, attached, handler, required, early, commit_queue, worker,
                     batch, running, notify>>
      /\ replicas' = [replicas EXCEPT ![f] = AckedReplica(replicas[f], a)]
      /\ Release(new, touched)
  BY ZenonT(30) DEF OnReplicaAck, storeVars, workerVars
<1>1. /\ pending \in [DOMAIN pending -> PendingAck] /\ DOMAIN pending \subseteq Offsets
      /\ log_end \in Nat /\ replicas \in [Replicas -> ReplicaState] /\ a \in Nat
      /\ f \in Replicas /\ f # Leader
  BY DEF TypeOK
<1>2. replicas[f].ack_offset \in Nat /\ replicas[f].ack_offset <= log_end
  BY <1>1 DEF ReplicaState, AckBound
<1>3. top \in Nat /\ top >= a /\ top >= replicas[f].ack_offset /\ top <= log_end
      /\ top \in {a, replicas[f].ack_offset}
  BY <1>1, <1>2, SMTT(60) DEF Larger
<1>4. /\ AckedReplica(replicas[f], a).ack_offset = top
      /\ AckedReplica(replicas[f], a) \in ReplicaState
  <2>1. replicas[f].in_isr \in BOOLEAN
    BY <1>1, SMTT(60) DEF ReplicaState
  <2> QED BY <1>3, <2>1, Zenon DEF AckedReplica, ReplicaState
<1>5. /\ replicas' \in [Replicas -> ReplicaState] /\ replicas'[f].ack_offset = top
      /\ \A r \in Replicas \ {f} : replicas'[r] = replicas[r]
  BY <1>0, <1>1, <1>4, ZenonT(30)
<1> HIDE DEF top
<1>6. \A o \in Offsets : /\ Acknowledged(o) \subseteq Acknowledged(o)'
                         /\ Acknowledged(o)' \subseteq Acknowledged(o) \cup {f}
                         /\ a > o => f \in Acknowledged(o)'
                         /\ f \in Acknowledged(o)' => a > o \/ f \in Acknowledged(o)
  BY <1>1, <1>2, <1>3, <1>5, SMTT(60) DEF Acknowledged, Offsets
<1>7. \A o \in Offsets : IsFiniteSet(Acknowledged(o)')
  BY FS_Subset, Zenon DEF Acknowledged
<1>8. \A o \in DOMAIN pending : /\ pending[o] \in PendingAck
                                /\ IsFiniteSet(pending[o].acked_followers)
  BY <1>1, AcknowledgedFinite, FS_Subset, SMTT(60) DEF PendingInv
<1>9. new \in [DOMAIN pending -> PendingAck]
  <2>1. ASSUME NEW o \in DOMAIN pending
        PROVE  [pending[o] EXCEPT !.acked_followers = @ \cup {f}, !.isr_acked = @ + 1] \in PendingAck
    <3>1. pending[o].acked_followers \cup {f} \in SUBSET Live /\ pending[o].isr_acked + 1 \in Nat
      BY <1>8 DEF PendingAck
    <3> QED BY <1>8, <3>1, ZenonT(30) DEF PendingAck
  <2> QED BY <1>8, <2>1, ZenonT(30)
<1>10. \A o \in touched :
         /\ new[o].isr_required = pending[o].isr_required /\ new[o].ack = pending[o].ack
         /\ new[o].leader_committed = pending[o].leader_committed
         /\ new[o].isr_acked = pending[o].isr_acked + 1
         /\ new[o].acked_followers = pending[o].acked_followers \cup {f}
  BY <1>8 DEF PendingAck
<1>11. \A o \in DOMAIN pending \ touched : new[o] = pending[o]
  OBVIOUS
<1>12. \A o \in DOMAIN pending :
        /\ new[o].ack /\ new[o].isr_required = pending[o].isr_required
        /\ new[o].leader_committed => o < handed
        /\ new[o].isr_acked = Cardinality(new[o].acked_followers)
        /\ new[o].acked_followers \subseteq Acknowledged(o)'
  <2> SUFFICES ASSUME NEW o \in DOMAIN pending PROVE
        /\ new[o].ack /\ new[o].isr_required = pending[o].isr_required
        /\ new[o].leader_committed => o < handed
        /\ new[o].isr_acked = Cardinality(new[o].acked_followers)
        /\ new[o].acked_followers \subseteq Acknowledged(o)'
    BY ZenonT(30)
  <2>0. /\ pending[o].ack /\ (pending[o].leader_committed => o < handed)
        /\ pending[o].isr_acked = Cardinality(pending[o].acked_followers)
        /\ pending[o].acked_followers \subseteq Acknowledged(o)
    BY Zenon DEF PendingInv
  <2>1. CASE o \in touched
    <3>1. Cardinality(pending[o].acked_followers \cup {f}) = Cardinality(pending[o].acked_followers) + 1
      BY <1>8, <2>1, FS_AddElement, ZenonT(30)
    <3>2. a > o
      BY <2>1, Zenon
    <3> QED BY <1>1, <1>6, <1>10, <2>0, <2>1, <3>1, <3>2
  <2>2. CASE o \notin touched
    BY <1>1, <1>6, <1>11, <2>0, <2>2, ZenonT(30)
  <2> QED BY <2>1, <2>2
<1>13. touched \subseteq DOMAIN pending
  BY Zenon
<1> HIDE DEF touched, new
<1>14. /\ PendingInv' /\ PostedInv' /\ AnsweredOnce' /\ ReleasedHasQuorum'
       /\ DOMAIN pending' \subseteq DOMAIN pending
       /\ \A o \in DOMAIN pending' : pending'[o] = new[o]
       /\ pending' \in [DOMAIN pending' -> PendingAck]
       /\ posted' \in [Offsets -> Nat]
  BY <1>0, <1>6, <1>7, <1>9, <1>11, <1>12, <1>13, ReleaseKeepsAnswers, Zenon
<1>15. TypeOK'
  BY <1>0, <1>5, <1>14, Zenon DEF TypeOK
<1>16. HandlerInv' /\ NoLostCommit'
  BY <1>0, Zenon DEF HandlerInv, NoLostCommit
<1>17. AckBound' /\ QueueOrder'
  BY <1>0, <1>1, <1>3, <1>5, Zenon DEF AckBound, QueueOrder
<1>18. EarlyInv'
  <2> SUFFICES ASSUME NEW o \in DOMAIN pending' \cap early PROVE
          /\ Acknowledged(o)' \subseteq pending'[o].acked_followers
          /\ \/ pending'[o].leader_committed
             \/ o >= handed'
             \/ worker' = "release" /\ InBatch(o)'
             \/ \E i \in 1..Len(commit_queue') :
                  commit_queue'[i].base <= o /\ o < commit_queue'[i].base + commit_queue'[i].count
    BY <1>0, Zenon DEF EarlyInv
  <2>1. o \in DOMAIN pending /\ o \in Offsets /\ pending'[o] = new[o]
    BY <1>1, <1>14, SMTT(60)
  <2>2. Acknowledged(o) \subseteq pending[o].acked_followers
    <3>1. EarlyInv /\ o \in DOMAIN pending \cap early
      BY <2>1, Zenon
    <3> QED
      BY <3>1, Zenon DEF EarlyInv
  <2>3. new[o].leader_committed = pending[o].leader_committed
    BY <1>10, <1>11, <2>1, ZenonT(60)
  <2>4. Acknowledged(o)' \subseteq new[o].acked_followers
    <3>1. CASE o \in touched
      BY <1>6, <1>10, <2>1, <2>2, <3>1, Zenon
    <3>2. CASE o \notin touched
      <4>1. a > o => f \in pending[o].acked_followers
        BY <2>1, <3>2, Zenon DEF touched
      <4> QED BY <1>6, <1>11, <2>1, <2>2, <3>2, <4>1, ZenonT(60)
    <3> QED BY <3>1, <3>2, Zenon
  <2> QED BY <1>0, <2>1, <2>3, <2>4, ZenonT(30) DEF EarlyInv, InBatch
<1> QED BY <1>14, <1>15, <1>16, <1>17, <1>18, Zenon

\* TickIsr: eviction changes the ISR, not what was acknowledged.
LEMMA TickInv ==
  ASSUME ManagerInv, NEW late \in SUBSET Evictable, TickIsr(late)
  PROVE  ManagerInv'
<1> USE ManagerAssumption DEF ManagerInv
<1>0. /\ UNCHANGED <<next_offset, log_end, handed, attached, handler, pending, posted, required, early,
                     commit_queue, worker, batch, running, notify>>
      /\ replicas' = [r \in Replicas |->
                        IF r \in late THEN [replicas[r] EXCEPT !.in_isr = FALSE] ELSE replicas[r]]
      /\ replicas \in [Replicas -> ReplicaState]
  BY DEF TickIsr, TypeOK, storeVars, ackVars, workerVars
<1>1. /\ replicas' \in [Replicas -> ReplicaState]
      /\ \A r \in Replicas : replicas'[r].ack_offset = replicas[r].ack_offset
  BY <1>0, ZenonT(30) DEF ReplicaState
<1>2. \A o : Acknowledged(o)' = Acknowledged(o)
  BY <1>1, Zenon DEF Acknowledged
<1>3. TypeOK'
  BY <1>0, <1>1, Zenon DEF TypeOK
<1>4. HandlerInv' /\ PendingInv' /\ PostedInv' /\ AnsweredOnce' /\ NoLostCommit'
  BY <1>0, <1>2 DEF HandlerInv, PendingInv, PostedInv, AnsweredOnce, NoLostCommit, QuorumMet
<1>5. EarlyInv' /\ ReleasedHasQuorum'
  BY <1>0, <1>2 DEF EarlyInv, ReleasedHasQuorum, InBatch
<1>6. QueueOrder' /\ AckBound'
  BY <1>0, <1>1 DEF QueueOrder, AckBound
<1> QED BY <1>3, <1>4, <1>5, <1>6

-----------------------------------------------------------------------------
(* Theorems *)

\* No thread's step breaks the invariant.
LEMMA StepInv == acks = "all" /\ ManagerInv /\ [Next]_vars => ManagerInv'
<1> SUFFICES ASSUME acks = "all", ManagerInv, [Next]_vars PROVE ManagerInv'
  OBVIOUS
<1>1. CASE HandlerStep
  BY <1>1, PublishInv, GetOrCreateInv, RegisterInv DEF HandlerStep
<1>2. CASE StoreStep
  BY <1>2, StoreWriteInv, EnqueueInv DEF StoreStep
<1>3. CASE WorkerStep
  BY <1>3, ControlStepsInv, TakeInv, WorkerReleaseInv, MetaInv DEF WorkerStep
<1>4. CASE StopFlag \/ StopNotify
  BY <1>4, ControlStepsInv
<1>5. CASE \E f \in Live, a \in 1..log_end : OnReplicaAck(f, a)
  BY <1>5, ReplicaAckInv
<1>6. CASE \E late \in SUBSET Evictable : TickIsr(late)
  BY <1>6, TickInv
<1>7. CASE UNCHANGED vars
  <2>1. UNCHANGED <<storeVars, attached, handler, ackVars, commit_queue, batch, replicas, worker, running, notify>>
    BY <1>7 DEF vars, workerVars
  <2>2. running' \in BOOLEAN /\ notify' \in BOOLEAN
    BY <2>1, Zenon DEF ManagerInv, TypeOK
  <2>3. worker' \in {"blocking", "blocked"} => commit_queue = <<>>
    BY <2>1 DEF ManagerInv, NoLostCommit
  <2> QED BY <2>1, <2>2, <2>3, ControlInv, SMTT(30)
<1> QED BY <1>1, <1>2, <1>3, <1>4, <1>5, <1>6, <1>7 DEF Next

\* The inductive invariant holds of every reachable state of the manager.
THEOREM ManagerInvariant == ASSUME acks = "all" PROVE Spec => []ManagerInv
<1>1. Init => ManagerInv
  BY InitInv
<1>2. ManagerInv /\ [Next]_vars => ManagerInv'
  BY StepInv
<1> QED BY <1>1, <1>2, PTL DEF Spec

\* register_pending, on_replica_ack and worker_loop together: a deferred ACK
\* leaves only after the leader's commit and enough distinct followers.
THEOREM ReleasedHasItsQuorum == ASSUME acks = "all" PROVE Spec => []ReleasedHasQuorum
<1>1. ManagerInv => ReleasedHasQuorum
  BY DEF ManagerInv
<1> QED BY <1>1, ManagerInvariant, PTL

\* try_release and the erase that follows it answer a registered publish once.
THEOREM AnsweredExactlyOnce == ASSUME acks = "all" PROVE Spec => []AnsweredOnce
<1>1. ManagerInv => AnsweredOnce
  BY SMTT(30) DEF ManagerInv
<1> QED BY <1>1, ManagerInvariant, PTL

\* A publish registered before its record is written is never left waiting once
\* the leader has processed it and its quorum has acknowledged it.
THEOREM EarlyIsNeverStranded == ASSUME acks = "all" PROVE Spec => []EarlyIsReleased
<1>1. ManagerInv => EarlyIsReleased
  <2> SUFFICES ASSUME ManagerInv, NEW o \in DOMAIN pending \cap early, o < replicas[Leader].ack_offset
               PROVE  Cardinality(Acknowledged(o)) < required[o]
    BY Zenon DEF EarlyIsReleased
  <2> USE ManagerAssumption DEF ManagerInv
  <2>1. /\ pending[o] \in PendingAck /\ o \in Int /\ replicas[Leader].ack_offset \in Nat
        /\ handed \in Nat /\ commit_queue \in Seq(QueuedCommit) /\ batch \in QueuedCommit
    BY SMTT(30) DEF TypeOK, Offsets, ReplicaState
  <2>2. ~(o >= handed)
    BY <2>1, SMTT(30) DEF QueueOrder
  <2>3. ~(worker = "release" /\ InBatch(o))
    BY <2>1, SMTT(30) DEF QueueOrder, InBatch, QueuedCommit
  <2>4. \A i \in 1..Len(commit_queue) : ~(commit_queue[i].base <= o)
    <3>1. \A i \in 1..Len(commit_queue) : commit_queue[i] \in QueuedCommit
      BY <2>1
    <3>2. \A i \in 1..Len(commit_queue) : commit_queue[i].base \in Nat
      BY <3>1, SMTT(30) DEF QueuedCommit
    <3> QED BY <2>1, <3>2, SMTT(30) DEF QueueOrder
  <2>5. pending[o].leader_committed
    BY <2>2, <2>3, <2>4, Zenon DEF EarlyInv
  <2>6. /\ pending[o].acked_followers = Acknowledged(o) /\ ~QuorumMet(pending[o])
        /\ pending[o].isr_required = required[o]
        /\ pending[o].isr_acked = Cardinality(pending[o].acked_followers)
    BY ZenonT(30) DEF EarlyInv, PendingInv
  <2> QED BY <2>1, <2>5, <2>6, SMTT(30) DEF QuorumMet, PendingAck
<1> QED BY <1>1, ManagerInvariant, PTL

\* enqueue_committed never loses its wake-up.
THEOREM WorkerSeesEveryCommit == ASSUME acks = "all" PROVE Spec => []NoLostCommit
<1>1. ManagerInv => NoLostCommit
  BY DEF ManagerInv
<1> QED BY <1>1, ManagerInvariant, PTL

=============================================================================
