--------------------------- MODULE ReplicaManager ---------------------------
(***************************************************************************)
(* fell::repl::ReplicaManager on the leader of one partition, with the     *)
(* threads that call it: the broker's event loop (publish), the partition  *)
(* store's I/O thread (enqueue_committed), the replication server          *)
(* (on_replica_ack) and the manager's own worker.                          *)
(*                                                                         *)
(* The store is reduced to three counters.  That it accepts, writes and    *)
(* hands over consecutive offsets is proved in PartitionStoreProofs.       *)
(* The ACK of a publish is identified by the offset it carries.            *)
(***************************************************************************)
EXTENDS Integers, Sequences, FiniteSets

CONSTANTS
  Replicas,     \* broker ids in meta_.replicas
  Leader,       \* this broker
  Live,         \* followers that run and send REPLICA_ACK
  Evictable,    \* replicas a caller of tick_isr may find timed out
  acks,         \* ClusterConfig::acks: "one" (1) or "all" (-1)
  max_lag,      \* ClusterConfig::max_lag_messages
  Attached,     \* possible values: does the manager exist when the first publish comes
  MaxOffset     \* bound: number of publishes

ASSUME ManagerAssumption ==
  /\ IsFiniteSet(Replicas) /\ Leader \in Replicas
  /\ Live \subseteq Replicas \ {Leader} /\ Evictable \subseteq Replicas \ {Leader}
  /\ acks \in {"one", "all"} /\ max_lag \in Nat /\ Attached \subseteq BOOLEAN /\ MaxOffset \in Nat

VARIABLES
  next_offset, log_end, handed,  \* the store: accepted, written, given to the commit callback
  attached,                      \* the manager exists and is the store's commit callback
  handler,                       \* the event loop: between publishes, or where in one it is
  pending,                       \* pending_: offset |-> PendingAck
  commit_queue,                  \* commit_queue_: batches [base, count]
  worker, batch,                 \* the worker thread and the batch it holds
  running, notify,               \* running_; stop() has yet to notify
  replicas,                      \* meta_.replicas: id |-> [ack_offset, in_isr]
  posted,                        \* how often the ACK of each offset was sent towards its producer
  required,                      \* isr_required at registration, -1 before it
  early                          \* offsets registered before the record was written

storeVars  == <<next_offset, log_end, handed>>
workerVars == <<commit_queue, worker, batch, running, notify>>
ackVars    == <<pending, posted, required, early>>
vars == <<storeVars, attached, handler, ackVars, workerVars, replicas>>

Offsets == 0..(MaxOffset - 1)
PendingAck == [leader_committed : BOOLEAN, isr_acked : Nat, isr_required : Nat,
               acked_followers : SUBSET Live, ack : BOOLEAN]
QueuedCommit == [base : Nat, count : Nat]
ReplicaState == [ack_offset : Nat, in_isr : BOOLEAN]
NoBatch == [base |-> 0, count |-> 0]
Idle == [pc |-> "idle", offset |-> 0]

Init ==
  /\ next_offset = 0 /\ log_end = 0 /\ handed = 0
  /\ attached \in Attached
  /\ handler = Idle
  /\ pending = [o \in {} |-> Idle]
  /\ commit_queue = <<>> /\ batch = NoBatch
  /\ worker = IF attached THEN "loop" ELSE "none"
  /\ running = attached /\ notify = FALSE
  /\ replicas = [r \in Replicas |-> [ack_offset |-> 0, in_isr |-> TRUE]]
  /\ posted = [o \in Offsets |-> 0] /\ required = [o \in Offsets |-> -1] /\ early = {}

Stopping == attached /\ ~running

-----------------------------------------------------------------------------
(* The event loop: handle_publish and its defer callback *)

\* append succeeds; with acks=1 the ACK is returned at once.
Publish ==
  /\ handler.pc = "idle" /\ ~Stopping /\ next_offset < MaxOffset
  /\ next_offset' = next_offset + 1
  /\ IF acks = "all"
     THEN /\ handler' = [pc |-> "defer", offset |-> next_offset]
          /\ UNCHANGED posted
     ELSE /\ posted' = [posted EXCEPT ![next_offset] = @ + 1]
          /\ UNCHANGED handler
  /\ UNCHANGED <<log_end, handed, attached, pending, required, early, workerVars, replicas>>

\* get_or_create_replica_manager: set the commit callback, start the worker.
GetOrCreate ==
  /\ handler.pc = "defer"
  /\ handler' = [handler EXCEPT !.pc = "register"]
  /\ attached' = TRUE
  /\ IF attached THEN UNCHANGED <<worker, running>>
                 ELSE worker' = "loop" /\ running' = TRUE
  /\ UNCHANGED <<storeVars, ackVars, commit_queue, batch, notify, replicas>>

Isr == {r \in Replicas : replicas[r].in_isr}

NewPendingAck ==
  [leader_committed |-> FALSE, isr_acked |-> 0, acked_followers |-> {}, ack |-> TRUE,
   isr_required |-> IF Cardinality(Isr) > 0 THEN Cardinality(Isr) - 1 ELSE 0]

\* register_pending, under pending_mu_ and meta_.mu.
RegisterPending ==
  /\ handler.pc = "register"
  /\ LET o == handler.offset
     IN  /\ pending' = [x \in DOMAIN pending \cup {o} |->
                          IF x = o THEN NewPendingAck ELSE pending[x]]
         /\ required' = [required EXCEPT ![o] = NewPendingAck.isr_required]
         /\ early' = IF o >= log_end THEN early \cup {o} ELSE early
  /\ handler' = Idle
  /\ UNCHANGED <<storeVars, attached, posted, workerVars, replicas>>

-----------------------------------------------------------------------------
(* The store's I/O thread *)

\* The log write: from here on a follower can fetch the records.
StoreWrite ==
  /\ log_end = handed
  /\ log_end' \in (log_end + 1)..next_offset
  /\ UNCHANGED <<next_offset, handed, attached, handler, ackVars, workerVars, replicas>>

\* Mutant: no notify_one.
EnqueueSilent ==
  /\ handed < log_end
  /\ attached => worker # "blocking"
  /\ handed' = log_end
  /\ IF attached
     THEN /\ commit_queue' = Append(commit_queue, [base |-> handed, count |-> log_end - handed])
          /\ UNCHANGED worker
     ELSE UNCHANGED <<commit_queue, worker>>
  /\ UNCHANGED <<next_offset, log_end, attached, handler, ackVars, batch, running, notify, replicas>>

\* The commit, and enqueue_committed if the callback is set.  The worker holds
\* queue_mu_ while it is about to block.
EnqueueCommitted ==
  /\ handed < log_end
  /\ attached => worker # "blocking"
  /\ handed' = log_end
  /\ IF attached
     THEN /\ commit_queue' = Append(commit_queue, [base |-> handed, count |-> log_end - handed])
          /\ worker' = IF worker = "blocked" THEN "wait" ELSE worker
     ELSE UNCHANGED <<commit_queue, worker>>
  /\ UNCHANGED <<next_offset, log_end, attached, handler, ackVars, batch, running, notify, replicas>>

-----------------------------------------------------------------------------
(* Releasing ACKs *)

\* Mutant: > in place of >=.
QuorumExceeded(pa) == pa.leader_committed /\ pa.isr_acked > pa.isr_required

QuorumMet(pa) == pa.leader_committed /\ pa.isr_acked >= pa.isr_required

\* Mutant: released entries are not erased.
ReleaseKeeps(new, touched) ==
  LET done == {o \in DOMAIN new : QuorumMet(new[o])}
      sent == {o \in touched \cap done : new[o].ack}
  IN  /\ pending' = [o \in DOMAIN new |-> [new[o] EXCEPT !.ack = @ /\ o \notin sent]]
      /\ posted' = [o \in Offsets |-> IF o \in sent THEN posted[o] + 1 ELSE posted[o]]

\* The end of a critical section that changed the entries in touched to new:
\* try_release sends the ACK of each of them that has its quorum, and every
\* entry that has its quorum is erased.
Release(new, touched) ==
  LET done == {o \in DOMAIN new : QuorumMet(new[o])}
      sent == {o \in touched \cap done : new[o].ack}
  IN  /\ pending' = [o \in DOMAIN new \ done |-> new[o]]
      /\ posted' = [o \in Offsets |-> IF o \in sent THEN posted[o] + 1 ELSE posted[o]]

-----------------------------------------------------------------------------
(* The worker thread *)

\* The test of while (running_).
WorkerLoop ==
  /\ worker = "loop"
  /\ worker' = IF running THEN "wait" ELSE "exited"
  /\ UNCHANGED <<storeVars, attached, handler, ackVars, commit_queue, batch, running, notify, replicas>>

\* queue_cv_.wait: the predicate is false; queue_mu_ is held until the thread
\* is on the waiting list.
WorkerCheck ==
  /\ worker = "wait" /\ running /\ commit_queue = <<>>
  /\ worker' = "blocking"
  /\ UNCHANGED <<storeVars, attached, handler, ackVars, commit_queue, batch, running, notify, replicas>>

WorkerBlock ==
  /\ worker = "blocking"
  /\ worker' = "blocked"
  /\ UNCHANGED <<storeVars, attached, handler, ackVars, commit_queue, batch, running, notify, replicas>>

\* The wait is over: leave, or take the first batch.
WorkerTake ==
  /\ worker = "wait"
  /\ \/ /\ commit_queue = <<>> /\ ~running
        /\ worker' = "exited"
        /\ UNCHANGED <<commit_queue, batch>>
     \/ /\ commit_queue # <<>>
        /\ batch' = Head(commit_queue) /\ commit_queue' = Tail(commit_queue)
        /\ worker' = "release"
  /\ UNCHANGED <<storeVars, attached, handler, ackVars, running, notify, replicas>>

\* Mutant: <= in place of <.
InBatchInclusive(o) == batch.base <= o /\ o <= batch.base + batch.count

InBatch(o) == batch.base <= o /\ o < batch.base + batch.count

\* Under pending_mu_: the entries of the batch are committed by the leader.
WorkerRelease ==
  /\ worker = "release"
  /\ LET touched == {o \in DOMAIN pending : InBatch(o)}
     IN  Release([o \in DOMAIN pending |->
                    IF o \in touched THEN [pending[o] EXCEPT !.leader_committed = TRUE]
                    ELSE pending[o]], touched)
  /\ worker' = "meta"
  /\ UNCHANGED <<storeVars, attached, handler, required, early, commit_queue, batch, running, notify,
                 replicas>>

Larger(a, b) == IF a < b THEN b ELSE a

\* Under meta_.mu: the leader's own progress.  The records then go out to the
\* follower sockets.
WorkerMeta ==
  /\ worker = "meta"
  /\ replicas' = [replicas EXCEPT ![Leader].ack_offset = Larger(@, batch.base + batch.count)]
  /\ worker' = "loop" /\ batch' = NoBatch
  /\ UNCHANGED <<storeVars, attached, handler, ackVars, commit_queue, running, notify>>

-----------------------------------------------------------------------------
(* The replication server and the caller of tick_isr *)

\* PartitionMeta::on_replica_ack: progress, and a way back into the ISR.
AckedReplica(r, a) ==
  LET acked == Larger(r.ack_offset, a)
      lead  == replicas[Leader].ack_offset
  IN  [ack_offset |-> acked,
       in_isr |-> r.in_isr \/ (lead >= acked /\ lead - acked <= max_lag)]

\* Mutant: a follower that acknowledges again is counted again.
OnReplicaAckTwice(f, a) ==
  /\ attached /\ running
  /\ replicas' = [replicas EXCEPT ![f] = AckedReplica(@, a)]
  /\ LET touched == {o \in DOMAIN pending : a > o}
     IN  Release([o \in DOMAIN pending |->
                    IF o \in touched
                    THEN [pending[o] EXCEPT !.acked_followers = @ \cup {f}, !.isr_acked = @ + 1]
                    ELSE pending[o]], touched)
  /\ UNCHANGED <<storeVars, attached, handler, required, early, workerVars>>

\* ReplicaManager::on_replica_ack, under repl_mu_, pending_mu_ and meta_.mu.
\* A follower acknowledges any part of what it could fetch, again if it likes.
OnReplicaAck(f, a) ==
  /\ attached /\ running
  /\ replicas' = [replicas EXCEPT ![f] = AckedReplica(@, a)]
  /\ LET touched == {o \in DOMAIN pending : a > o /\ f \notin pending[o].acked_followers}
     IN  Release([o \in DOMAIN pending |->
                    IF o \in touched
                    THEN [pending[o] EXCEPT !.acked_followers = @ \cup {f}, !.isr_acked = @ + 1]
                    ELSE pending[o]], touched)
  /\ UNCHANGED <<storeVars, attached, handler, required, early, workerVars>>

\* PartitionMeta::tick_isr finds the last contact with the replicas of late too old.
TickIsr(late) ==
  /\ replicas' = [r \in Replicas |->
                    IF r \in late THEN [replicas[r] EXCEPT !.in_isr = FALSE] ELSE replicas[r]]
  /\ UNCHANGED <<storeVars, attached, handler, ackVars, workerVars>>

-----------------------------------------------------------------------------
(* stop(), called when the event loop and the replication server are gone *)

StopFlag ==
  /\ attached /\ running /\ handler.pc = "idle"
  /\ running' = FALSE /\ notify' = TRUE
  /\ UNCHANGED <<storeVars, attached, handler, ackVars, commit_queue, worker, batch, replicas>>

\* notify_all wakes the worker only if it waits already.
StopNotify ==
  /\ notify
  /\ notify' = FALSE
  /\ worker' = IF worker = "blocked" THEN "wait" ELSE worker
  /\ UNCHANGED <<storeVars, attached, handler, ackVars, commit_queue, batch, running, replicas>>

-----------------------------------------------------------------------------
HandlerStep == Publish \/ GetOrCreate \/ RegisterPending
StoreStep == StoreWrite \/ EnqueueCommitted
WorkerStep == WorkerLoop \/ WorkerCheck \/ WorkerBlock \/ WorkerTake \/ WorkerRelease \/ WorkerMeta

Next ==
  \/ HandlerStep \/ StoreStep \/ WorkerStep \/ StopFlag \/ StopNotify
  \/ \E f \in Live, a \in 1..log_end : OnReplicaAck(f, a)
  \/ \E late \in SUBSET Evictable : TickIsr(late)

Spec == Init /\ [][Next]_vars

\* The threads that can run do run; nobody is obliged to publish, to stop the
\* broker or to acknowledge.
FairSpec == Spec /\ WF_vars(WorkerStep) /\ WF_vars(StoreStep) /\ WF_vars(StopNotify)
                 /\ WF_vars(GetOrCreate \/ RegisterPending)

-----------------------------------------------------------------------------
(* Properties *)

\* Types, and the order of the store's counters: what is handed to the manager is
\* written, what is written is accepted.
TypeOK ==
  /\ next_offset \in 0..MaxOffset /\ log_end \in 0..next_offset /\ handed \in 0..log_end
  /\ attached \in BOOLEAN
  /\ handler \in [pc : {"idle", "defer", "register"}, offset : Nat]
  /\ DOMAIN pending \subseteq Offsets
  /\ pending \in [DOMAIN pending -> PendingAck]
  /\ commit_queue \in Seq(QueuedCommit) /\ batch \in QueuedCommit
  /\ worker \in {"none", "loop", "wait", "blocking", "blocked", "release", "meta", "exited"}
  /\ running \in BOOLEAN /\ notify \in BOOLEAN
  /\ replicas \in [Replicas -> ReplicaState]
  /\ posted \in [Offsets -> Nat] /\ required \in [Offsets -> Nat \cup {-1}]
  /\ early \subseteq Offsets

\* The followers whose acknowledgements the leader has seen pass offset o.
Acknowledged(o) == {f \in Live : replicas[f].ack_offset > o}

\* An ACK deferred by acks=-1 has left for its producer only if the leader has
\* committed the record and as many distinct followers have acknowledged it as
\* the ISR had when the publish was registered (try_release, on_replica_ack).
ReleasedHasQuorum ==
  \A o \in Offsets : posted[o] > 0 => /\ o < handed
                                      /\ Cardinality(Acknowledged(o)) >= required[o]

\* The erase at the end of on_replica_ack and worker_loop never drops an ACK that
\* was not sent, and no ACK is sent twice: a registered publish either still waits
\* or has been answered exactly once.
AnsweredOnce ==
  \A o \in Offsets : required[o] >= 0 => posted[o] = (IF o \in DOMAIN pending THEN 0 ELSE 1)

\* What the leader has processed and enough followers have acknowledged is no
\* longer waiting, if the publish was registered before the record was written:
\* commits and acknowledgements that arrive in any order, repeated or late,
\* strand none of these.
EarlyIsReleased ==
  \A o \in DOMAIN pending \cap early :
    o < replicas[Leader].ack_offset => Cardinality(Acknowledged(o)) < required[o]

\* enqueue_committed notifies under queue_mu_, so the worker never sleeps on a
\* non-empty queue.
NoLostCommit == worker \in {"blocking", "blocked"} => commit_queue = <<>>

\* The leader's half of an early publish is always completed: the worker gets to
\* the batch that holds it, unless the manager is stopped first.
EarlyIsCommitted ==
  \A o \in Offsets :
    (o \in early) ~> (~running \/ posted[o] = 1 \/ (o \in DOMAIN pending /\ pending[o].leader_committed))

-----------------------------------------------------------------------------
(* The inductive invariant behind the safety properties (acks = "all"). *)

\* A publish in progress is the last accepted one and is not registered yet.
HandlerInv ==
  /\ handler.pc # "idle" => /\ next_offset > 0
                            /\ handler.offset = next_offset - 1
                            /\ required[handler.offset] = -1
  /\ handler.pc = "register" => attached
  /\ \A o \in Offsets : o >= next_offset => required[o] = -1
  /\ \A o \in early : required[o] # -1

\* An entry that waits lacks its quorum, and its counters are those of the
\* acknowledgements received.
PendingInv ==
  \A o \in DOMAIN pending :
    /\ attached
    /\ pending[o].ack /\ ~QuorumMet(pending[o])
    /\ pending[o].isr_required = required[o]
    /\ pending[o].leader_committed => o < handed
    /\ pending[o].isr_acked = Cardinality(pending[o].acked_followers)
    /\ pending[o].acked_followers \subseteq Acknowledged(o)

\* An answered publish was registered.
PostedInv == \A o \in Offsets : required[o] = -1 => posted[o] = 0

\* Batches are processed in the order of their offsets, each once.
QueueOrder ==
  /\ \A i \in 1..Len(commit_queue) :
       /\ replicas[Leader].ack_offset <= commit_queue[i].base
       /\ batch.base + batch.count <= commit_queue[i].base
       /\ commit_queue[i].base + commit_queue[i].count <= handed
  /\ \A i, j \in 1..Len(commit_queue) :
       i < j => commit_queue[i].base + commit_queue[i].count <= commit_queue[j].base
  /\ replicas[Leader].ack_offset <= handed
  /\ batch.base + batch.count <= handed
  /\ worker \in {"release", "meta"} => replicas[Leader].ack_offset <= batch.base

\* An early entry has every acknowledgement so far, and its commit is recorded or
\* still ahead.
EarlyInv ==
  \A o \in DOMAIN pending \cap early :
    /\ Acknowledged(o) \subseteq pending[o].acked_followers
    /\ \/ pending[o].leader_committed
       \/ o >= handed
       \/ worker = "release" /\ InBatch(o)
       \/ \E i \in 1..Len(commit_queue) :
            commit_queue[i].base <= o /\ o < commit_queue[i].base + commit_queue[i].count

\* Nobody acknowledges what is not written.
AckBound == \A f \in Live : replicas[f].ack_offset <= log_end

ManagerInv ==
  /\ TypeOK /\ HandlerInv /\ PendingInv /\ PostedInv /\ QueueOrder /\ EarlyInv /\ AckBound
  /\ NoLostCommit /\ AnsweredOnce /\ ReleasedHasQuorum

=============================================================================
