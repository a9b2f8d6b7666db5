---------------------------- MODULE Replication ----------------------------
(***************************************************************************)
(* The replication stream of one partition: on the leader, the replication *)
(* server thread (catch-up of a follower) and the ReplicaManager's worker  *)
(* thread (live records), which write to the same sockets; on each         *)
(* follower, the ReplicationClient thread and the store's I/O thread.      *)
(*                                                                         *)
(* A connection is its descriptor on the leader; descriptors are reused.   *)
(* A record is its offset.  What the leader has written and committed, and *)
(* the follower's log, are those of PartitionStore.                        *)
(***************************************************************************)
EXTENDS Integers, Sequences

CONSTANTS
  Followers,    \* broker ids of the followers
  Conns,        \* descriptors of the leader's replication server
  NotifyWorks,  \* does send() on the notify pair wake the client (FALSE for a pipe)
  ShortSends,   \* may send() write only a part (a full socket buffer)
  EraseLeaves,  \* states of the client thread after it erases from a cleared buffer
  MaxOffset,    \* bound: records
  MaxQueued,    \* bound: records a follower's store has accepted and not committed
  MaxFaults     \* bound: lost connections and restarts of a follower

NoConn == 0
Torn == -1

ASSUME ReplicationAssumption ==
  /\ NoConn \notin Conns
  /\ NotifyWorks \in BOOLEAN /\ ShortSends \in BOOLEAN
  /\ EraseLeaves \subseteq {"run", "lost"} /\ MaxOffset \in Nat /\ MaxFaults \in Nat
  /\ MaxQueued \in Nat

VARIABLES
  managed,              \* has initialize_replication made the ReplicaManager
  written, committed,   \* the leader's log: readable by fetch, and committed
  streamed,             \* committed records the worker has taken off its queue
  server, worker,       \* the two leader threads
  follower_fds,         \* ReplicaManager::follower_fds_
  ack_offset,           \* what the leader was told, per follower
  who, sv,              \* the follower at the other end; state of the leader's end
  up, down,             \* unread requests and frames of a connection
  stream,               \* of a connection: "whole", "cut" short or "garbled"
  cur,                  \* fd_ of a client, as the connection
  client,               \* the client thread: "run", or "lost" to undefined behaviour
  log, held,            \* what the follower's store accepted, and how much it committed
  due,                  \* largest acknowledgement among the once-callbacks, 0 if none
  out_acks,             \* largest acknowledgement in out_acks_, 0 if empty
  faults

leaderVars == <<managed, written, committed, streamed>>
connVars == <<who, sv, up, down, stream>>
followerVars == <<cur, client, log, held, due, out_acks>>
vars == <<leaderVars, server, worker, follower_fds, ack_offset, connVars, followerVars, faults>>

Fetch(o) == [op |-> "fetch", offset |-> o]
Ack(o) == [op |-> "ack", offset |-> o]
Sync(o) == <<[offset |-> o, data |-> o]>>
SyncEnd == <<>>

ServerIdle == [pc |-> "idle", conn |-> NoConn, offset |-> 0, limit |-> 0]
WorkerIdle == [left |-> {}, to |-> NoConn, first |-> 0, offset |-> 0, limit |-> 0]

Init ==
  /\ managed = FALSE
  /\ written \in 0..MaxOffset /\ committed = written /\ streamed = written
  /\ server = ServerIdle /\ worker = WorkerIdle
  /\ follower_fds = [f \in Followers |-> NoConn]
  /\ ack_offset = [f \in Followers |-> 0]
  /\ who \in [Conns -> Followers] /\ sv = [c \in Conns |-> "free"]
  /\ up = [c \in Conns |-> <<>>] /\ down = [c \in Conns |-> <<>>]
  /\ stream = [c \in Conns |-> "whole"]
  /\ cur = [f \in Followers |-> NoConn] /\ client = [f \in Followers |-> "run"]
  /\ log = [f \in Followers |-> <<>>] /\ held = [f \in Followers |-> 0]
  /\ due = [f \in Followers |-> 0] /\ out_acks = [f \in Followers |-> 0]
  /\ faults = 0

Connected(c) == cur[who[c]] = c

-----------------------------------------------------------------------------
(* The leader's store *)

\* The replication server runs already; the port for producers is opened next.
InitializeReplication ==
  /\ ~managed /\ managed' = TRUE
  /\ UNCHANGED <<written, committed, streamed, server, worker, follower_fds, ack_offset, connVars,
                 followerVars, faults>>

Write ==
  /\ managed /\ written < MaxOffset
  /\ written' = written + 1
  /\ UNCHANGED <<managed, committed, streamed, server, worker, follower_fds, ack_offset, connVars,
                 followerVars, faults>>

\* The commit, and the hand-over of the batch to the worker.
Commit ==
  /\ committed < written
  /\ committed' = written
  /\ UNCHANGED <<managed, written, streamed, server, worker, follower_fds, ack_offset, connVars,
                 followerVars, faults>>

-----------------------------------------------------------------------------
(* A frame on a connection: four sends whose results nobody looks at.       *)

ServerSends(c) == server.pc \in {"sync", "end"} /\ server.conn = c
WorkerSends(c) == worker.to = c /\ worker.offset < worker.limit

\* Another thread's bytes, or missing bytes, inside a frame: no common lock.
CanTear(c) == ShortSends \/ (ServerSends(c) /\ WorkerSends(c))

\* What the other end gets to handle, as a sequence: the frame (SYNC_END is none);
\* the frame with a foreign payload, or bytes that handle_frame ignores, and from
\* there on no frame boundary; or nothing, as one end is closed or no frame boundary
\* is left.
Send(c, frame) ==
  \/ /\ sv[c] = "open" /\ Connected(c) /\ stream[c] # "garbled"
     /\ \/ /\ down' = [down EXCEPT ![c] = @ \o frame]
           /\ UNCHANGED stream
        \/ /\ CanTear(c)
           /\ \E torn \in {<<>>, [i \in DOMAIN frame |-> [frame[i] EXCEPT !.data = Torn]]} :
                down' = [down EXCEPT ![c] = @ \o torn]
           /\ stream' = [stream EXCEPT ![c] = "garbled"]
  \/ /\ ~(sv[c] = "open" /\ Connected(c) /\ stream[c] # "garbled")
     /\ UNCHANGED <<down, stream>>

-----------------------------------------------------------------------------
(* The leader's worker thread, streaming a batch.  fds_mu_ is held from the *)
(* first frame to the last.                                                 *)

WorkerBusy == worker # WorkerIdle

\* The frames of a batch to the next follower; with none left, fds_mu_ is released.
WorkerNext(left, first, limit) ==
  \/ \E f \in left : worker' = [left |-> left \ {f}, to |-> follower_fds[f], first |-> first,
                                offset |-> first, limit |-> limit]
  \/ left = {} /\ worker' = WorkerIdle

WorkerTake ==
  /\ ~WorkerBusy
  /\ \E limit \in (streamed + 1)..committed :
       /\ WorkerNext({f \in Followers : follower_fds[f] # NoConn}, streamed, limit)
       /\ streamed' = limit
  /\ UNCHANGED <<managed, written, committed, server, follower_fds, ack_offset, connVars, followerVars,
                 faults>>

WorkerSend ==
  /\ WorkerBusy
  /\ Send(worker.to, Sync(worker.offset))
  /\ \/ /\ worker.offset + 1 < worker.limit
        /\ worker' = [worker EXCEPT !.offset = @ + 1]
     \/ /\ worker.offset + 1 = worker.limit
        /\ WorkerNext(worker.left, worker.first, worker.limit)
  /\ UNCHANGED <<leaderVars, server, follower_fds, ack_offset, who, sv, up, followerVars, faults>>

-----------------------------------------------------------------------------
(* The leader's replication server thread *)

ServerUnchanged == UNCHANGED <<leaderVars, worker, who, followerVars>>

Accept(c) ==
  /\ server = ServerIdle /\ sv[c] = "queued"
  /\ sv' = [sv EXCEPT ![c] = "open"]
  /\ ServerUnchanged /\ UNCHANGED <<server, follower_fds, ack_offset, up, down, stream, faults>>

\* Mutant: the last acknowledgement to arrive counts, not the largest.
HandleReplicaAckLast(c) ==
  /\ server = ServerIdle /\ sv[c] = "open" /\ up[c] # <<>> /\ Head(up[c]).op = "ack"
  /\ up' = [up EXCEPT ![c] = Tail(@)]
  /\ ack_offset' = [ack_offset EXCEPT ![who[c]] = Head(up[c]).offset]
  /\ ServerUnchanged /\ UNCHANGED <<server, follower_fds, sv, down, stream, faults>>

\* handle_frame of REPLICA_ACK: the manager's on_replica_ack under its locks.
HandleReplicaAck(c) ==
  /\ server = ServerIdle /\ sv[c] = "open" /\ up[c] # <<>> /\ Head(up[c]).op = "ack"
  /\ up' = [up EXCEPT ![c] = Tail(@)]
  /\ ack_offset' = [ack_offset EXCEPT ![who[c]] =
                      IF @ < Head(up[c]).offset THEN Head(up[c]).offset ELSE @]
  /\ ServerUnchanged /\ UNCHANGED <<server, follower_fds, sv, down, stream, faults>>

\* handle_fetch_log, up to the callback: set_follower_fd waits for fds_mu_, and is not
\* called before there is a ReplicaManager.
HandleFetchLog(c) ==
  /\ server = ServerIdle /\ sv[c] = "open" /\ up[c] # <<>> /\ Head(up[c]).op = "fetch"
  /\ ~WorkerBusy
  /\ up' = [up EXCEPT ![c] = Tail(@)]
  /\ follower_fds' = IF managed THEN [follower_fds EXCEPT ![who[c]] = c] ELSE follower_fds
  /\ server' = [pc |-> "read", conn |-> c, offset |-> Head(up[c]).offset, limit |-> 0]
  /\ ServerUnchanged /\ UNCHANGED <<ack_offset, sv, down, stream, faults>>

\* Mutant: catch-up goes one record past what fetch returned.
CatchUpReadPast ==
  /\ server.pc = "read"
  /\ server' = [server EXCEPT !.pc = IF server.offset < committed THEN "sync" ELSE "end",
                              !.limit = written + 1]
  /\ ServerUnchanged /\ UNCHANGED <<follower_fds, ack_offset, sv, up, down, stream, faults>>

\* The head of the catch-up loop.  fetch returns written records up to the end of
\* a segment, committed or not; none, in the middle of a rotation.
CatchUpRead ==
  /\ server.pc = "read"
  /\ \/ /\ server.offset < committed
        /\ \/ \E limit \in (server.offset + 1)..written :
                server' = [server EXCEPT !.pc = "sync", !.limit = limit] /\ UNCHANGED stream
           \/ /\ server' = [server EXCEPT !.pc = "end"]
              /\ stream' = IF Connected(server.conn) /\ stream[server.conn] = "whole"
                           THEN [stream EXCEPT ![server.conn] = "cut"] ELSE stream
     \/ /\ server.offset >= committed
        /\ server' = [server EXCEPT !.pc = "end"] /\ UNCHANGED stream
  /\ ServerUnchanged /\ UNCHANGED <<follower_fds, ack_offset, sv, up, down, faults>>

CatchUpSend ==
  /\ server.pc = "sync"
  /\ Send(server.conn, Sync(server.offset))
  /\ server' = [server EXCEPT !.offset = @ + 1,
                              !.pc = IF server.offset + 1 < server.limit THEN "sync" ELSE "read"]
  /\ ServerUnchanged /\ UNCHANGED <<follower_fds, ack_offset, sv, up, faults>>

CatchUpEnd ==
  /\ server.pc = "end"
  /\ Send(server.conn, SyncEnd)
  /\ server' = ServerIdle
  /\ ServerUnchanged /\ UNCHANGED <<follower_fds, ack_offset, sv, up, faults>>

\* recv returns 0 or fails, or PF_HUP: the other end is closed, or the network
\* gave the connection up.  follower_fds_ keeps the descriptor.
ServerCloses(c) ==
  /\ server = ServerIdle /\ sv[c] = "open"
  /\ \/ ~Connected(c) /\ sv' = [sv EXCEPT ![c] = "free"] /\ UNCHANGED faults
     \/ /\ Connected(c) /\ faults < MaxFaults
        /\ faults' = faults + 1 /\ sv' = [sv EXCEPT ![c] = "closed"]
  /\ up' = [up EXCEPT ![c] = <<>>]
  /\ ServerUnchanged /\ UNCHANGED <<server, follower_fds, ack_offset, down, stream>>

-----------------------------------------------------------------------------
(* A follower: the ReplicationClient thread, and the store's I/O thread     *)

LeaderUnchanged == UNCHANGED <<leaderVars, server, worker, follower_fds, ack_offset>>

\* Mutant: the log is requested from behind the next record.
ConnectPast(f) ==
  /\ client[f] = "run" /\ cur[f] = NoConn
  /\ \E c \in Conns :
       /\ sv[c] = "free"
       /\ who' = [who EXCEPT ![c] = f] /\ sv' = [sv EXCEPT ![c] = "queued"]
       /\ up' = [up EXCEPT ![c] = <<Fetch(held[f] + 1)>>]
       /\ cur' = [cur EXCEPT ![f] = c]
  /\ LeaderUnchanged /\ UNCHANGED <<down, stream, client, log, held, due, out_acks, faults>>

\* connect_to_leader and send_fetch_log.
Connect(f) ==
  /\ client[f] = "run" /\ cur[f] = NoConn
  /\ \E c \in Conns :
       /\ sv[c] = "free"
       /\ who' = [who EXCEPT ![c] = f] /\ sv' = [sv EXCEPT ![c] = "queued"]
       /\ up' = [up EXCEPT ![c] = <<Fetch(held[f])>>]
       /\ cur' = [cur EXCEPT ![f] = c]
  /\ LeaderUnchanged /\ UNCHANGED <<down, stream, client, log, held, due, out_acks, faults>>

\* close_socket(fd_), fd_ = INVALID_SOCKET_T, recv_buf_.clear().
Close(f) ==
  /\ cur' = [cur EXCEPT ![f] = NoConn]
  /\ down' = [down EXCEPT ![cur[f]] = <<>>] /\ stream' = [stream EXCEPT ![cur[f]] = "whole"]
  /\ sv' = [sv EXCEPT ![cur[f]] = IF @ = "closed" THEN "free" ELSE @]

HasFrame(f) == client[f] = "run" /\ cur[f] # NoConn /\ down[cur[f]] # <<>>

\* Mutant: no comparison with next_offset.
OnReplicaSyncUnchecked(f) ==
  /\ HasFrame(f)
  /\ Len(log[f]) - held[f] < MaxQueued
  /\ log' = [log EXCEPT ![f] = Append(@, Head(down[cur[f]]).data)]
  /\ due' = [due EXCEPT ![f] = Head(down[cur[f]]).offset + 1]
  /\ down' = [down EXCEPT ![cur[f]] = Tail(@)]
  /\ LeaderUnchanged /\ UNCHANGED <<who, sv, up, stream, cur, client, held, out_acks, faults>>

\* Mutant: the acknowledgement is queued when the record is appended.
OnReplicaSyncAcks(f) ==
  /\ HasFrame(f)
  /\ Head(down[cur[f]]).offset = held[f] /\ Len(log[f]) - held[f] < MaxQueued
  /\ log' = [log EXCEPT ![f] = Append(@, Head(down[cur[f]]).data)]
  /\ down' = [down EXCEPT ![cur[f]] = Tail(@)]
  /\ out_acks' = [out_acks EXCEPT ![f] = held[f] + 1]
  /\ LeaderUnchanged /\ UNCHANGED <<who, sv, up, stream, cur, client, held, due, faults>>

\* on_replica_sync of the record at next_offset(), which is how much the store has
\* written: a callback is registered for its offset, and the record is accepted behind
\* what is still queued.
OnReplicaSync(f) ==
  /\ HasFrame(f)
  /\ Head(down[cur[f]]).offset = held[f] /\ Len(log[f]) - held[f] < MaxQueued
  /\ log' = [log EXCEPT ![f] = Append(@, Head(down[cur[f]]).data)]
  /\ due' = [due EXCEPT ![f] = held[f] + 1]
  /\ down' = [down EXCEPT ![cur[f]] = Tail(@)]
  /\ LeaderUnchanged /\ UNCHANGED <<who, sv, up, stream, cur, client, held, out_acks, faults>>

\* Another offset, or a full queue (the callback stays): the handler closes the
\* connection and clears the buffer, from which on_readable then erases the frame.
CloseInHandler(f) ==
  /\ HasFrame(f)
  /\ \/ Head(down[cur[f]]).offset # held[f] /\ UNCHANGED due
     \/ /\ Head(down[cur[f]]).offset = held[f] /\ held[f] < Len(log[f])
        /\ due' = [due EXCEPT ![f] = held[f] + 1]
  /\ Close(f)
  /\ \E state \in EraseLeaves : client' = [client EXCEPT ![f] = state]
  /\ LeaderUnchanged /\ UNCHANGED <<who, up, log, held, out_acks, faults>>

\* recv returns 0 or fails, or PF_HUP.
ClientCloses(f) ==
  /\ client[f] = "run" /\ cur[f] # NoConn
  /\ \/ sv[cur[f]] = "closed" /\ UNCHANGED faults
     \/ sv[cur[f]] # "closed" /\ faults < MaxFaults /\ faults' = faults + 1
  /\ Close(f)
  /\ LeaderUnchanged /\ UNCHANGED <<who, up, client, log, held, due, out_acks>>

\* Mutant: the test of fd_ the wrong way round.
SendAcksDropped(f) ==
  /\ NotifyWorks /\ client[f] = "run" /\ out_acks[f] # 0
  /\ out_acks' = [out_acks EXCEPT ![f] = 0]
  /\ LeaderUnchanged
  /\ UNCHANGED <<who, sv, up, down, stream, cur, client, log, held, due, faults>>

\* The notify event: out_acks_ is sent, or dropped with the connection gone.
SendAcks(f) ==
  /\ NotifyWorks /\ client[f] = "run" /\ out_acks[f] # 0
  /\ up' = IF cur[f] = NoConn THEN up
           ELSE [up EXCEPT ![cur[f]] = Append(@, Ack(out_acks[f]))]
  /\ out_acks' = [out_acks EXCEPT ![f] = 0]
  /\ LeaderUnchanged /\ UNCHANGED <<who, sv, down, stream, cur, client, log, held, due, faults>>

\* The follower's store writes and commits a batch (next_offset and committed_offset
\* follow), and the callbacks, all of smaller offsets, queue their acknowledgements.
FollowerCommits(f) ==
  /\ \E n \in (held[f] + 1)..Len(log[f]) : held' = [held EXCEPT ![f] = n]
  /\ out_acks' = [out_acks EXCEPT ![f] = IF due[f] = 0 THEN @ ELSE due[f]]
  /\ due' = [due EXCEPT ![f] = 0]
  /\ LeaderUnchanged /\ UNCHANGED <<connVars, cur, client, log, faults>>

\* The follower's process ends and starts again: its log is what was written.
Restart(f) ==
  /\ faults < MaxFaults /\ faults' = faults + 1
  /\ \E n \in held[f]..Len(log[f]) :
       log' = [log EXCEPT ![f] = SubSeq(@, 1, n)] /\ held' = [held EXCEPT ![f] = n]
  /\ IF cur[f] = NoConn THEN UNCHANGED <<cur, down, stream, sv>> ELSE Close(f)
  /\ client' = [client EXCEPT ![f] = "run"]
  /\ due' = [due EXCEPT ![f] = 0] /\ out_acks' = [out_acks EXCEPT ![f] = 0]
  /\ LeaderUnchanged /\ UNCHANGED <<who, up>>

-----------------------------------------------------------------------------
Leader ==
  \/ InitializeReplication \/ Write \/ Commit \/ WorkerTake \/ WorkerSend
  \/ CatchUpRead \/ CatchUpSend \/ CatchUpEnd
  \/ \E c \in Conns : Accept(c) \/ HandleReplicaAck(c) \/ HandleFetchLog(c) \/ ServerCloses(c)

Follower(f) ==
  \/ Connect(f) \/ OnReplicaSync(f) \/ CloseInHandler(f) \/ ClientCloses(f)
  \/ SendAcks(f) \/ FollowerCommits(f) \/ Restart(f)

Next == Leader \/ \E f \in Followers : Follower(f)

Spec == Init /\ [][Next]_vars

\* Every thread runs on; the poller reports every ready descriptor, so that no
\* connection is passed over for ever, and a mutex is not denied for ever.
Fairness ==
  /\ WF_vars(InitializeReplication) /\ WF_vars(Commit) /\ WF_vars(WorkerTake \/ WorkerSend)
  /\ WF_vars(CatchUpRead \/ CatchUpSend \/ CatchUpEnd)
  /\ \A c \in Conns :
       /\ SF_vars(Accept(c)) /\ SF_vars(HandleReplicaAck(c) \/ HandleFetchLog(c))
       /\ SF_vars(ServerCloses(c) /\ UNCHANGED faults)
  /\ \A f \in Followers :
       /\ WF_vars(Connect(f)) /\ WF_vars(OnReplicaSync(f) \/ CloseInHandler(f))
       /\ WF_vars(ClientCloses(f) /\ UNCHANGED faults)
       /\ WF_vars(SendAcks(f)) /\ WF_vars(FollowerCommits(f))

FairSpec == Spec /\ Fairness

-----------------------------------------------------------------------------
(* Properties *)

Frame == [offset : Nat, data : Nat \cup {Torn}]
Request == [op : {"fetch", "ack"}, offset : Nat]

LeaderType ==
  /\ managed \in BOOLEAN /\ written \in Nat /\ committed \in Nat /\ streamed \in Nat
  /\ follower_fds \in [Followers -> Conns \cup {NoConn}] /\ ack_offset \in [Followers -> Nat]
ServerType ==
  /\ server \in [pc : {"idle", "read", "sync", "end"}, conn : Conns \cup {NoConn},
                 offset : Nat, limit : Nat]
  /\ server # ServerIdle => server.pc # "idle" /\ server.conn \in Conns
WorkerType ==
  /\ worker \in [left : SUBSET Followers, to : Conns \cup {NoConn}, first : Nat, offset : Nat,
                 limit : Nat]
  /\ WorkerBusy => worker.to \in Conns
  /\ \A f \in worker.left : follower_fds[f] # NoConn
ConnType ==
  /\ who \in [Conns -> Followers] /\ sv \in [Conns -> {"free", "queued", "open", "closed"}]
  /\ up \in [Conns -> Seq(Request)] /\ down \in [Conns -> Seq(Frame)]
  /\ stream \in [Conns -> {"whole", "cut", "garbled"}]
FollowerType ==
  /\ cur \in [Followers -> Conns \cup {NoConn}] /\ client \in [Followers -> {"run", "lost"}]
  /\ log \in [Followers -> Seq(Nat \cup {Torn})] /\ held \in [Followers -> Nat]
  /\ due \in [Followers -> Nat] /\ out_acks \in [Followers -> Nat]

\* Every variable has its type; a busy leader thread is at work on a descriptor.
TypeOK ==
  LeaderType /\ ServerType /\ WorkerType /\ ConnType /\ FollowerType /\ faults \in Nat

\* Offsets, some of them torn: in order, and none before its place.
Ordered(s) ==
  \A i \in 1..Len(s) : s[i] < i /\ \A j \in 1..i : s[i] = Torn \/ s[j] <= s[i]

\* A follower's log has the leader's records, or torn ones, in the leader's order and
\* none before its place or ahead of what is committed: through gaps, reconnections,
\* the overlap of catch-up and live stream, reused descriptors and restarts.  A record
\* may be doubled, as next_offset() does not count what is queued; it then takes the
\* place of a later one.
FollowerInOrder ==
  \A f \in Followers :
    /\ Ordered(log[f])
    /\ \A i \in 1..Len(log[f]) : log[f][i] <= held[f] /\ log[f][i] < written

\* What the leader counts as acknowledged by a follower is committed there: an
\* acks=all response rests on it.
AckedIsHeld ==
  \A f \in Followers : ack_offset[f] <= held[f] /\ held[f] <= Len(log[f])

WorkerBehind ==
  /\ streamed <= committed /\ committed <= written /\ worker.limit <= written
  /\ WorkerBusy => worker.first < worker.limit /\ worker.offset < worker.limit
ServerBehind ==
  server.limit <= written /\ (server.pc = "sync" => server.offset < server.limit)
FramesGenuine ==
  \A c \in Conns : \A i \in DOMAIN down[c] :
    down[c][i].offset < written /\ down[c][i].data \in {down[c][i].offset, Torn}
AcksGenuine ==
  \A c \in Conns : \A i \in DOMAIN up[c] :
    up[c][i].op = "ack" => up[c][i].offset <= held[who[c]]
DueGenuine ==
  \A f \in Followers : out_acks[f] <= held[f] /\ due[f] <= held[f] + 1
LinksMatch ==
  \A f \in Followers : cur[f] # NoConn => who[cur[f]] = f /\ sv[cur[f]] # "free"

\* What is under way is genuine, whichever thread sent it on whichever descriptor: a
\* frame has a record of the leader under its own offset, or torn; an acknowledgement,
\* queued or on a connection, is of records the follower at its end holds committed;
\* a leader thread reads no further than the leader's log goes.
InFlightGenuine ==
  WorkerBehind /\ ServerBehind /\ FramesGenuine /\ AcksGenuine /\ DueGenuine /\ LinksMatch

\* The protocol implements the promise of ReplicaLog.
Promise == INSTANCE ReplicaLog WITH copies <- log, acked <- ack_offset
ImplementsReplicaLog == Promise!Spec

\* What can keep a follower behind: its thread is lost to the erase from a cleared
\* buffer; its connection has lost a frame boundary or was cut short by an empty
\* fetch; the FETCH_LOG of a connection it has left was handled after that of its
\* present one, and follower_fds_ has the old descriptor; or it was handled before
\* there was a ReplicaManager, and follower_fds_ has none.
Unregistered(f) ==
  /\ sv[cur[f]] = "open" /\ follower_fds[f] # cur[f]
  /\ \A i \in DOMAIN up[cur[f]] : up[cur[f]][i].op # "fetch"
Stalled(f) ==
  \/ client[f] = "lost"
  \/ cur[f] # NoConn /\ (stream[cur[f]] # "whole" \/ Unregistered(f))

\* Nothing else does: the descriptor is registered before catch-up reads
\* committed_offset, so a committed record reaches the follower by one way or the
\* other, and a gap leads to a new FETCH_LOG.
FollowerCatchesUp ==
  \A f \in Followers : []<>Stalled(f) \/ []<>(held[f] >= committed)

\* An acknowledgement reaches the leader if its connection stays.
AckArrives ==
  \A f \in Followers : \A c \in Conns :
    \A n \in 1..MaxOffset : (out_acks[f] = n /\ cur[f] = c) ~> (ack_offset[f] >= n \/ cur[f] # c)

\* A record that a follower acknowledged is among those it holds committed.
AckedIsStored ==
  \A f \in Followers : \A o \in 0..(ack_offset[f] - 1) :
    \E i \in 1..held[f] : log[f][i] \in {o, Torn}

=============================================================================
