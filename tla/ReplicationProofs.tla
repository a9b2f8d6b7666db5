-------------------------- MODULE ReplicationProofs --------------------------
(***************************************************************************)
(* For every set of followers and descriptors and every outcome of the     *)
(* undefined erase: a follower's log is in order and what it acknowledged  *)
(* is held, and Replication implements ReplicaLog.                         *)
(***************************************************************************)
EXTENDS Replication, TLAPS

Inv == TypeOK /\ FollowerInOrder /\ AckedIsHeld /\ InFlightGenuine

USE DEF NoConn, Torn

\* The invariant, conjunct by conjunct.
LEMMA InvParts ==
  Inv <=> /\ LeaderType /\ ServerType /\ WorkerType /\ ConnType /\ FollowerType /\ faults \in Nat
          /\ FollowerInOrder /\ AckedIsHeld
          /\ WorkerBehind /\ ServerBehind /\ FramesGenuine /\ AcksGenuine /\ DueGenuine /\ LinksMatch
  BY DEF Inv, TypeOK, InFlightGenuine

\* It holds when the brokers start.
LEMMA InitInv == Init => Inv
<1> SUFFICES ASSUME Init PROVE Inv
  OBVIOUS
<1>0. written \in Nat /\ committed = written /\ streamed = written
  BY ReplicationAssumption DEF Init
<1>1. LeaderType /\ ServerType /\ WorkerType /\ ConnType /\ FollowerType /\ faults \in Nat
  <2>1. LeaderType
    BY <1>0 DEF Init, LeaderType
  <2>2. ServerType /\ WorkerType /\ ConnType
    BY ReplicationAssumption DEF Init, ServerType, WorkerType, ConnType, ServerIdle, WorkerIdle, WorkerBusy
  <2>3. FollowerType /\ faults \in Nat
    BY DEF Init, FollowerType
  <2> QED
    BY <2>1, <2>2, <2>3
<1>2. FollowerInOrder /\ AckedIsHeld
  BY DEF Init, FollowerInOrder, Ordered, AckedIsHeld
<1>3. WorkerBehind /\ ServerBehind /\ FramesGenuine /\ AcksGenuine /\ DueGenuine /\ LinksMatch
  BY <1>0 DEF Init, WorkerBehind, ServerBehind, FramesGenuine, AcksGenuine, DueGenuine, LinksMatch, ServerIdle,
     WorkerIdle, WorkerBusy
<1> QED
  BY <1>1, <1>2, <1>3, InvParts

-----------------------------------------------------------------------------
(* What a step leaves alone keeps its part of the invariant *)

\* The types of the leader.
LEMMA LeaderSame ==
  ASSUME Inv, UNCHANGED <<leaderVars, follower_fds, ack_offset>> PROVE LeaderType'
  BY InvParts DEF leaderVars, LeaderType

\* The replication server, which knows no more than was written.
LEMMA ServerSame == ASSUME Inv, UNCHANGED <<written, server>> PROVE ServerType' /\ ServerBehind'
  BY InvParts DEF ServerType, ServerBehind

\* The streaming worker, which is behind what was written.
LEMMA WorkerSame ==
  ASSUME Inv, UNCHANGED <<leaderVars, follower_fds, worker>> PROVE WorkerType' /\ WorkerBehind'
  BY InvParts DEF leaderVars, WorkerType, WorkerBehind, WorkerBusy

\* The types of the followers.
LEMMA FollowerSame == ASSUME Inv, UNCHANGED followerVars PROVE FollowerType'
  BY InvParts DEF followerVars, FollowerType

\* The logs of the followers and what the leader counts as acknowledged.
LEMMA LogSame ==
  ASSUME Inv, UNCHANGED <<written, log, held, ack_offset>> PROVE FollowerInOrder' /\ AckedIsHeld'
  BY InvParts DEF FollowerInOrder, AckedIsHeld

\* The frames on their way to the followers.
LEMMA FramesSame == ASSUME Inv, UNCHANGED <<written, down>> PROVE FramesGenuine'
  BY InvParts DEF FramesGenuine

\* The acknowledgements on their way to the leader.
LEMMA AcksSame == ASSUME Inv, UNCHANGED <<up, who, held, due, out_acks>> PROVE AcksGenuine' /\ DueGenuine'
  BY InvParts DEF AcksGenuine, DueGenuine

\* The two ends of a connection.
LEMMA LinksSame == ASSUME Inv, UNCHANGED <<cur, who, sv>> PROVE LinksMatch'
  BY InvParts DEF LinksMatch

-----------------------------------------------------------------------------
(* Sending a frame *)

\* A frame that a leader thread sends: SYNC of a record it may send, or SYNC_END.
Genuine(frame) ==
  frame = SyncEnd \/ \E o \in Nat : o < written /\ frame = Sync(o)

Sound(s) ==
  s \in Seq(Frame) /\ \A i \in DOMAIN s : s[i].offset < written /\ s[i].data \in {s[i].offset, Torn}

\* A genuine frame is sound, and so is what can be left of it.
LEMMA GenuineSound ==
  ASSUME written \in Nat, NEW frame, Genuine(frame)
  PROVE  Sound(<<>>) /\ Sound(frame) /\ Sound([i \in DOMAIN frame |-> [frame[i] EXCEPT !.data = Torn]])
<1> DEFINE torn == [i \in DOMAIN frame |-> [frame[i] EXCEPT !.data = Torn]]
<1>1. Sound(<<>>)
  BY DEF Sound
<1>2. CASE frame = SyncEnd
  <2>1. frame = <<>> /\ DOMAIN frame = {}
    BY <1>2 DEF SyncEnd
  <2>2. torn = <<>>
    BY <2>1
  <2> QED
    BY <1>1, <2>1, <2>2
<1>3. CASE frame # SyncEnd
  <2>1. PICK o \in Nat : o < written /\ frame = <<[offset |-> o, data |-> o]>>
    BY <1>3 DEF Genuine, Sync
  <2>2. DOMAIN frame = {1} /\ frame[1] = [offset |-> o, data |-> o]
    BY <2>1
  <2>3. Sound(frame)
    BY <2>1, <2>2 DEF Frame, Sound
  <2>4. torn = <<[offset |-> o, data |-> Torn]>>
    BY <2>2
  <2>5. Sound(torn)
    BY <2>1, <2>4 DEF Frame, Sound
  <2> QED
    BY <1>1, <2>3, <2>5
<1> QED
  BY <1>2, <1>3

\* Sending appends at most a sound frame to one connection.
LEMMA SendGenuine ==
  ASSUME ConnType, FramesGenuine, written \in Nat, NEW c \in Conns, NEW frame, Genuine(frame),
         Send(c, frame), UNCHANGED <<written, who, sv, up>>
  PROVE  ConnType' /\ FramesGenuine'
<1>1. CASE UNCHANGED <<down, stream>>
  BY <1>1 DEF ConnType, FramesGenuine
<1>2. CASE ~UNCHANGED <<down, stream>>
  <2>1. PICK s : Sound(s) /\ down' = [down EXCEPT ![c] = @ \o s]
    BY <1>2, GenuineSound, ZenonT(30) DEF Send
  <2>2. \A d \in Conns : Sound(down[d])
    BY DEF ConnType, FramesGenuine, Sound
  <2>3. Sound(down[c] \o s)
    BY <2>1, <2>2, SMTT(30) DEF Sound
  <2>4. down' \in [Conns -> Seq(Frame)] /\ \A d \in Conns : Sound(down'[d])
    BY <2>1, <2>2, <2>3, Zenon DEF ConnType, Sound
  <2>5. stream' \in [Conns -> {"whole", "cut", "garbled"}]
    BY ZenonT(30) DEF Send, ConnType
  <2> QED
    BY <2>4, <2>5 DEF ConnType, FramesGenuine, Sound
<1> QED
  BY <1>1, <1>2

-----------------------------------------------------------------------------
(* The leader's store and its worker thread *)

\* The steps of the leader's store.
LEMMA StoreInv == ASSUME Inv, InitializeReplication \/ Write \/ Commit PROVE Inv'
<1> USE DEF leaderVars, connVars, followerVars
<1>0. UNCHANGED <<streamed, server, worker, follower_fds, ack_offset, connVars, followerVars, faults>>
      /\ written' \in Nat /\ written <= written' /\ committed' \in Nat /\ managed' \in BOOLEAN
  <2>1. UNCHANGED <<streamed, server, worker, follower_fds, ack_offset, connVars, followerVars, faults>>
    BY Zenon DEF InitializeReplication, Write, Commit
  <2>2. managed' = TRUE \/ managed' = managed
    BY Zenon DEF InitializeReplication, Write, Commit
  <2>3. managed \in BOOLEAN /\ written \in Nat /\ committed \in Nat
    BY InvParts DEF LeaderType
  <2>4. \/ written' = written /\ committed' = committed
        \/ written' = written + 1 /\ committed' = committed
        \/ written' = written /\ committed' = written
    BY Zenon DEF InitializeReplication, Write, Commit
  <2>5. managed' \in BOOLEAN
    BY <2>2, <2>3, Zenon
  <2> QED
    BY <2>1, <2>3, <2>4, <2>5
<1>1. LeaderType' /\ ServerType' /\ WorkerType'
  BY <1>0, InvParts DEF LeaderType, ServerType, WorkerType, WorkerBusy
<1>2. ConnType' /\ FollowerType' /\ faults' \in Nat /\ AcksGenuine' /\ DueGenuine' /\ LinksMatch'
  BY <1>0, InvParts, FollowerSame, AcksSame, LinksSame DEF ConnType
<1>5. FollowerInOrder' /\ AckedIsHeld'
  <2>1. \A f \in Followers : \A i \in 1..Len(log[f]) : log[f][i] \in Nat \cup {Torn}
    BY InvParts DEF FollowerType
  <2>2. written \in Nat
    BY InvParts DEF LeaderType
  <2> QED
    BY <1>0, <2>1, <2>2, InvParts DEF FollowerInOrder, AckedIsHeld
<1>3. WorkerBehind' /\ ServerBehind'
  BY InvParts DEF InitializeReplication, Write, Commit, LeaderType, ServerType, WorkerType, WorkerBehind, ServerBehind,
     WorkerBusy
<1>4. FramesGenuine'
  <2>1. \A c \in Conns : \A i \in DOMAIN down[c] : down[c][i] \in Frame
    BY InvParts DEF ConnType
  <2>2. \A c \in Conns : \A i \in DOMAIN down[c] : down[c][i].offset \in Nat
    BY <2>1 DEF Frame
  <2> QED
    BY <1>0, <2>2, InvParts DEF LeaderType, FramesGenuine
<1> QED
  BY <1>1, <1>2, <1>3, <1>4, <1>5 DEF Inv, TypeOK, InFlightGenuine

\* Where WorkerNext leaves the worker, for a batch the leader has written.
LEMMA WorkerNextInv ==
  ASSUME LeaderType, NEW left \in SUBSET Followers, NEW first \in Nat, NEW limit \in Nat,
         \A f \in left : follower_fds[f] # NoConn, first < limit, limit <= written,
         streamed' \in Nat, streamed' <= committed, committed <= written,
         UNCHANGED <<written, committed, follower_fds>>, WorkerNext(left, first, limit)
  PROVE  WorkerType' /\ WorkerBehind'
<1>1. CASE left = {} /\ worker' = WorkerIdle
  BY <1>1 DEF WorkerIdle, LeaderType, WorkerType, WorkerBehind, WorkerBusy
<1>2. CASE \E f \in left : worker' = [left |-> left \ {f}, to |-> follower_fds[f],
                                      first |-> first, offset |-> first, limit |-> limit]
  BY <1>2 DEF LeaderType, WorkerType, WorkerBehind, WorkerBusy
<1> QED
  BY <1>1, <1>2 DEF WorkerNext

\* The streaming worker takes a batch and sends it.
LEMMA WorkerInv == ASSUME Inv, WorkerTake \/ WorkerSend PROVE Inv'
<1> USE DEF leaderVars, connVars, followerVars
<1>1. CASE WorkerTake
  <2>1. PICK limit \in (streamed + 1)..committed :
          /\ WorkerNext({f \in Followers : follower_fds[f] # NoConn}, streamed, limit)
          /\ streamed' = limit
    BY <1>1, ZenonT(30) DEF WorkerTake
  <2>2. limit \in Nat /\ streamed < limit /\ limit <= committed /\ limit <= written
    BY <2>1, InvParts DEF LeaderType, WorkerBehind
  <2>3. UNCHANGED <<managed, written, committed, server, follower_fds, ack_offset, connVars, followerVars,
                    faults>>
    BY <1>1 DEF WorkerTake
  <2>4. WorkerType' /\ WorkerBehind'
    BY <2>1, <2>2, <2>3, InvParts, WorkerNextInv DEF LeaderType, WorkerBehind
  <2>5. LeaderType' /\ ConnType' /\ faults' \in Nat
    BY <2>1, <2>2, <2>3, InvParts DEF LeaderType, ConnType
  <2>6. /\ ServerType' /\ ServerBehind' /\ FollowerType' /\ FollowerInOrder' /\ AckedIsHeld'
        /\ FramesGenuine' /\ AcksGenuine' /\ DueGenuine' /\ LinksMatch'
    BY <2>3, ServerSame, FollowerSame, LogSame, FramesSame, AcksSame, LinksSame
  <2> QED
    BY <2>4, <2>5, <2>6 DEF Inv, TypeOK, InFlightGenuine
<1>2. CASE WorkerSend
  <2>1. /\ worker.to \in Conns /\ worker.offset \in Nat /\ worker.offset < written
        /\ worker.first \in Nat /\ worker.limit \in Nat /\ worker.left \in SUBSET Followers
    BY <1>2, InvParts DEF WorkerSend, LeaderType, WorkerType, WorkerBehind
  <2>2. Send(worker.to, Sync(worker.offset)) /\ Genuine(Sync(worker.offset))
    BY <1>2, <2>1 DEF WorkerSend, Genuine
  <2>3. UNCHANGED <<leaderVars, server, follower_fds, ack_offset, who, sv, up, followerVars, faults>>
    BY <1>2 DEF WorkerSend
  <2>4. WorkerType' /\ WorkerBehind'
    <3>1. CASE WorkerNext(worker.left, worker.first, worker.limit)
      <4>1. /\ \A f \in worker.left : follower_fds[f] # NoConn
            /\ worker.first < worker.limit /\ worker.limit <= written
            /\ streamed' \in Nat /\ streamed' <= committed /\ committed <= written
        BY <1>2, <2>3, InvParts DEF WorkerSend, LeaderType, WorkerType, WorkerBehind
      <4> QED
        BY <2>1, <2>3, <3>1, <4>1, InvParts, WorkerNextInv
    <3>2. CASE worker.offset + 1 < worker.limit /\ worker' = [worker EXCEPT !.offset = @ + 1]
      BY <1>2, <2>1, <2>3, <3>2, InvParts DEF WorkerType, WorkerBehind, WorkerSend, WorkerBusy
    <3> QED
      BY <1>2, <3>1, <3>2 DEF WorkerSend
  <2>5. ConnType' /\ FramesGenuine'
    BY <2>1, <2>2, <2>3, InvParts, SendGenuine DEF LeaderType
  <2>6. LeaderType' /\ ServerType' /\ ServerBehind' /\ FollowerType' /\ faults' \in Nat
    BY <2>3, InvParts, LeaderSame, ServerSame, FollowerSame
  <2>7. FollowerInOrder' /\ AckedIsHeld' /\ AcksGenuine' /\ DueGenuine' /\ LinksMatch'
    BY <2>3, LogSame, AcksSame, LinksSame
  <2> QED
    BY <2>4, <2>5, <2>6, <2>7 DEF Inv, TypeOK, InFlightGenuine
<1> QED
  BY <1>1, <1>2

-----------------------------------------------------------------------------
(* The replication server thread *)

\* The server accepts a connection.
LEMMA AcceptInv == ASSUME Inv, NEW c \in Conns, Accept(c) PROVE Inv'
<1> USE DEF leaderVars, followerVars, Accept, ServerUnchanged
<1>1. /\ LeaderType' /\ ServerType' /\ ServerBehind' /\ WorkerType' /\ WorkerBehind'
      /\ FollowerType' /\ FollowerInOrder' /\ AckedIsHeld' /\ FramesGenuine' /\ AcksGenuine' /\ DueGenuine'
  BY LeaderSame, ServerSame, WorkerSame, FollowerSame, LogSame, FramesSame, AcksSame
<1>2. ConnType' /\ faults' \in Nat
  BY InvParts DEF ConnType
<1>3. LinksMatch'
  BY InvParts DEF LinksMatch, ConnType, FollowerType
<1> QED
  BY <1>1, <1>2, <1>3 DEF Inv, TypeOK, InFlightGenuine

\* The request the server takes is one the follower sent; the others stay.
LEMMA RequestTaken ==
  ASSUME Inv, NEW c \in Conns, up[c] # <<>>, up' = [up EXCEPT ![c] = Tail(@)],
         UNCHANGED <<who, sv, down, stream, held, due, out_acks>>
  PROVE  /\ ConnType' /\ AcksGenuine' /\ DueGenuine'
         /\ Head(up[c]).offset \in Nat
         /\ Head(up[c]).op = "ack" => Head(up[c]).offset <= held[who[c]]
<1>1. up \in [Conns -> Seq(Request)] /\ up[c] \in Seq(Request)
  BY InvParts DEF ConnType
<1>2. Head(up[c]) \in Request /\ Head(up[c]) = up[c][1] /\ 1 \in DOMAIN up[c]
  BY <1>1
<1>3. /\ Tail(up[c]) \in Seq(Request)
      /\ \A i \in DOMAIN Tail(up[c]) : i + 1 \in DOMAIN up[c] /\ Tail(up[c])[i] = up[c][i + 1]
  BY <1>1
<1>4. ConnType'
  BY <1>1, <1>3, InvParts DEF ConnType
<1>5. AcksGenuine' /\ DueGenuine'
  BY <1>1, <1>3, InvParts DEF AcksGenuine, DueGenuine
<1>6. Head(up[c]).op = "ack" => Head(up[c]).offset <= held[who[c]]
  BY <1>2, InvParts DEF AcksGenuine
<1> QED
  BY <1>2, <1>4, <1>5, <1>6 DEF Request

\* The server handles an acknowledgement.
LEMMA HandleReplicaAckInv == ASSUME Inv, NEW c \in Conns, HandleReplicaAck(c) PROVE Inv'
<1> USE DEF leaderVars, followerVars, HandleReplicaAck, ServerUnchanged
<1>1. /\ ConnType' /\ AcksGenuine' /\ DueGenuine'
      /\ Head(up[c]).offset \in Nat /\ Head(up[c]).offset <= held[who[c]]
  BY RequestTaken, ZenonT(30)
<1>2. LeaderType' /\ faults' \in Nat
  BY <1>1, InvParts, ZenonT(30) DEF LeaderType
<1>3. AckedIsHeld'
  BY <1>1, InvParts, Zenon DEF AckedIsHeld, LeaderType, ConnType
<1>4. /\ ServerType' /\ ServerBehind' /\ WorkerType' /\ WorkerBehind' /\ FollowerType'
      /\ FramesGenuine' /\ LinksMatch'
  BY ServerSame, WorkerSame, FollowerSame, FramesSame, LinksSame
<1>5. FollowerInOrder'
  BY InvParts, Zenon DEF FollowerInOrder
<1> QED
  BY <1>1, <1>2, <1>3, <1>4, <1>5 DEF Inv, TypeOK, InFlightGenuine

\* The server is asked for the log and starts to catch a follower up.
LEMMA HandleFetchLogInv == ASSUME Inv, NEW c \in Conns, HandleFetchLog(c) PROVE Inv'
<1> USE DEF leaderVars, followerVars, HandleFetchLog, ServerUnchanged
<1>1. ConnType' /\ AcksGenuine' /\ DueGenuine' /\ Head(up[c]).offset \in Nat
  BY RequestTaken, ZenonT(30)
<1>2. LeaderType' /\ faults' \in Nat
  BY InvParts, Zenon DEF LeaderType, ConnType
<1>3. ServerType' /\ ServerBehind'
  BY <1>1, InvParts DEF ServerType, ServerBehind, LeaderType
<1>4. WorkerType' /\ WorkerBehind'
  <2>1. worker' = worker /\ worker.left = {} /\ ~WorkerBusy /\ ~WorkerBusy'
    BY DEF WorkerBusy, WorkerIdle
  <2>2. WorkerType'
    BY <2>1, InvParts DEF WorkerType
  <2>3. UNCHANGED <<streamed, committed, written>>
    BY Zenon
  <2> QED
    BY <2>1, <2>2, <2>3, InvParts DEF WorkerBehind
<1>5. FollowerType' /\ FollowerInOrder' /\ AckedIsHeld' /\ FramesGenuine' /\ LinksMatch'
  BY FollowerSame, LogSame, FramesSame, LinksSame
<1> QED
  BY <1>1, <1>2, <1>3, <1>4, <1>5, Zenon DEF Inv, TypeOK, InFlightGenuine

\* It reads a batch of the log.
LEMMA CatchUpReadInv == ASSUME Inv, CatchUpRead PROVE Inv'
<1>0. UNCHANGED <<leaderVars, worker, who, followerVars, follower_fds, ack_offset, sv, up, down, faults>>
  BY Zenon DEF CatchUpRead, ServerUnchanged
<1>1. /\ LeaderType' /\ WorkerType' /\ WorkerBehind' /\ FollowerType' /\ FollowerInOrder'
      /\ AckedIsHeld' /\ FramesGenuine' /\ AcksGenuine' /\ DueGenuine' /\ LinksMatch'
  BY <1>0, LeaderSame, WorkerSame, FollowerSame, LogSame, FramesSame, AcksSame, LinksSame
     DEF leaderVars, followerVars
<1>2. ConnType' /\ faults' \in Nat
  <2>1. stream' = stream \/ stream' = [stream EXCEPT ![server.conn] = "cut"]
    BY Zenon DEF CatchUpRead
  <2> QED
    BY <1>0, <2>1, InvParts, ZenonT(30) DEF ConnType
<1>3. ServerType' /\ ServerBehind'
  <2>0. /\ server.pc = "read" /\ written' = written
        /\ \/ \E limit \in (server.offset + 1)..written :
                server' = [server EXCEPT !.pc = "sync", !.limit = limit]
           \/ server' = [server EXCEPT !.pc = "end"]
    BY <1>0, Zenon DEF CatchUpRead, leaderVars
  <2>1. server.conn \in Conns
    <3>1. ServerIdle.pc = "idle"
      BY SMTT(30) DEF ServerIdle
    <3>2. server # ServerIdle
      BY <2>0, <3>1, ZenonT(30)
    <3> QED
      BY <3>2, InvParts DEF ServerType
  <2>2. /\ server.offset \in Nat /\ server.limit \in Nat
        /\ server.limit <= written /\ written \in Nat
    BY InvParts, SMTT(30) DEF LeaderType, ServerType, ServerBehind
  <2>3. server = [pc |-> "read", conn |-> server.conn, offset |-> server.offset,
                  limit |-> server.limit]
    BY <2>0, InvParts, ZenonT(30) DEF ServerType
  <2>4. CASE \E limit \in (server.offset + 1)..written :
               server' = [server EXCEPT !.pc = "sync", !.limit = limit]
    <3>1. PICK limit \in (server.offset + 1)..written :
            server' = [server EXCEPT !.pc = "sync", !.limit = limit]
      BY <2>4, ZenonT(30)
    <3>2. server' = [pc |-> "sync", conn |-> server.conn, offset |-> server.offset, limit |-> limit]
      BY <2>3, <3>1, ZenonT(30)
    <3>3. limit \in Nat /\ server.offset < limit /\ limit <= written
      BY <2>2, <3>1
    <3> QED
      BY <2>0, <2>1, <2>2, <3>2, <3>3, ZenonT(30) DEF ServerType, ServerBehind
  <2>5. CASE server' = [server EXCEPT !.pc = "end"]
    <3>1. server' = [pc |-> "end", conn |-> server.conn, offset |-> server.offset,
                     limit |-> server.limit]
      BY <2>3, <2>5
    <3> QED
      BY <2>0, <2>1, <2>2, <3>1, ZenonT(30) DEF ServerType, ServerBehind
  <2> QED
    BY <2>0, <2>4, <2>5, ZenonT(30)
<1> QED
  BY <1>1, <1>2, <1>3 DEF Inv, TypeOK, InFlightGenuine

\* It sends the batch, or has sent all.
LEMMA CatchUpSendInv == ASSUME Inv, CatchUpSend \/ CatchUpEnd PROVE Inv'
<1> USE DEF leaderVars, followerVars, ServerUnchanged
<1>1. UNCHANGED <<leaderVars, worker, follower_fds, ack_offset, who, sv, up, followerVars, faults>>
  BY DEF CatchUpSend, CatchUpEnd
<1>2. \E frame : Genuine(frame) /\ Send(server.conn, frame)
  <2>1. CASE CatchUpSend
    <3>1. server.offset \in Nat /\ server.offset < written
      BY <2>1, InvParts DEF CatchUpSend, LeaderType, ServerType, ServerBehind
    <3> QED
      BY <2>1, <3>1 DEF CatchUpSend, Genuine
  <2>2. CASE CatchUpEnd
    BY <2>2 DEF CatchUpEnd, Genuine
  <2> QED
    BY <2>1, <2>2
<1>3. server.conn \in Conns
  BY InvParts DEF CatchUpSend, CatchUpEnd, ServerType, ServerIdle
<1>4. ConnType' /\ FramesGenuine'
  BY <1>1, <1>2, <1>3, InvParts, SendGenuine DEF LeaderType
<1>5. ServerType' /\ ServerBehind'
  <2>1. CASE CatchUpEnd
    BY <1>1, <2>1, InvParts DEF CatchUpEnd, LeaderType, ServerType, ServerBehind, ServerIdle
  <2>2. CASE CatchUpSend
    <3> DEFINE pc == IF server.offset + 1 < server.limit THEN "sync" ELSE "read"
    <3>1. /\ server.offset \in Nat /\ server.limit \in Nat /\ server.limit <= written
          /\ server = [pc |-> server.pc, conn |-> server.conn, offset |-> server.offset,
                       limit |-> server.limit]
      BY InvParts DEF LeaderType, ServerType, ServerBehind
    <3>2. server' = [pc |-> pc, conn |-> server.conn, offset |-> server.offset + 1,
                     limit |-> server.limit]
      BY <2>2, <3>1, ZenonT(30) DEF CatchUpSend
    <3> QED
      BY <1>1, <1>3, <3>1, <3>2 DEF ServerType, ServerBehind
  <2> QED
    BY <2>1, <2>2
<1>6. /\ LeaderType' /\ WorkerType' /\ WorkerBehind' /\ FollowerType' /\ FollowerInOrder'
      /\ AckedIsHeld' /\ AcksGenuine' /\ DueGenuine' /\ LinksMatch' /\ faults' \in Nat
  BY <1>1, InvParts, LeaderSame, WorkerSame, FollowerSame, LogSame, AcksSame, LinksSame
<1> QED
  BY <1>4, <1>5, <1>6 DEF Inv, TypeOK, InFlightGenuine

\* The server finds a connection closed.
LEMMA ServerClosesInv == ASSUME Inv, NEW c \in Conns, ServerCloses(c) PROVE Inv'
<1> USE DEF leaderVars, followerVars, ServerCloses, ServerUnchanged
<1>1. /\ LeaderType' /\ ServerType' /\ ServerBehind' /\ WorkerType' /\ WorkerBehind'
      /\ FollowerType' /\ FollowerInOrder' /\ AckedIsHeld' /\ FramesGenuine'
  BY LeaderSame, ServerSame, WorkerSame, FollowerSame, LogSame, FramesSame
<1>2. ConnType'
  <2>1. <<>> \in Seq(Request) /\ up' \in [Conns -> Seq(Request)]
    BY InvParts DEF ConnType
  <2>2. sv' \in [Conns -> {"free", "queued", "open", "closed"}]
    BY InvParts, ZenonT(30) DEF ConnType
  <2> QED
    BY <2>1, <2>2, InvParts DEF ConnType
<1>3. AcksGenuine' /\ DueGenuine'
  <2>1. AcksGenuine'
    BY InvParts DEF AcksGenuine, ConnType
  <2>2. DueGenuine'
    BY InvParts DEF DueGenuine
  <2> QED
    BY <2>1, <2>2
<1>4. LinksMatch'
  BY InvParts DEF LinksMatch, Connected, ConnType, FollowerType
<1>5. faults' \in Nat
  BY InvParts
<1> QED
  BY <1>1, <1>2, <1>3, <1>4, <1>5 DEF Inv, TypeOK, InFlightGenuine

-----------------------------------------------------------------------------
(* A follower *)

\* A follower connects and asks for the log.
LEMMA ConnectInv == ASSUME Inv, NEW f \in Followers, Connect(f) PROVE Inv'
<1> USE DEF leaderVars, LeaderUnchanged
<1>1. PICK c \in Conns :
        /\ sv[c] = "free"
        /\ who' = [who EXCEPT ![c] = f] /\ sv' = [sv EXCEPT ![c] = "queued"]
        /\ up' = [up EXCEPT ![c] = <<Fetch(held[f])>>]
        /\ cur' = [cur EXCEPT ![f] = c]
  BY ZenonT(30) DEF Connect
<1>2. /\ LeaderUnchanged /\ UNCHANGED <<down, stream, client, log, held, due, out_acks, faults>>
  BY Zenon DEF Connect
<1>3. Fetch(held[f]) \in Request /\ Fetch(held[f]).op # "ack"
  BY InvParts DEF FollowerType, Fetch, Request
<1>4. /\ LeaderType' /\ ServerType' /\ ServerBehind' /\ WorkerType' /\ WorkerBehind'
      /\ FollowerInOrder' /\ AckedIsHeld' /\ FramesGenuine' /\ faults' \in Nat
  BY <1>2, InvParts, LeaderSame, ServerSame, WorkerSame, LogSame, FramesSame
<1>5. FollowerType'
  BY <1>1, <1>2, InvParts, Zenon DEF FollowerType
<1>6. ConnType'
  <2>1. up' \in [Conns -> Seq(Request)]
    BY <1>1, <1>3, InvParts DEF ConnType
  <2> QED
    BY <1>1, <1>2, <2>1, InvParts DEF ConnType
<1>7. AcksGenuine' /\ DueGenuine'
  <2>1. \A d \in Conns : d # c => up'[d] = up[d] /\ who'[d] = who[d]
    BY <1>1, InvParts DEF ConnType
  <2>2. \A i \in DOMAIN up'[c] : up'[c][i].op # "ack"
    BY <1>1, <1>3, InvParts DEF ConnType
  <2> QED
    BY <1>2, <2>1, <2>2, InvParts, Zenon DEF AcksGenuine, DueGenuine
<1>8. LinksMatch'
  <2>1. cur'[f] = c /\ who'[c] = f /\ sv'[c] # "free"
    BY <1>1, InvParts DEF ConnType, FollowerType
  <2>2. ASSUME NEW g \in Followers, g # f, cur'[g] # NoConn
        PROVE  who'[cur'[g]] = g /\ sv'[cur'[g]] # "free"
    <3>1. cur'[g] = cur[g] /\ cur[g] \in Conns /\ who[cur[g]] = g /\ sv[cur[g]] # "free"
      BY <1>1, <2>2, InvParts DEF LinksMatch, FollowerType
    <3> QED
      BY <1>1, <3>1, InvParts DEF ConnType
  <2> QED
    BY <2>1, <2>2 DEF LinksMatch
<1> QED
  BY <1>4, <1>5, <1>6, <1>7, <1>8 DEF Inv, TypeOK, InFlightGenuine

\* Close leaves the connections and the links to them in order.
LEMMA CloseInv ==
  ASSUME Inv, NEW f \in Followers, cur[f] # NoConn, Close(f), UNCHANGED <<written, who, up>>
  PROVE  /\ ConnType' /\ FramesGenuine' /\ LinksMatch'
         /\ cur' \in [Followers -> Conns \cup {NoConn}]
<1>1. cur[f] \in Conns
  BY InvParts DEF FollowerType
<1>2. ConnType'
  <2>1. <<>> \in Seq(Frame) /\ down' \in [Conns -> Seq(Frame)]
    BY <1>1, InvParts DEF Close, ConnType
  <2>2. sv' \in [Conns -> {"free", "queued", "open", "closed"}]
    BY <1>1, InvParts DEF Close, ConnType
  <2>3. stream' \in [Conns -> {"whole", "cut", "garbled"}]
    BY <1>1, InvParts DEF Close, ConnType
  <2> QED
    BY <2>1, <2>2, <2>3, InvParts DEF ConnType
<1>3. FramesGenuine'
  BY <1>1, InvParts DEF Close, ConnType, FramesGenuine
<1>4. LinksMatch' /\ cur' \in [Followers -> Conns \cup {NoConn}]
  BY <1>1, InvParts, SMTT(30) DEF Close, ConnType, FollowerType, LinksMatch
<1> QED
  BY <1>2, <1>3, <1>4

\* A connection is closed, by the leader in its handler or by the follower.
LEMMA ClosesInv ==
  ASSUME Inv, NEW f \in Followers, CloseInHandler(f) \/ ClientCloses(f)
  PROVE  Inv'
<1> USE DEF leaderVars, LeaderUnchanged
<1>0. faults \in Nat
  BY InvParts
<1>1. /\ cur[f] # NoConn /\ Close(f) /\ faults' \in Nat
      /\ LeaderUnchanged /\ UNCHANGED <<who, up, log, held, out_acks>>
  <2>1. CASE CloseInHandler(f)
    BY <1>0, <2>1, Zenon DEF CloseInHandler, HasFrame
  <2>2. CASE ClientCloses(f)
    <3>1. /\ cur[f] # NoConn /\ Close(f) /\ LeaderUnchanged /\ UNCHANGED <<who, up, log, held, out_acks>>
          /\ faults' = faults \/ faults' = faults + 1
      BY <2>2, Zenon DEF ClientCloses
    <3> QED
      BY <1>0, <3>1
  <2> QED
    BY <2>1, <2>2
<1>6. due' = due \/ due' = [due EXCEPT ![f] = held[f] + 1]
  BY Zenon DEF CloseInHandler, ClientCloses
<1>7. due' \in [Followers -> Nat] /\ AcksGenuine' /\ DueGenuine'
  <2>1. due' \in [Followers -> Nat] /\ \A g \in Followers : due'[g] <= held[g] + 1
    <3>1. \A g \in Followers : held[g] \in Nat /\ due[g] <= held[g] + 1
      BY InvParts DEF FollowerType, DueGenuine
    <3>2. due \in [Followers -> Nat]
      BY InvParts DEF FollowerType
    <3>3. CASE due' = due
      BY <3>1, <3>2, <3>3
    <3>4. CASE due' = [due EXCEPT ![f] = held[f] + 1]
      BY <3>1, <3>2, <3>4
    <3> QED
      BY <1>6, <3>3, <3>4
  <2>2. UNCHANGED <<who, up, held, out_acks>>
    BY <1>1
  <2> QED
    BY <2>1, <2>2, InvParts, Zenon DEF AcksGenuine, DueGenuine
<1>2. client' \in [Followers -> {"run", "lost"}]
  BY InvParts, ReplicationAssumption, ZenonT(30) DEF CloseInHandler, ClientCloses, FollowerType
<1>3. ConnType' /\ FramesGenuine' /\ LinksMatch' /\ cur' \in [Followers -> Conns \cup {NoConn}]
  BY <1>1, CloseInv
<1>4. FollowerType'
  BY <1>1, <1>2, <1>3, <1>7, InvParts, Zenon DEF FollowerType
<1>5. /\ LeaderType' /\ ServerType' /\ ServerBehind' /\ WorkerType' /\ WorkerBehind'
      /\ FollowerInOrder' /\ AckedIsHeld'
  BY <1>1, LeaderSame, ServerSame, WorkerSame, LogSame
<1> QED
  BY <1>1, <1>3, <1>4, <1>5, <1>7 DEF Inv, TypeOK, InFlightGenuine

\* A record no smaller than those before it, or a torn one, keeps a log in order.
LEMMA OrderedAppend ==
  ASSUME NEW s \in Seq(Nat \cup {Torn}), Ordered(s), NEW r \in Nat \cup {Torn},
         r <= Len(s), r # Torn => \A i \in 1..Len(s) : s[i] <= r
  PROVE  Ordered(Append(s, r))
<1>1. /\ Len(Append(s, r)) = Len(s) + 1 /\ Append(s, r)[Len(s) + 1] = r
      /\ \A i \in 1..Len(s) : Append(s, r)[i] = s[i]
  OBVIOUS
<1>2. Len(s) \in Nat /\ \A i \in 1..Len(s) : s[i] \in Nat \cup {Torn}
  OBVIOUS
<1> QED
  BY <1>1, <1>2 DEF Ordered

\* The head of a sequence is its first element.
LEMMA HeadIsFirst ==
  ASSUME NEW S, NEW s \in Seq(S), s # <<>> PROVE Head(s) = s[1] /\ 1 \in DOMAIN s
OBVIOUS

\* A prefix of an ordered log is ordered.
LEMMA OrderedPrefix ==
  ASSUME NEW s \in Seq(Nat \cup {Torn}), Ordered(s), NEW n \in 0..Len(s)
  PROVE  /\ SubSeq(s, 1, n) \in Seq(Nat \cup {Torn}) /\ Len(SubSeq(s, 1, n)) = n
         /\ \A i \in 1..n : SubSeq(s, 1, n)[i] = s[i]
         /\ Ordered(SubSeq(s, 1, n))
<1>1. /\ SubSeq(s, 1, n) \in Seq(Nat \cup {Torn}) /\ Len(SubSeq(s, 1, n)) = n
      /\ \A i \in 1..n : SubSeq(s, 1, n)[i] = s[i]
  BY SMTT(30)
<1>2. n \in Nat /\ n <= Len(s) /\ Len(s) \in Nat
  OBVIOUS
<1> QED
  BY <1>1, <1>2 DEF Ordered

\* on_replica_sync appends, skips or refuses what a frame holds.
LEMMA OnReplicaSyncInv == ASSUME Inv, NEW f \in Followers, OnReplicaSync(f) PROVE Inv'
<1> USE DEF leaderVars, LeaderUnchanged
<1> DEFINE c == cur[f]
           frame == Head(down[c])
<1>1. c \in Conns /\ down[c] \in Seq(Frame) /\ down[c] # <<>>
  BY InvParts, Zenon DEF OnReplicaSync, HasFrame, ConnType, FollowerType
<1>2. frame \in Frame /\ frame = down[c][1] /\ 1 \in DOMAIN down[c]
  BY <1>1
<1>3. frame.offset < written /\ frame.data \in {frame.offset, Torn}
  BY <1>1, <1>2, InvParts, Zenon DEF FramesGenuine
<1>4. /\ frame.offset = held[f] /\ log' = [log EXCEPT ![f] = Append(@, frame.data)]
      /\ due' = [due EXCEPT ![f] = held[f] + 1] /\ down' = [down EXCEPT ![c] = Tail(@)]
      /\ LeaderUnchanged /\ UNCHANGED <<who, sv, up, stream, cur, client, held, out_acks, faults>>
  BY Zenon DEF OnReplicaSync
<1> HIDE DEF c, frame
<1>5. ConnType' /\ FramesGenuine'
  <2>1. /\ Tail(down[c]) \in Seq(Frame)
        /\ \A i \in DOMAIN Tail(down[c]) : i + 1 \in DOMAIN down[c] /\ Tail(down[c])[i] = down[c][i + 1]
    BY <1>1
  <2>2. ConnType'
    BY <1>1, <1>4, <2>1, InvParts, Zenon DEF ConnType
  <2>3. FramesGenuine'
    <3>1. \A d \in Conns : d # c => down'[d] = down[d]
      BY <1>4, InvParts DEF ConnType
    <3>2. down'[c] = Tail(down[c])
      BY <1>1, <1>4, InvParts DEF ConnType
    <3>3. written' = written
      BY <1>4
    <3>4. \A i \in DOMAIN Tail(down[c]) :
            /\ Tail(down[c])[i].offset < written
            /\ Tail(down[c])[i].data \in {Tail(down[c])[i].offset, Torn}
      BY <1>1, <2>1, InvParts, Zenon DEF FramesGenuine
    <3> QED
      BY <3>1, <3>2, <3>3, <3>4, InvParts, ZenonT(30) DEF FramesGenuine
  <2> QED
    BY <2>2, <2>3
<1>6. /\ log[f] \in Seq(Nat \cup {Torn}) /\ frame.data \in Nat \cup {Torn}
      /\ Len(log[f]) \in Nat /\ written \in Nat /\ held[f] \in Nat /\ held[f] <= Len(log[f])
  BY <1>2, InvParts DEF Frame, FollowerType, LeaderType, AckedIsHeld
<1>7. /\ Append(log[f], frame.data) \in Seq(Nat \cup {Torn})
      /\ Len(Append(log[f], frame.data)) = Len(log[f]) + 1
      /\ \A i \in 1..Len(log[f]) : Append(log[f], frame.data)[i] = log[f][i]
      /\ Append(log[f], frame.data)[Len(log[f]) + 1] = frame.data
  BY <1>6
<1>8. FollowerType' /\ AckedIsHeld'
  <2>1. FollowerType'
    BY <1>4, <1>7, InvParts DEF FollowerType
  <2>2. ack_offset' = ack_offset /\ held' = held
    BY <1>4
  <2>3. \A g \in Followers : Len(log[g]) \in Nat /\ held[g] \in Nat /\ Len(log[g]) <= Len(log'[g])
    <3>1. \A g \in Followers : Len(log[g]) \in Nat /\ held[g] \in Nat
      BY InvParts DEF FollowerType
    <3>2. log'[f] = Append(log[f], frame.data) /\ \A g \in Followers : g # f => log'[g] = log[g]
      BY <1>4, InvParts DEF FollowerType
    <3> QED
      BY <1>7, <3>1, <3>2
  <2>4. \A g \in Followers : Len(log'[g]) \in Nat
    BY <2>1 DEF FollowerType
  <2> QED
    BY <2>1, <2>2, <2>3, <2>4, InvParts DEF AckedIsHeld
<1>9. FollowerInOrder'
  <2>1. \A i \in 1..Len(log[f]) : log[f][i] <= held[f] /\ log[f][i] < written
    BY InvParts DEF FollowerInOrder
  <2>2. frame.data <= held[f] /\ frame.data < written
    BY <1>3, <1>4, <1>6
  <2>3. frame.data # Torn => \A i \in 1..Len(log[f]) : log[f][i] <= frame.data
    BY <1>3, <1>4, <2>1
  <2>4. Ordered(log[f])
    BY InvParts DEF FollowerInOrder
  <2>5. frame.data <= Len(log[f])
    BY <1>6, <2>2
  <2>6. Ordered(Append(log[f], frame.data))
    BY <1>6, <2>3, <2>4, <2>5, OrderedAppend, Zenon
  <2>7. \A i \in 1..Len(Append(log[f], frame.data)) :
          Append(log[f], frame.data)[i] <= held[f] /\ Append(log[f], frame.data)[i] < written
    BY <1>6, <1>7, <2>1, <2>2
  <2>8. UNCHANGED <<written, held>>
    BY <1>4
  <2>9. log'[f] = Append(log[f], frame.data) /\ \A g \in Followers : g # f => log'[g] = log[g]
    BY <1>4, InvParts DEF FollowerType
  <2>10. ASSUME NEW g \in Followers
         PROVE  /\ Ordered(log'[g])
                /\ \A i \in 1..Len(log'[g]) : log'[g][i] <= held[g] /\ log'[g][i] < written
    BY <2>6, <2>7, <2>9, InvParts DEF FollowerInOrder
  <2> QED
    BY <2>8, <2>10, Zenon DEF FollowerInOrder, Ordered
<1>10. /\ LeaderType' /\ ServerType' /\ ServerBehind' /\ WorkerType' /\ WorkerBehind'
       /\ LinksMatch' /\ faults' \in Nat
  BY <1>4, InvParts, LeaderSame, ServerSame, WorkerSame, LinksSame, Zenon
<1>11. AcksGenuine' /\ DueGenuine'
  <2>1. \A g \in Followers : due'[g] <= held[g] + 1
    BY <1>4, <1>6, InvParts, SMTT(30) DEF FollowerType, DueGenuine
  <2>2. UNCHANGED <<who, up, held, out_acks>>
    BY <1>4
  <2> QED
    BY <2>1, <2>2, InvParts, Zenon DEF AcksGenuine, DueGenuine
<1> QED
  BY <1>5, <1>8, <1>9, <1>10, <1>11 DEF Inv, TypeOK, InFlightGenuine

\* A follower sends the acknowledgements that are due.
LEMMA SendAcksInv == ASSUME Inv, NEW f \in Followers, SendAcks(f) PROVE Inv'
<1> USE DEF leaderVars, LeaderUnchanged
<1>1. /\ LeaderUnchanged /\ UNCHANGED <<who, sv, down, stream, cur, client, log, held, due, faults>>
      /\ out_acks' = [out_acks EXCEPT ![f] = 0]
  BY Zenon DEF SendAcks
<1>2. ConnType' /\ \A c \in Conns : \A i \in DOMAIN up'[c] :
                     up'[c][i].op = "ack" => up'[c][i].offset <= held[who[c]]
  <2>1. CASE cur[f] = NoConn
    BY <1>1, <2>1, InvParts, Zenon DEF SendAcks, ConnType, AcksGenuine
  <2>2. CASE cur[f] # NoConn
    <3> DEFINE c == cur[f]
               ack == Ack(out_acks[f])
    <3>1. c \in Conns /\ who[c] = f /\ up[c] \in Seq(Request)
      BY <2>2, InvParts DEF FollowerType, LinksMatch, ConnType
    <3>2. ack \in Request /\ ack.offset <= held[f]
      BY InvParts DEF Ack, Request, FollowerType, DueGenuine
    <3>3. up' = [up EXCEPT ![c] = Append(@, ack)]
      BY <2>2, Zenon DEF SendAcks
    <3> HIDE DEF c, ack
    <3>4. /\ Append(up[c], ack) \in Seq(Request)
          /\ \A i \in DOMAIN Append(up[c], ack) :
               \/ i \in DOMAIN up[c] /\ Append(up[c], ack)[i] = up[c][i]
               \/ Append(up[c], ack)[i] = ack
      BY <3>1, <3>2
    <3>5. ConnType'
      BY <1>1, <3>1, <3>3, <3>4, InvParts, Zenon DEF ConnType
    <3>6. \A d \in Conns : \A i \in DOMAIN up'[d] :
            up'[d][i].op = "ack" => up'[d][i].offset <= held[who[d]]
      BY <3>1, <3>2, <3>3, <3>4, InvParts, Zenon DEF AcksGenuine, ConnType
    <3> QED
      BY <3>5, <3>6
  <2> QED
    BY <2>1, <2>2, Zenon
<1>3. AcksGenuine' /\ DueGenuine'
  <2>1. \A g \in Followers : held[g] \in Nat /\ out_acks'[g] <= held[g]
    BY <1>1, InvParts DEF DueGenuine, FollowerType
  <2>2. held' = held /\ who' = who /\ due' = due
    BY <1>1
  <2> QED
    BY <1>2, <2>1, <2>2, InvParts, Zenon DEF AcksGenuine, DueGenuine
<1>4. FollowerType'
  BY <1>1, InvParts, Zenon DEF FollowerType
<1>5. /\ LeaderType' /\ ServerType' /\ ServerBehind' /\ WorkerType' /\ WorkerBehind'
      /\ FollowerInOrder' /\ AckedIsHeld' /\ FramesGenuine' /\ LinksMatch' /\ faults' \in Nat
  BY <1>1, InvParts, LeaderSame, ServerSame, WorkerSame, LogSame, FramesSame, LinksSame, Zenon
<1> QED
  BY <1>2, <1>3, <1>4, <1>5, Zenon DEF Inv, TypeOK, InFlightGenuine

\* An acknowledgement stays genuine when a follower holds more.
LEMMA HeldGrows ==
  ASSUME Inv, NEW f \in Followers, NEW n \in Nat, held[f] <= n, held' = [held EXCEPT ![f] = n],
         NEW a \in 0..n, out_acks' = [out_acks EXCEPT ![f] = a], due' = [due EXCEPT ![f] = 0],
         UNCHANGED <<who, up, ack_offset>>
  PROVE  /\ held' \in [Followers -> Nat] /\ out_acks' \in [Followers -> Nat] /\ due' \in [Followers -> Nat]
         /\ \A g \in Followers : held[g] <= held'[g]
         /\ \A g \in Followers : ack_offset'[g] <= held'[g]
         /\ AcksGenuine' /\ DueGenuine'
<1>1. held' \in [Followers -> Nat] /\ \A g \in Followers : held[g] <= held'[g]
  BY InvParts DEF FollowerType
<1>2. ASSUME NEW c \in Conns, NEW i \in DOMAIN up[c], up[c][i].op = "ack"
      PROVE  up[c][i].offset <= held'[who[c]]
  <2>1. up[c][i] \in Request /\ who[c] \in Followers
    BY InvParts DEF ConnType
  <2>2. up[c][i].offset \in Nat /\ up[c][i].offset <= held[who[c]]
    BY <1>2, <2>1, InvParts, Zenon DEF AcksGenuine, Request
  <2>3. held[who[c]] \in Nat /\ held'[who[c]] \in Nat /\ held[who[c]] <= held'[who[c]]
    BY <1>1, <2>1, InvParts, Zenon DEF FollowerType
  <2> QED
    BY <2>2, <2>3
<1>3. out_acks' \in [Followers -> Nat] /\ \A g \in Followers : out_acks'[g] <= held'[g]
  BY InvParts DEF FollowerType, DueGenuine
<1>5. due' \in [Followers -> Nat] /\ \A g \in Followers : due'[g] <= held'[g] + 1
  <2>1. \A g \in Followers : held[g] \in Nat /\ held'[g] \in Nat /\ due[g] \in Nat /\ due[g] <= held[g] + 1
    BY <1>1, InvParts DEF FollowerType, DueGenuine
  <2> QED
    BY <1>1, <2>1, InvParts DEF FollowerType
<1>4. \A g \in Followers : ack_offset'[g] <= held'[g]
  <2>1. \A g \in Followers : /\ ack_offset[g] \in Nat /\ held[g] \in Nat /\ held'[g] \in Nat
                             /\ ack_offset[g] <= held[g]
    BY <1>1, InvParts, Zenon DEF AckedIsHeld, LeaderType, FollowerType
  <2> QED
    BY <1>1, <2>1
<1> QED
  BY <1>1, <1>2, <1>3, <1>4, <1>5, Zenon DEF AcksGenuine, DueGenuine

\* A follower that holds more is still in order.
LEMMA InOrderHeld ==
  ASSUME Inv, held' \in [Followers -> Nat], \A g \in Followers : held[g] <= held'[g],
         UNCHANGED <<written, log>>
  PROVE  FollowerInOrder'
<1>1. ASSUME NEW g \in Followers, NEW i \in 1..Len(log[g]) PROVE log[g][i] <= held'[g]
  <2>1. log[g][i] \in Nat \cup {Torn} /\ held[g] \in Nat /\ held'[g] \in Nat /\ log[g][i] <= held[g]
    BY InvParts DEF FollowerType, FollowerInOrder
  <2> QED
    BY <2>1
<1> QED
  BY <1>1, InvParts, Zenon DEF FollowerInOrder, Ordered

\* A record is committed in a follower's store.
LEMMA FollowerCommitsInv == ASSUME Inv, NEW f \in Followers, FollowerCommits(f) PROVE Inv'
<1> USE DEF leaderVars, connVars, LeaderUnchanged
<1>1. PICK n \in (held[f] + 1)..Len(log[f]) : held' = [held EXCEPT ![f] = n]
  BY ZenonT(30) DEF FollowerCommits
<1> DEFINE a == IF due[f] = 0 THEN out_acks[f] ELSE due[f]
<1>2. /\ out_acks' = [out_acks EXCEPT ![f] = a] /\ due' = [due EXCEPT ![f] = 0]
      /\ LeaderUnchanged /\ UNCHANGED <<connVars, cur, client, log, faults>>
  BY Zenon DEF FollowerCommits
<1>3. n \in Nat /\ held[f] <= n /\ n <= Len(log[f])
  BY <1>1, InvParts DEF FollowerType
<1>4. /\ held' \in [Followers -> Nat] /\ out_acks' \in [Followers -> Nat] /\ due' \in [Followers -> Nat]
      /\ \A g \in Followers : held[g] <= held'[g]
      /\ \A g \in Followers : ack_offset'[g] <= held'[g]
      /\ AcksGenuine' /\ DueGenuine'
  <2>1. a \in 0..n
    BY <1>1, InvParts DEF FollowerType, DueGenuine
  <2>2. UNCHANGED <<who, up, ack_offset>>
    BY <1>2
  <2> HIDE DEF a
  <2> QED
    BY <1>1, <1>2, <1>3, <2>1, <2>2, HeldGrows, ZenonT(30)
<1>5. FollowerType'
  BY <1>2, <1>4, InvParts, Zenon DEF FollowerType
<1>6. AckedIsHeld'
  <2>1. \A g \in Followers : held'[g] <= Len(log'[g])
    BY <1>1, <1>2, <1>3, InvParts, Zenon DEF AckedIsHeld, FollowerType
  <2> QED
    BY <1>4, <2>1, Zenon DEF AckedIsHeld
<1>7. /\ LeaderType' /\ ServerType' /\ ServerBehind' /\ WorkerType' /\ WorkerBehind'
      /\ FramesGenuine' /\ LinksMatch'
  BY <1>2, LeaderSame, ServerSame, WorkerSame, FramesSame, LinksSame, Zenon
<1>8. FollowerInOrder' /\ ConnType' /\ faults' \in Nat
  BY <1>2, <1>4, InvParts, InOrderHeld, Zenon DEF ConnType
<1> QED
  BY <1>4, <1>5, <1>6, <1>7, <1>8, Zenon DEF Inv, TypeOK, InFlightGenuine

\* A follower crashes, recovers its log and starts again.
LEMMA RestartInv == ASSUME Inv, NEW f \in Followers, Restart(f) PROVE Inv'
<1> USE DEF leaderVars, LeaderUnchanged
<1>1. PICK n \in held[f]..Len(log[f]) :
        log' = [log EXCEPT ![f] = SubSeq(@, 1, n)] /\ held' = [held EXCEPT ![f] = n]
  BY ZenonT(30) DEF Restart
<1>2. /\ LeaderUnchanged /\ UNCHANGED <<who, up>> /\ faults' = faults + 1
      /\ client' = [client EXCEPT ![f] = "run"]
      /\ due' = [due EXCEPT ![f] = 0] /\ out_acks' = [out_acks EXCEPT ![f] = 0]
  BY Zenon DEF Restart
<1>3. n \in Nat /\ held[f] <= n /\ n <= Len(log[f]) /\ log[f] \in Seq(Nat \cup {Torn})
  BY <1>1, InvParts DEF FollowerType
<1>4. /\ held' \in [Followers -> Nat] /\ out_acks' \in [Followers -> Nat] /\ due' \in [Followers -> Nat]
      /\ \A g \in Followers : held[g] <= held'[g]
      /\ \A g \in Followers : ack_offset'[g] <= held'[g]
      /\ AcksGenuine' /\ DueGenuine'
  <2>1. 0 \in 0..n
    BY <1>3
  <2>2. /\ UNCHANGED <<who, up, ack_offset>> /\ due' = [due EXCEPT ![f] = 0]
        /\ out_acks' = [out_acks EXCEPT ![f] = 0]
    BY <1>2, Zenon
  <2> QED
    BY <1>1, <1>3, <2>1, <2>2, HeldGrows, ZenonT(30)
<1>5. ConnType' /\ FramesGenuine' /\ LinksMatch' /\ cur' \in [Followers -> Conns \cup {NoConn}]
  <2>1. CASE cur[f] = NoConn
    <3>1. UNCHANGED <<written, cur, who, up, down, stream, sv>>
      BY <1>2, <2>1, Zenon DEF Restart
    <3> QED
      BY <3>1, InvParts, FramesSame, LinksSame, Zenon DEF ConnType, FollowerType
  <2>2. CASE cur[f] # NoConn
    BY <1>2, <2>2, CloseInv, Zenon DEF Restart
  <2> QED
    BY <2>1, <2>2
<1>6. /\ SubSeq(log[f], 1, n) \in Seq(Nat \cup {Torn}) /\ Len(SubSeq(log[f], 1, n)) = n
      /\ \A i \in 1..n : SubSeq(log[f], 1, n)[i] = log[f][i]
      /\ Ordered(SubSeq(log[f], 1, n))
  <2>1. Ordered(log[f]) /\ n \in 0..Len(log[f])
    BY <1>3, InvParts DEF FollowerInOrder
  <2> QED
    BY <1>3, <2>1, OrderedPrefix, Zenon
<1>7. log' \in [Followers -> Seq(Nat \cup {Torn})]
  BY <1>1, <1>6, InvParts, Zenon DEF FollowerType
<1>8. FollowerType'
  BY <1>2, <1>4, <1>5, <1>7, InvParts, Zenon DEF FollowerType
<1>9. /\ log'[f] = SubSeq(log[f], 1, n) /\ held'[f] = n
      /\ \A g \in Followers : g # f => log'[g] = log[g] /\ held'[g] = held[g]
  BY <1>1, InvParts DEF FollowerType
<1>10. AckedIsHeld'
  <2>1. \A g \in Followers : held'[g] <= Len(log'[g])
    <3>1. held'[f] = Len(log'[f]) /\ Len(log'[f]) \in Nat
      BY <1>3, <1>6, <1>9
    <3>2. \A g \in Followers : g # f => held'[g] <= Len(log'[g])
      BY <1>9, InvParts DEF AckedIsHeld
    <3>3. held'[f] <= Len(log'[f])
      BY <3>1
    <3> QED
      BY <3>2, <3>3, Zenon
  <2> QED
    BY <1>4, <2>1 DEF AckedIsHeld
<1>11. FollowerInOrder'
  <2>1. ASSUME NEW g \in Followers, NEW i \in 1..Len(log[g])
        PROVE  log[g][i] <= held'[g] /\ log[g][i] < written
    <3>1. log[g][i] \in Nat \cup {Torn} /\ held[g] \in Nat
      BY InvParts DEF FollowerType
    <3>2. log[g][i] <= held[g] /\ log[g][i] < written
      BY InvParts, Zenon DEF FollowerInOrder
    <3>3. held'[g] \in Nat /\ held[g] <= held'[g]
      BY <1>4, Zenon
    <3>4. log[g][i] \in Int /\ held[g] \in Int /\ held'[g] \in Int
      BY <3>1, <3>3 DEF Torn
    <3> QED
      BY <3>2, <3>3, <3>4
  <2>2. Ordered(log'[f])
    BY <1>6, <1>9
  <2>3. \A i \in 1..Len(log'[f]) : log'[f][i] <= held'[f] /\ log'[f][i] < written
    BY <1>3, <1>6, <1>9, <2>1
  <2>4. ASSUME NEW g \in Followers, g # f
        PROVE  Ordered(log'[g]) /\ \A i \in 1..Len(log'[g]) : log'[g][i] <= held'[g] /\ log'[g][i] < written
    BY <1>9, <2>1, <2>4, InvParts, Zenon DEF FollowerInOrder
  <2>5. written' = written
    BY <1>2
  <2> QED
    BY <2>2, <2>3, <2>4, <2>5, Zenon DEF FollowerInOrder, Ordered
<1>12. LeaderType' /\ ServerType' /\ ServerBehind' /\ WorkerType' /\ WorkerBehind' /\ faults' \in Nat
  BY <1>2, InvParts, LeaderSame, ServerSame, WorkerSame
<1> QED
  BY <1>4, <1>5, <1>8, <1>10, <1>11, <1>12, Zenon DEF Inv, TypeOK, InFlightGenuine

-----------------------------------------------------------------------------
(* Theorems *)

\* Every step keeps the invariant.
LEMMA StepInv == Inv /\ [Next]_vars => Inv'
<1> SUFFICES ASSUME Inv, [Next]_vars PROVE Inv'
  BY SMTT(30)
<1>1. CASE UNCHANGED vars
  BY <1>1, InvParts, ZenonT(30)
     DEF vars, leaderVars, connVars, followerVars, Inv, TypeOK, InFlightGenuine, LeaderType,
         ServerType, WorkerType, ConnType, FollowerType, FollowerInOrder, AckedIsHeld, WorkerBehind,
         ServerBehind, FramesGenuine, AcksGenuine, DueGenuine, LinksMatch, WorkerBusy
<1>2. CASE Leader
  BY <1>2, StoreInv, WorkerInv, AcceptInv, HandleReplicaAckInv, HandleFetchLogInv, CatchUpReadInv,
     CatchUpSendInv, ServerClosesInv, Zenon DEF Leader
<1>3. ASSUME NEW f \in Followers, Follower(f) PROVE Inv'
  BY <1>3, ConnectInv, ClosesInv, OnReplicaSyncInv, SendAcksInv, FollowerCommitsInv, RestartInv, Zenon
     DEF Follower
<1> QED
  BY <1>1, <1>2, <1>3 DEF Next

\* It holds throughout.
LEMMA Invariance == Spec => []Inv
  BY InitInv, StepInv, PTL DEF Spec

\* A follower's log is in the leader's order, with no record before its place, through
\* whatever on_replica_sync is handed by catch-up and live stream.
THEOREM InOrder == Spec => []FollowerInOrder
<1>1. Inv => FollowerInOrder
  BY DEF Inv
<1> QED
  BY <1>1, Invariance, PTL

\* on_replica_ack is told only of records its follower holds committed.
THEOREM Acknowledged == Spec => []AckedIsHeld
<1>1. Inv => AckedIsHeld
  BY DEF Inv
<1> QED
  BY <1>1, Invariance, PTL

\* Frames, requests and acknowledgements under way are genuine.
THEOREM InFlight == Spec => []InFlightGenuine
<1>1. Inv => InFlightGenuine
  BY DEF Inv
<1> QED
  BY <1>1, Invariance, PTL

\* The variables have their types.
THEOREM TypeCorrect == Spec => []TypeOK
<1>1. Inv => TypeOK
  BY DEF Inv
<1> QED
  BY <1>1, Invariance, PTL

-----------------------------------------------------------------------------
(* Refinement of ReplicaLog *)

Promised == <<written, log, held, ack_offset>>

\* A step of the leader's store is a step of the abstract log.
LEMMA StoreSimulates ==
  ASSUME InitializeReplication \/ Write \/ Commit PROVE [Promise!Next]_Promised
  BY Zenon DEF InitializeReplication, Write, Commit, followerVars, Promised, Promise!Next, Promise!Write

\* So is an acknowledgement.
LEMMA AckSimulates ==
  ASSUME Inv, NEW c \in Conns, HandleReplicaAck(c) PROVE [Promise!Next]_Promised
<1> DEFINE n == Head(up[c]).offset
<1>1. n \in Nat /\ n <= held[who[c]]
  BY RequestTaken, ZenonT(30) DEF HandleReplicaAck, ServerUnchanged, followerVars
<1>2. who[c] \in Followers /\ ack_offset \in [Followers -> Nat] /\ held[who[c]] \in Nat
  BY InvParts, Zenon DEF ConnType, LeaderType, FollowerType
<1>3. UNCHANGED <<written, log, held>>
  BY Zenon DEF HandleReplicaAck, ServerUnchanged, leaderVars, followerVars
<1>4. ack_offset' = [ack_offset EXCEPT ![who[c]] = IF @ < n THEN n ELSE @]
  BY Zenon DEF HandleReplicaAck
<1> HIDE DEF n
<1>5. CASE ack_offset[who[c]] < n
  <2>0. n \in (ack_offset[who[c]] + 1)..held[who[c]]
    BY <1>1, <1>2, <1>5
  <2>1. n \in (ack_offset[who[c]] + 1)..held[who[c]] /\ ack_offset' = [ack_offset EXCEPT ![who[c]] = n]
    BY <1>4, <1>5, <2>0, Zenon
  <2>2. Promise!Learn(who[c])
    BY <1>3, <2>1, ZenonT(30) DEF Promise!Learn
  <2> QED
    BY <1>2, <2>2, Zenon DEF Promise!Next
<1>6. CASE ~(ack_offset[who[c]] < n)
  <2>1. ack_offset' = [ack_offset EXCEPT ![who[c]] = ack_offset[who[c]]]
    BY <1>4, <1>6, Zenon
  <2>2. ack_offset' = ack_offset
    BY <1>2, <2>1, Zenon
  <2> QED
    BY <1>3, <2>2, Zenon DEF Promised
<1> QED
  BY <1>5, <1>6, SMTT(30)

\* So is what on_replica_sync appends.
LEMMA OnReplicaSyncSimulates ==
  ASSUME Inv, NEW f \in Followers, OnReplicaSync(f) PROVE Promise!Copy(f)
<1>1. cur[f] \in Conns /\ down[cur[f]] \in Seq(Frame) /\ down[cur[f]] # <<>>
  BY InvParts, Zenon DEF OnReplicaSync, HasFrame, ConnType, FollowerType
<1>2. Head(down[cur[f]]) = down[cur[f]][1] /\ 1 \in DOMAIN down[cur[f]]
  BY <1>1, HeadIsFirst, Zenon
<1>3. /\ Head(down[cur[f]]).offset < written
      /\ Head(down[cur[f]]).data \in {Head(down[cur[f]]).offset, Torn}
  BY <1>1, <1>2, InvParts, Zenon DEF FramesGenuine
<1>4. /\ Head(down[cur[f]]).offset = held[f]
      /\ log' = [log EXCEPT ![f] = Append(@, Head(down[cur[f]]).data)]
      /\ UNCHANGED <<written, held, ack_offset>>
  BY Zenon DEF OnReplicaSync, LeaderUnchanged, leaderVars
<1> QED
  BY <1>3, <1>4, ZenonT(30) DEF Promise!Copy, Promise!Torn

\* A step of a follower is one of the promise's, or none.
LEMMA FollowerSimulates ==
  ASSUME Inv, NEW f \in Followers, Follower(f) PROVE [Promise!Next]_Promised
<1> USE DEF LeaderUnchanged, leaderVars
<1>1. CASE OnReplicaSync(f)
  BY <1>1, OnReplicaSyncSimulates DEF Promise!Next
<1>2. CASE FollowerCommits(f)
  BY <1>2, ZenonT(30) DEF FollowerCommits, Promise!Next, Promise!Hold
<1>3. CASE Restart(f)
  BY <1>3, ZenonT(30) DEF Restart, Promise!Next, Promise!Restart
<1>4. CASE Connect(f) \/ CloseInHandler(f) \/ ClientCloses(f) \/ SendAcks(f)
  BY <1>4, Zenon DEF Connect, CloseInHandler, ClientCloses, SendAcks, Promised
<1> QED
  BY <1>1, <1>2, <1>3, <1>4 DEF Follower

\* Server catch-up, live stream, reconnection and restart together implement the
\* promise of ReplicaLog.
THEOREM Refinement == Spec => ImplementsReplicaLog
<1>1. Init => Promise!Init
  BY DEF Init, Promise!Init
<1>2. Inv /\ [Next]_vars => [Promise!Next]_(Promise!vars)
  <2> SUFFICES ASSUME Inv, [Next]_vars PROVE [Promise!Next]_Promised
    BY DEF Promised, Promise!vars
  <2>1. CASE UNCHANGED vars
    BY <2>1 DEF vars, leaderVars, followerVars, Promised
  <2>2. CASE Leader
    <3>1. CASE WorkerTake \/ WorkerSend \/ CatchUpRead \/ CatchUpSend \/ CatchUpEnd
      BY <3>1, ZenonT(30) DEF WorkerTake, WorkerSend, CatchUpRead, CatchUpSend, CatchUpEnd, ServerUnchanged,
         leaderVars, followerVars, Promised
    <3>2. ASSUME NEW c \in Conns, Accept(c) \/ HandleFetchLog(c) \/ ServerCloses(c)
          PROVE  [Promise!Next]_Promised
      BY <3>2, ZenonT(30) DEF Accept, HandleFetchLog, ServerCloses, ServerUnchanged, leaderVars, followerVars,
         Promised
    <3> QED
      BY <2>2, <3>1, <3>2, StoreSimulates, AckSimulates, SMTT(30) DEF Leader
  <2> QED
    BY <2>1, <2>2, FollowerSimulates DEF Next
<1> QED
  BY <1>1, <1>2, Invariance, PTL DEF Spec, ImplementsReplicaLog, Promise!Spec

=============================================================================
