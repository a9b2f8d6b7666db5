------------------------------ MODULE Election ------------------------------
(***************************************************************************)
(* Roles and elections of one partition, over the brokers of a cluster:    *)
(* assign_roles at start-up, the ReplicationClient thread of a follower    *)
(* (connect_to_leader, maybe_elect_self) and the replication server thread *)
(* (handle_leader_election), with crashes, restarts and failed connections.*)
(*                                                                         *)
(* A log is its committed offset.  The partition exists on every broker.   *)
(***************************************************************************)
EXTENDS Integers, FiniteSets

CONSTANTS
  Brokers,      \* ids in cfg_.peers, which lists every broker, this one included
  Phantom,      \* num_brokers counts this broker twice: one id more than there are
  Leaders,      \* ids that the partition's index modulo num_brokers may be
  MaxOffset,    \* bound: committed records
  MaxEpoch,     \* bound: epoch a broker may reach by standing
  MaxFaults     \* bound: crashes, failed and lost connections

ASSUME ElectionAssumption ==
  /\ Phantom \notin Brokers /\ Leaders \subseteq Brokers \cup {Phantom}
  /\ MaxOffset \in Nat /\ MaxEpoch \in Nat /\ MaxFaults \in Nat

VARIABLES
  assigned,                  \* the partition's index modulo num_brokers
  up,                        \* the process: "down", "booting", "assigned", "running"
  role, leader_id, epoch,    \* PartitionMeta, under its mutex
  committed,                 \* committed_offset of the store, kept through a restart
  conn,                      \* broker at the other end of the client's fd_, or Phantom
  client,                    \* the client thread, inside or outside maybe_elect_self
  claim, left,               \* the LeaderElection it sends, and to whom it is still to go
  msgs,                      \* LEADER_ELECTION frames not yet read
  faults

meta == <<role, leader_id, epoch>>
thread == <<conn, client, claim, left>>
vars == <<assigned, up, meta, committed, thread, msgs, faults>>

NoClaim == [epoch |-> 0, offset |-> 0]

Init ==
  /\ assigned \in Leaders
  /\ up = [b \in Brokers |-> "booting"]
  /\ role = [b \in Brokers |-> "Follower"] /\ leader_id = [b \in Brokers |-> Phantom]
  /\ epoch = [b \in Brokers |-> 0] /\ committed = [b \in Brokers |-> 0]
  /\ conn = [b \in Brokers |-> Phantom] /\ client = [b \in Brokers |-> "none"]
  /\ claim = [b \in Brokers |-> NoClaim] /\ left = [b \in Brokers |-> {}]
  /\ msgs = {} /\ faults = 0

-----------------------------------------------------------------------------
(* The process *)

\* Broker::run starts the replication server, with fresh metadata (leader_id is 0;
\* nobody reads it before assign_roles).
Start(b) ==
  /\ up[b] = "down" /\ up' = [up EXCEPT ![b] = "booting"]
  /\ role' = [role EXCEPT ![b] = "Follower"] /\ leader_id' = [leader_id EXCEPT ![b] = Phantom]
  /\ epoch' = [epoch EXCEPT ![b] = 0]
  /\ UNCHANGED <<assigned, committed, thread, msgs, faults>>

\* assign_roles: the epoch stays as an election has left it.
AssignRoles(b) ==
  /\ up[b] = "booting" /\ up' = [up EXCEPT ![b] = "assigned"]
  /\ leader_id' = [leader_id EXCEPT ![b] = assigned]
  /\ role' = [role EXCEPT ![b] = IF assigned = b THEN "Leader" ELSE "Follower"]
  /\ UNCHANGED <<assigned, epoch, committed, thread, msgs, faults>>

\* The second loop of initialize_replication: a client unless the role is Leader.
StartReplication(b) ==
  /\ up[b] = "assigned" /\ up' = [up EXCEPT ![b] = "running"]
  /\ client' = [client EXCEPT ![b] = IF role[b] = "Leader" THEN "none" ELSE "idle"]
  /\ UNCHANGED <<assigned, meta, committed, conn, claim, left, msgs, faults>>

\* The process ends; the other ends of its connections see it.
Crash(b) ==
  /\ up[b] # "down" /\ faults < MaxFaults /\ faults' = faults + 1
  /\ up' = [up EXCEPT ![b] = "down"]
  /\ conn' = [x \in Brokers |-> IF b \in {x, conn[x]} THEN Phantom ELSE conn[x]]
  /\ client' = [client EXCEPT ![b] = "none"]
  /\ claim' = [claim EXCEPT ![b] = NoClaim] /\ left' = [left EXCEPT ![b] = {}]
  /\ msgs' = {m \in msgs : m.to # b}
  /\ UNCHANGED <<assigned, meta, committed>>

-----------------------------------------------------------------------------
(* Records *)

Publish(b) ==
  /\ up[b] = "running" /\ role[b] = "Leader" /\ committed[b] < MaxOffset
  /\ committed' = [committed EXCEPT ![b] = @ + 1]
  /\ UNCHANGED <<assigned, up, meta, thread, msgs, faults>>

\* Catch-up or live stream, from whatever broker the client is connected to; the
\* stream asks for no role.
Replicate(b) ==
  /\ conn[b] # Phantom /\ committed[b] < committed[conn[b]]
  /\ committed' = [committed EXCEPT ![b] = @ + 1]
  /\ UNCHANGED <<assigned, up, meta, thread, msgs, faults>>

-----------------------------------------------------------------------------
(* The client thread *)

\* connect_to_leader, with the leader found among the peers.
Connect(b) ==
  /\ client[b] = "idle" /\ conn[b] = Phantom
  /\ leader_id[b] \in Brokers \ {b} /\ up[leader_id[b]] # "down"
  /\ conn' = [conn EXCEPT ![b] = leader_id[b]]
  /\ UNCHANGED <<assigned, up, meta, committed, client, claim, left, msgs, faults>>

Disconnect(b) ==
  /\ conn[b] # Phantom /\ faults < MaxFaults /\ faults' = faults + 1
  /\ conn' = [conn EXCEPT ![b] = Phantom]
  /\ UNCHANGED <<assigned, up, meta, committed, client, claim, left, msgs>>

\* Mutant: after a failed connection the thread only sleeps.
NoLeaderSleeps(b) ==
  client[b] = "idle" /\ conn[b] = Phantom /\ leader_id[b] = b /\ UNCHANGED faults

\* No leader to connect to: this broker is named as the leader, or the connection is
\* refused, or fails although the leader is there.
NoLeader(b) ==
  /\ client[b] = "idle" /\ conn[b] = Phantom
  /\ \/ /\ leader_id[b] \in {b} \cup {x \in Brokers : up[x] = "down"}
        /\ UNCHANGED faults
     \/ /\ leader_id[b] \in {x \in Brokers \ {b} : up[x] # "down"}
        /\ faults < MaxFaults /\ faults' = faults + 1

\* Mutant: the broker leads at once.
StandLeads(b) ==
  /\ NoLeader(b) /\ role[b] # "Candidate" /\ epoch[b] < MaxEpoch
  /\ role' = [role EXCEPT ![b] = "Leader"] /\ epoch' = [epoch EXCEPT ![b] = @ + 1]
  /\ client' = [client EXCEPT ![b] = "standing"]
  /\ UNCHANGED <<assigned, up, leader_id, committed, conn, claim, left, msgs>>

\* maybe_elect_self, the part under the mutex.
Stand(b) ==
  /\ NoLeader(b) /\ role[b] # "Candidate" /\ epoch[b] < MaxEpoch
  /\ role' = [role EXCEPT ![b] = "Candidate"] /\ epoch' = [epoch EXCEPT ![b] = @ + 1]
  /\ client' = [client EXCEPT ![b] = "standing"]
  /\ UNCHANGED <<assigned, up, leader_id, committed, conn, claim, left, msgs>>

\* The epoch is read again, without the mutex.
ReadClaim(b) ==
  /\ client[b] = "standing"
  /\ client' = [client EXCEPT ![b] = IF Brokers = {b} THEN "idle" ELSE "sending"]
  /\ claim' = [claim EXCEPT ![b] = [epoch |-> epoch[b], offset |-> committed[b]]]
  /\ left' = [left EXCEPT ![b] = Brokers \ {b}]
  /\ UNCHANGED <<assigned, up, meta, committed, conn, msgs, faults>>

\* broadcast_election to one peer: nothing is sent to one that is down, and the next
\* call of maybe_elect_self finds the role Candidate.
Broadcast(b) ==
  /\ client[b] = "sending"
  /\ \E x \in left[b] :
       /\ left' = [left EXCEPT ![b] = @ \ {x}]
       /\ msgs' = msgs \cup {m \in {[to |-> x, new_leader_id |-> b, epoch |-> claim[b].epoch,
                                     offset |-> claim[b].offset]} : up[x] # "down"}
       /\ client' = [client EXCEPT ![b] = IF left[b] = {x} THEN "idle" ELSE "sending"]
       /\ claim' = [claim EXCEPT ![b] = IF left[b] = {x} THEN NoClaim ELSE @]
  /\ UNCHANGED <<assigned, up, meta, committed, conn, faults>>

-----------------------------------------------------------------------------
(* The replication server thread *)

\* Mutant: the candidate's offset is not compared.
AdoptsAny(b, m) == m.epoch > epoch[b]

Adopts(b, m) == m.epoch > epoch[b] /\ m.offset >= committed[b]

\* Mutant: the roles of the two outcomes swapped.
HandleLeaderElectionSwapped(b) ==
  \E m \in {n \in msgs : n.to = b} :
    /\ msgs' = msgs \ {m}
    /\ \/ /\ Adopts(b, m)
          /\ epoch' = [epoch EXCEPT ![b] = m.epoch]
          /\ leader_id' = [leader_id EXCEPT ![b] = m.new_leader_id]
          /\ role' = [role EXCEPT ![b] = IF m.new_leader_id = b THEN "Follower" ELSE "Leader"]
       \/ ~Adopts(b, m) /\ UNCHANGED meta
    /\ UNCHANGED <<assigned, up, committed, thread, faults>>

\* handle_leader_election.
HandleLeaderElection(b) ==
  \E m \in {n \in msgs : n.to = b} :
    /\ msgs' = msgs \ {m}
    /\ \/ /\ Adopts(b, m)
          /\ epoch' = [epoch EXCEPT ![b] = m.epoch]
          /\ leader_id' = [leader_id EXCEPT ![b] = m.new_leader_id]
          /\ role' = [role EXCEPT ![b] = IF m.new_leader_id = b THEN "Leader" ELSE "Follower"]
       \/ ~Adopts(b, m) /\ UNCHANGED meta
    /\ UNCHANGED <<assigned, up, committed, thread, faults>>

-----------------------------------------------------------------------------
Step(b) ==
  \/ Start(b) \/ AssignRoles(b) \/ StartReplication(b) \/ Crash(b)
  \/ Publish(b) \/ Replicate(b) \/ Connect(b) \/ Disconnect(b)
  \/ Stand(b) \/ ReadClaim(b) \/ Broadcast(b)
  \/ HandleLeaderElection(b)

Next == \E b \in Brokers : Step(b)

Spec == Init /\ [][Next]_vars

\* Every thread runs on; a process that is down need not come back.
Fairness ==
  \A b \in Brokers :
    /\ WF_vars(AssignRoles(b) \/ StartReplication(b)) /\ WF_vars(Connect(b) \/ Stand(b))
    /\ WF_vars(ReadClaim(b) \/ Broadcast(b)) /\ WF_vars(HandleLeaderElection(b))

FairSpec == Spec /\ Fairness

-----------------------------------------------------------------------------
(* Properties *)

Claim == [epoch : Nat, offset : Nat]
Message == [to : Brokers, new_leader_id : Brokers, epoch : Nat, offset : Nat]

\* Every variable has its type; a connection has two living ends, and a broker that is
\* not running has no client.
TypeOK ==
  /\ assigned \in Brokers \cup {Phantom}
  /\ up \in [Brokers -> {"down", "booting", "assigned", "running"}]
  /\ role \in [Brokers -> {"Leader", "Follower", "Candidate"}]
  /\ leader_id \in [Brokers -> Brokers \cup {Phantom}]
  /\ epoch \in [Brokers -> Nat] /\ committed \in [Brokers -> Nat]
  /\ conn \in [Brokers -> Brokers \cup {Phantom}]
  /\ client \in [Brokers -> {"none", "idle", "standing", "sending"}]
  /\ claim \in [Brokers -> Claim] /\ left \in [Brokers -> SUBSET Brokers]
  /\ msgs \subseteq Message /\ faults \in Nat
  /\ \A b \in Brokers : /\ conn[b] # Phantom => client[b] # "none" /\ up[conn[b]] # "down"
                        /\ client[b] # "none" => up[b] = "running"

\* Through any elections, crashes and restarts only the broker that assign_roles names
\* leads, so that two brokers never accept publishes at a time.
OneLeader == \A b \in Brokers : role[b] = "Leader" => b = assigned

\* No broker holds a record that the assigned leader does not hold, whoever it has
\* adopted and caught up from meanwhile.
AssignedHasAll ==
  \A b \in Brokers :
    committed[b] > 0 => assigned \in Brokers /\ committed[b] <= committed[assigned]

\* A client never finds its own broker named as the leader: the first branch of
\* connect_to_leader is never taken, also when an election comes between assign_roles
\* and the start of the clients.
NeverFollowsItself == \A b \in Brokers : client[b] # "none" => leader_id[b] # b

\* A broker takes as its leader, by an election or a restart, only one that holds all
\* that it holds itself at that moment, however old the claim is.
AdoptedHasAll ==
  [][\A b \in Brokers : leader_id'[b] \notin {leader_id[b], Phantom} =>
                         committed[leader_id'[b]] >= committed[b]]_vars

\* A client without a connection gets one, or its broker stands for election, unless
\* the partition was given to the id that is no broker.
FollowerActs ==
  \A b \in Brokers :
    (client[b] = "idle" /\ conn[b] = Phantom /\ leader_id[b] # Phantom) ~>
      (conn[b] # Phantom \/ role[b] = "Candidate" \/ up[b] # "running")

=============================================================================
