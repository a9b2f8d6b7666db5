--------------------------- MODULE TopicRegistry ---------------------------
(***************************************************************************)
(* The TopicRegistry and the partition roles of every broker, for one      *)
(* topic.  A broker that creates a topic makes its partition directories   *)
(* one by one, and one that starts takes for its topic the directories it  *)
(* finds.  No broker tells another of a topic.                             *)
(***************************************************************************)
EXTENDS Integers, FiniteSets

CONSTANTS
  NumBrokers,   \* 1 + peers.size() brokers are counted; the last id is nobody's
  MaxParts,     \* bound: partitions asked for
  MaxFaults     \* bound: crashes, lost connections, elections

ASSUME RegistryAssumption ==
  NumBrokers \in Nat \ {0, 1} /\ MaxParts \in Nat \ {0} /\ MaxFaults \in Nat

Brokers == 0..(NumBrokers - 2)
Parts == 0..(MaxParts - 1)

VARIABLES
  up,           \* the process runs and accepts clients
  dirs,         \* directories partition-0 .. partition-(n-1) on disk
  topics,       \* partitions of the topic in topics_, 0 when it is not there
  creating,     \* partitions create_topic was called for and is making, 0 outside of it
  created,      \* partitions of a CREATE_TOPIC answered with ACK, 0 before
  led,          \* partitions whose role is Leader
  leader_id,    \* leader_id of every partition
  faults

registry == <<up, dirs, topics, creating, created, led, leader_id>>

RegistryInit ==
  /\ up = [b \in Brokers |-> TRUE] /\ dirs = [b \in Brokers |-> 0]
  /\ topics = [b \in Brokers |-> 0] /\ creating = [b \in Brokers |-> 0]
  /\ created = [b \in Brokers |-> 0] /\ led = [b \in Brokers |-> {}]
  /\ leader_id = [b \in Brokers |-> [p \in Parts |-> 0]] /\ faults = 0

Fault == faults < MaxFaults /\ faults' = faults + 1

\* The reactor thread handles one request at a time.
Serves(b) == up[b] /\ creating[b] = 0

\* assign_roles for a topic of n partitions.
AssignRoles(b, n) ==
  /\ led' = [led EXCEPT ![b] = {p \in 0..(n - 1) : p % NumBrokers = b}]
  /\ leader_id' = [leader_id EXCEPT ![b] = [p \in Parts |-> IF p < n THEN p % NumBrokers ELSE 0]]

\* Mutant: a topic that exists is extended.
ExistsNot(b, n) == topics[b] < n

\* The test at the beginning of create_topic.
Creatable(b, n) == topics[b] = 0

CreateTopic(b, n) ==
  /\ Serves(b) /\ n > 0 /\ Creatable(b, n)
  /\ creating' = [creating EXCEPT ![b] = n]
  /\ UNCHANGED <<up, dirs, topics, created, led, leader_id, faults>>

\* One turn of the loop.
CreateDirectory(b) ==
  /\ dirs[b] < creating[b] /\ dirs' = [dirs EXCEPT ![b] = @ + 1]
  /\ UNCHANGED <<up, topics, creating, created, led, leader_id, faults>>

\* The topic is published in topics_, roles are assigned, the ACK is sent.
CreateEnd(b) ==
  /\ creating[b] > 0 /\ dirs[b] >= creating[b]
  /\ topics' = [topics EXCEPT ![b] = creating[b]] /\ created' = [created EXCEPT ![b] = creating[b]]
  /\ creating' = [creating EXCEPT ![b] = 0] /\ AssignRoles(b, creating[b])
  /\ UNCHANGED <<up, dirs, faults>>

\* handle_leader_election adopts another broker, whatever the role was.
Adopt(b, p) ==
  /\ up[b] /\ p < topics[b] /\ Fault
  /\ \E x \in Brokers \ {b} : leader_id' = [leader_id EXCEPT ![b][p] = x]
  /\ led' = [led EXCEPT ![b] = @ \ {p}]
  /\ UNCHANGED <<up, dirs, topics, creating, created>>

Stop(b) ==
  /\ up[b] /\ Fault
  /\ up' = [up EXCEPT ![b] = FALSE] /\ topics' = [topics EXCEPT ![b] = 0]
  /\ creating' = [creating EXCEPT ![b] = 0] /\ led' = [led EXCEPT ![b] = {}]
  /\ UNCHANGED <<dirs, created, leader_id>>

\* Mutant: the highest index is taken for the count.
FoundLast(b) == IF dirs[b] = 0 THEN 0 ELSE dirs[b] - 1

\* The partitions that recover_all finds.
Found(b) == dirs[b]

\* recover_all and initialize_replication.
RecoverAll(b) ==
  /\ ~up[b] /\ up' = [up EXCEPT ![b] = TRUE]
  /\ topics' = [topics EXCEPT ![b] = Found(b)] /\ AssignRoles(b, Found(b))
  /\ UNCHANGED <<dirs, creating, created, faults>>

RegistryType ==
  /\ up \in [Brokers -> BOOLEAN] /\ dirs \in [Brokers -> 0..MaxParts]
  /\ topics \in [Brokers -> 0..MaxParts] /\ creating \in [Brokers -> 0..MaxParts]
  /\ created \in [Brokers -> 0..MaxParts] /\ led \in [Brokers -> SUBSET Parts]
  /\ leader_id \in [Brokers -> [Parts -> 0..(NumBrokers - 1)]] /\ faults \in 0..MaxFaults

=============================================================================
