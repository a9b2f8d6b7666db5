-------------------------- MODULE MCReplicaManager --------------------------
(* ReplicaManager for TLC, and what the repository says of it. *)
EXTENDS ReplicaManager

\* replica_manager.hpp: a pending ACK is released once the leader has committed
\* the record and the required number of ISR followers have acknowledged it.
ReadyIsReleased ==
  \A o \in DOMAIN pending :
    o < replicas[Leader].ack_offset => Cardinality(Acknowledged(o)) < required[o]

\* README: with acks=1 the leader acknowledges a write as it commits to its disk,
\* so an acknowledged record is a committed one.
AckedIsCommitted == \A o \in Offsets : posted[o] > 0 => o < handed

\* The tests call stop() and go on: the worker it joins comes to an end.
StopReturns == (attached /\ ~running) ~> (worker = "exited")

=============================================================================
