--------------------------- MODULE MCReplication ---------------------------
(* Instances of Replication for TLC: one follower, two descriptors. *)
EXTENDS Replication

CONSTANTS f1, c1, c2

=============================================================================
