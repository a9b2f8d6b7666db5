----------------------------- MODULE ReplicaLog -----------------------------
(***************************************************************************)
(* What replication of one partition promises: a follower's log is extended *)
(* only by the leader's record that follows what the follower holds          *)
(* committed (so one record may be accepted twice before it is committed),  *)
(* what it holds committed is never lost, and the leader counts no more as  *)
(* acknowledged than the follower holds.                                    *)
(*                                                                         *)
(* A record is its offset.  Torn marks a record with the right offset and  *)
(* the wrong payload.                                                      *)
(***************************************************************************)
EXTENDS Integers, Sequences

CONSTANT Followers
VARIABLES written, copies, held, acked
vars == <<written, copies, held, acked>>

Torn == -1

Init ==
  /\ written \in Nat
  /\ copies = [f \in Followers |-> <<>>]
  /\ held = [f \in Followers |-> 0] /\ acked = [f \in Followers |-> 0]

Write == written' = written + 1 /\ UNCHANGED <<copies, held, acked>>

Copy(f) ==
  /\ held[f] < written
  /\ \E r \in {held[f], Torn} : copies' = [copies EXCEPT ![f] = Append(@, r)]
  /\ UNCHANGED <<written, held, acked>>

Hold(f) ==
  /\ \E n \in (held[f] + 1)..Len(copies[f]) : held' = [held EXCEPT ![f] = n]
  /\ UNCHANGED <<written, copies, acked>>

\* A restart: what was not committed may be gone, the rest counts as committed.
Restart(f) ==
  /\ \E n \in held[f]..Len(copies[f]) :
       copies' = [copies EXCEPT ![f] = SubSeq(@, 1, n)] /\ held' = [held EXCEPT ![f] = n]
  /\ UNCHANGED <<written, acked>>

Learn(f) ==
  /\ \E n \in (acked[f] + 1)..held[f] : acked' = [acked EXCEPT ![f] = n]
  /\ UNCHANGED <<written, copies, held>>

Next == Write \/ \E f \in Followers : Copy(f) \/ Hold(f) \/ Restart(f) \/ Learn(f)

Spec == Init /\ [][Next]_vars

=============================================================================
