--------------------------- MODULE ProtocolProofs ---------------------------
(***************************************************************************)
(* Proofs about the two parts that interpret what others send: Election,   *)
(* for any number of brokers, records, epochs and faults, and FrameDecoder,*)
(* for any limits, any stream of frames and any cutting of it by recv.     *)
(***************************************************************************)
EXTENDS Election, FrameDecoder, TLAPS

-----------------------------------------------------------------------------
(* Election *)

\* A broker that names itself leader was made so by assign_roles and has no client.
SelfLed == \A b \in Brokers : leader_id[b] = b => role[b] = "Leader" /\ client[b] = "none"

\* A claim goes to the others only, and the log of its sender has reached its offset.
ClaimsHeld ==
  \A b \in Brokers : b \notin left[b] /\ claim[b].offset <= committed[b]

\* So it is with a claim on its way.
MessagesHeld ==
  \A m \in msgs : m.new_leader_id # m.to /\ m.offset <= committed[m.new_leader_id]

Inv == TypeOK /\ OneLeader /\ AssignedHasAll /\ SelfLed /\ ClaimsHeld /\ MessagesHeld

\* The invariant holds when the brokers start.
LEMMA InitInv == Init => Inv
<1> SUFFICES ASSUME Init PROVE Inv
  OBVIOUS
<1> USE ElectionAssumption DEF Init, NoClaim
<1>1. TypeOK
  BY DEF TypeOK, Claim, Message
<1> QED
  BY <1>1 DEF Inv, OneLeader, AssignedHasAll, SelfLed, ClaimsHeld, MessagesHeld

\* Both ends of a connection are alive.
LEMMA EndsAlive ==
  ASSUME TypeOK, NEW x \in Brokers
  PROVE  /\ conn[x] # Phantom => conn[x] \in Brokers /\ client[x] # "none" /\ up[conn[x]] # "down"
         /\ client[x] # "none" => up[x] = "running"
<1>1. conn[x] \in Brokers \cup {Phantom}
  BY DEF TypeOK
<1>2. \A b \in Brokers : /\ conn[b] # Phantom => client[b] # "none" /\ up[conn[b]] # "down"
                         /\ client[b] # "none" => up[b] = "running"
  BY DEF TypeOK
<1> QED
  BY <1>1, <1>2

\* A broker starts.
LEMMA StartInv == ASSUME Inv, NEW b \in Brokers, Start(b) PROVE Inv'
<1>0. TypeOK /\ up[b] = "down" /\ up' = [up EXCEPT ![b] = "booting"]
      /\ UNCHANGED <<assigned, committed, thread, msgs, faults>>
  BY DEF Inv, Start
<1>1. TypeOK'
  <2>1. \A x \in Brokers : x # b => up'[x] = up[x]
    BY <1>0 DEF TypeOK
  <2>2. up'[b] = "booting" /\ client[b] = "none"
    BY <1>0, EndsAlive DEF TypeOK
  <2>3. \A x \in Brokers : /\ conn'[x] # Phantom => client'[x] # "none" /\ up'[conn'[x]] # "down"
                           /\ client'[x] # "none" => up'[x] = "running"
    BY <1>0, <2>1, <2>2, EndsAlive DEF thread
  <2> QED
    BY <1>0, <2>3, ElectionAssumption DEF Start, TypeOK, thread
<1> QED
  BY <1>1, ElectionAssumption DEF Inv, Start, thread, TypeOK, OneLeader, AssignedHasAll, SelfLed, ClaimsHeld,
     MessagesHeld

\* assign_roles sets the leader and the role.
LEMMA AssignRolesInv == ASSUME Inv, NEW b \in Brokers, AssignRoles(b) PROVE Inv'
<1>0. TypeOK /\ up[b] = "booting" /\ up' = [up EXCEPT ![b] = "assigned"]
      /\ leader_id' = [leader_id EXCEPT ![b] = assigned]
      /\ role' = [role EXCEPT ![b] = IF assigned = b THEN "Leader" ELSE "Follower"]
      /\ UNCHANGED <<assigned, epoch, committed, conn, client, claim, left, msgs, faults>>
  BY DEF Inv, AssignRoles, thread
<1>1. TypeOK'
  BY <1>0 DEF TypeOK
<1>2. OneLeader'
  BY <1>0 DEF Inv, TypeOK, OneLeader
<1>3. SelfLed'
  <2>1. client[b] = "none"
    BY <1>0, EndsAlive
  <2>2. \A x \in Brokers : x # b => leader_id'[x] = leader_id[x] /\ role'[x] = role[x]
    BY <1>0 DEF TypeOK
  <2>3. leader_id'[b] = b => role'[b] = "Leader"
    BY <1>0 DEF TypeOK
  <2> QED
    BY <1>0, <2>1, <2>2, <2>3 DEF Inv, SelfLed
<1> QED
  BY <1>0, <1>1, <1>2, <1>3 DEF Inv, AssignedHasAll, ClaimsHeld, MessagesHeld

\* initialize_replication starts a client unless the role is Leader.
LEMMA StartReplicationInv == ASSUME Inv, NEW b \in Brokers, StartReplication(b) PROVE Inv'
<1> USE ElectionAssumption DEF Inv, StartReplication, meta, thread
<1>1. TypeOK'
  BY DEF TypeOK
<1>2. OneLeader' /\ SelfLed'
  BY DEF TypeOK, OneLeader, SelfLed
<1> QED
  BY <1>1, <1>2 DEF AssignedHasAll, ClaimsHeld, MessagesHeld

\* A broker crashes, and its connections with it.
LEMMA CrashInv == ASSUME Inv, NEW b \in Brokers, Crash(b) PROVE Inv'
<1> USE ElectionAssumption DEF Inv, Crash, meta, thread
<1>1. TypeOK'
  <2>1. /\ conn' \in [Brokers -> Brokers \cup {Phantom}]
        /\ \A x \in Brokers : conn'[x] # Phantom => x # b /\ conn'[x] # b /\ conn'[x] = conn[x]
    BY DEF TypeOK
  <2>2. claim' \in [Brokers -> Claim] /\ left' \in [Brokers -> SUBSET Brokers]
    BY DEF TypeOK, Claim, NoClaim
  <2> QED
    BY <2>1, <2>2 DEF TypeOK
<1>2. OneLeader' /\ SelfLed'
  BY DEF TypeOK, OneLeader, SelfLed
<1>3. ClaimsHeld'
  BY DEF TypeOK, ClaimsHeld, NoClaim
<1> QED
  BY <1>1, <1>2, <1>3 DEF AssignedHasAll, MessagesHeld

\* Records: the assigned leader alone makes them, and the others copy them.
LEMMA RecordsInv == ASSUME Inv, NEW b \in Brokers, Publish(b) \/ Replicate(b) PROVE Inv'
<1> USE ElectionAssumption DEF Inv, meta, thread
<1>1. /\ committed' = [committed EXCEPT ![b] = committed[b] + 1]
      /\ UNCHANGED <<assigned, up, meta, thread, msgs, faults>>
  BY DEF Publish, Replicate
<1>2. TypeOK'
  BY <1>1 DEF TypeOK
<1>3. AssignedHasAll'
  <2>1. CASE Publish(b)
    BY <1>1, <2>1 DEF Publish, TypeOK, OneLeader, AssignedHasAll
  <2>2. CASE Replicate(b)
    <3>1. conn[b] \in Brokers /\ committed[b] + 1 <= committed[conn[b]] /\ committed[conn[b]] > 0
      BY <2>2 DEF Replicate, TypeOK
    <3>2. assigned \in Brokers /\ committed[b] + 1 <= committed[assigned]
      BY <3>1 DEF TypeOK, AssignedHasAll
    <3> QED
      BY <1>1, <3>2 DEF TypeOK, AssignedHasAll
  <2> QED
    BY <2>1, <2>2
<1>4. ClaimsHeld' /\ MessagesHeld'
  BY <1>1 DEF TypeOK, Claim, Message, ClaimsHeld, MessagesHeld
<1> QED
  BY <1>1, <1>2, <1>3, <1>4 DEF OneLeader, SelfLed

\* The client's connection.
LEMMA ConnInv == ASSUME Inv, NEW b \in Brokers, Connect(b) \/ Disconnect(b) PROVE Inv'
<1>0. TypeOK /\ UNCHANGED <<assigned, up, role, leader_id, epoch, committed, client, claim, left, msgs>>
  BY DEF Inv, Connect, Disconnect, meta
<1>1. PICK c \in Brokers \cup {Phantom} :
        /\ conn' = [conn EXCEPT ![b] = c]
        /\ c # Phantom => c \in Brokers /\ client[b] # "none" /\ up[c] # "down"
  BY ElectionAssumption, Zenon DEF Connect, Disconnect
<1>2. faults' \in Nat
  BY <1>0 DEF Connect, Disconnect, TypeOK
<1>3. TypeOK'
  <2>1. conn' \in [Brokers -> Brokers \cup {Phantom}]
    BY <1>0, <1>1 DEF TypeOK
  <2>2. conn'[b] = c /\ \A x \in Brokers : x # b => conn'[x] = conn[x]
    BY <1>0, <1>1 DEF TypeOK
  <2>3. \A x \in Brokers : conn'[x] # Phantom => client[x] # "none" /\ up[conn'[x]] # "down"
    BY <1>0, <1>1, <2>2, EndsAlive
  <2>4. \A x \in Brokers : client'[x] # "none" => up'[x] = "running"
    BY <1>0, EndsAlive
  <2> QED
    BY <1>0, <1>2, <2>1, <2>3, <2>4 DEF TypeOK
<1> QED
  BY <1>0, <1>3 DEF Inv, OneLeader, AssignedHasAll, SelfLed, ClaimsHeld, MessagesHeld

\* A follower without a leader stands for election.
LEMMA StandInv == ASSUME Inv, NEW b \in Brokers, Stand(b) PROVE Inv'
<1> USE ElectionAssumption DEF Inv, Stand, NoLeader, meta, thread
<1>1. TypeOK'
  BY DEF TypeOK
<1>2. OneLeader' /\ SelfLed'
  BY DEF TypeOK, OneLeader, SelfLed
<1> QED
  BY <1>1, <1>2 DEF AssignedHasAll, ClaimsHeld, MessagesHeld

\* It reads the offset it claims.
LEMMA ReadClaimInv == ASSUME Inv, NEW b \in Brokers, ReadClaim(b) PROVE Inv'
<1> USE ElectionAssumption DEF Inv, ReadClaim, meta, thread
<1>1. TypeOK'
  BY DEF TypeOK, Claim
<1>2. ClaimsHeld'
  BY DEF TypeOK, ClaimsHeld
<1>3. SelfLed'
  BY DEF TypeOK, SelfLed
<1> QED
  BY <1>1, <1>2, <1>3 DEF OneLeader, AssignedHasAll, MessagesHeld

\* It sends its claim to the others, one by one.
LEMMA BroadcastInv == ASSUME Inv, NEW b \in Brokers, Broadcast(b) PROVE Inv'
<1> USE ElectionAssumption DEF Inv, meta, thread
<1>1. PICK x \in left[b] :
        /\ left' = [left EXCEPT ![b] = @ \ {x}]
        /\ msgs' = msgs \cup {m \in {[to |-> x, new_leader_id |-> b, epoch |-> claim[b].epoch,
                                      offset |-> claim[b].offset]} : up[x] # "down"}
        /\ client' = [client EXCEPT ![b] = IF left[b] = {x} THEN "idle" ELSE "sending"]
        /\ claim' = [claim EXCEPT ![b] = IF left[b] = {x} THEN NoClaim ELSE @]
  BY DEF Broadcast
<1>2. client[b] = "sending" /\ UNCHANGED <<assigned, up, meta, committed, conn, faults>>
  BY Zenon DEF Broadcast
<1>3. x \in Brokers /\ x # b /\ claim[b] \in Claim
  BY <1>1 DEF TypeOK, ClaimsHeld
<1>4. \A m \in msgs' : m \in msgs \/ m = [to |-> x, new_leader_id |-> b, epoch |-> claim[b].epoch,
                                          offset |-> claim[b].offset]
  BY <1>1
<1>5. TypeOK'
  <2>1. msgs' \subseteq Message
    BY <1>3, <1>4 DEF TypeOK, Claim, Message
  <2>2. claim' \in [Brokers -> Claim] /\ left' \in [Brokers -> SUBSET Brokers]
    BY <1>1 DEF TypeOK, Claim, NoClaim
  <2> QED
    BY <1>1, <1>2, <2>1, <2>2 DEF TypeOK
<1>6. ClaimsHeld'
  BY <1>1, <1>2 DEF TypeOK, ClaimsHeld, NoClaim
<1>7. MessagesHeld'
  BY <1>2, <1>3, <1>4 DEF ClaimsHeld, MessagesHeld
<1>8. SelfLed'
  BY <1>1, <1>2 DEF TypeOK, SelfLed
<1> QED
  BY <1>2, <1>5, <1>6, <1>7, <1>8 DEF OneLeader, AssignedHasAll

\* handle_leader_election adopts or ignores a claim.
LEMMA ElectionStepInv == ASSUME Inv, NEW b \in Brokers, HandleLeaderElection(b) PROVE Inv'
<1> USE ElectionAssumption DEF Inv, meta, thread
<1>1. PICK m \in msgs :
        /\ m.to = b /\ msgs' = msgs \ {m}
        /\ \/ /\ epoch' = [epoch EXCEPT ![b] = m.epoch]
              /\ leader_id' = [leader_id EXCEPT ![b] = m.new_leader_id]
              /\ role' = [role EXCEPT ![b] = IF m.new_leader_id = b THEN "Leader" ELSE "Follower"]
           \/ UNCHANGED meta
        /\ UNCHANGED <<assigned, up, committed, thread, faults>>
  BY DEF HandleLeaderElection
<1>2. m.new_leader_id \in Brokers /\ m.new_leader_id # b /\ m.epoch \in Nat
  BY <1>1 DEF TypeOK, Message, MessagesHeld
<1>3. TypeOK'
  BY <1>1, <1>2 DEF TypeOK
<1>4. OneLeader' /\ SelfLed'
  BY <1>1, <1>2 DEF TypeOK, OneLeader, SelfLed
<1> QED
  BY <1>1, <1>3, <1>4, Zenon DEF AssignedHasAll, ClaimsHeld, MessagesHeld

\* Every step keeps the invariant.
LEMMA NextInv == Inv /\ [Next]_vars => Inv'
<1> SUFFICES ASSUME Inv, [Next]_vars PROVE Inv'
  OBVIOUS
<1>1. CASE UNCHANGED vars
  BY <1>1 DEF Inv, TypeOK, OneLeader, AssignedHasAll, SelfLed, ClaimsHeld, MessagesHeld,
              vars, meta, thread
<1>2. CASE Next
  <2>1. PICK b \in Brokers : Step(b)
    BY <1>2 DEF Next
  <2> QED
    BY <2>1, StartInv, AssignRolesInv, StartReplicationInv, CrashInv, RecordsInv, ConnInv,
       StandInv, ReadClaimInv, BroadcastInv, ElectionStepInv DEF Step
<1> QED
  BY <1>1, <1>2

\* The inductive invariant holds in every reachable state.
THEOREM ElectionInvariant == Spec => []Inv
BY InitInv, NextInv, PTL DEF Spec

\* Every variable keeps its type; a connection has two living ends.
THEOREM TypeCorrect == Spec => []TypeOK
<1>1. Inv => TypeOK
  BY DEF Inv
<1> QED
  BY <1>1, ElectionInvariant, PTL

\* Only the broker that assign_roles names ever leads (handle_leader_election makes no
\* other broker Leader, since nobody sends a claim to itself).
THEOREM OnlyAssignedLeads == Spec => []OneLeader
<1>1. Inv => OneLeader
  BY DEF Inv
<1> QED
  BY <1>1, ElectionInvariant, PTL

\* The assigned leader holds every record that any broker holds.
THEOREM AssignedHoldsAll == Spec => []AssignedHasAll
<1>1. Inv => AssignedHasAll
  BY DEF Inv
<1> QED
  BY <1>1, ElectionInvariant, PTL

\* A client never finds its own broker named as leader in connect_to_leader.
THEOREM ClientFollowsAnother == Spec => []NeverFollowsItself
<1>1. Inv => NeverFollowsItself
  BY DEF Inv, SelfLed, NeverFollowsItself
<1> QED
  BY <1>1, ElectionInvariant, PTL

\* A broker adopts only a leader that holds all that it holds, whatever the delay of
\* the claim.
THEOREM AdoptsOnlyComplete == Spec => AdoptedHasAll
<1>1. ASSUME Inv, [Next]_vars
      PROVE  [\A b \in Brokers : leader_id'[b] \notin {leader_id[b], Phantom} =>
                                   committed[leader_id'[b]] >= committed[b]]_vars
  <2>1. SUFFICES ASSUME Next
                 PROVE  \A x \in Brokers : leader_id'[x] \notin {leader_id[x], Phantom} =>
                                             committed[leader_id'[x]] >= committed[x]
    BY <1>1
  <2>2. PICK b \in Brokers : Step(b)
    BY <2>1 DEF Next
  <2> SUFFICES ASSUME NEW x \in Brokers, leader_id'[x] \notin {leader_id[x], Phantom}
               PROVE  committed[leader_id'[x]] >= committed[x]
    OBVIOUS
  <2>3. CASE Start(b)
    BY <1>1, <2>3 DEF Start, Inv, TypeOK
  <2>4. CASE AssignRoles(b)
    <3>1. x = b /\ leader_id'[x] = assigned /\ assigned \in Brokers
      BY <1>1, <2>4 DEF AssignRoles, Inv, TypeOK
    <3>2. committed[x] \in Nat /\ committed[assigned] \in Nat
      BY <1>1, <3>1 DEF Inv, TypeOK
    <3> QED
      BY <1>1, <3>1, <3>2 DEF Inv, AssignedHasAll
  <2>5. CASE HandleLeaderElection(b)
    <3>1. PICK m \in msgs : /\ m.offset >= committed[b]
                            /\ leader_id' = [leader_id EXCEPT ![b] = m.new_leader_id]
      BY <2>5, Zenon DEF HandleLeaderElection, Adopts, meta
    <3>2. x = b /\ leader_id'[x] = m.new_leader_id
      BY <1>1, <3>1 DEF Inv, TypeOK
    <3>3. m.offset <= committed[m.new_leader_id]
      BY <1>1, <3>1 DEF Inv, MessagesHeld
    <3>4. committed[x] \in Nat /\ committed[m.new_leader_id] \in Nat /\ m.offset \in Nat
      BY <1>1, <3>1 DEF Inv, TypeOK, Message
    <3> QED
      BY <3>1, <3>2, <3>3, <3>4
  <2>6. CASE UNCHANGED leader_id
    BY <2>6
  <2> QED
    BY <2>2, <2>3, <2>4, <2>5, <2>6, Zenon DEF Step, StartReplication, Crash, Publish, Replicate,
       Connect, Disconnect, Stand, ReadClaim, Broadcast, meta
<1> QED
  BY <1>1, ElectionInvariant, PTL DEF Spec, AdoptedHasAll

-----------------------------------------------------------------------------
(* FrameDecoder *)

\* The conjunct of DecoderInv that says how far push has come.
Progress ==
  pc \in {"idle", "loop", "end"} => \E k \in 0..Len(stream) : Exact(k) /\ (OnTrack(k) \/ Astray(k))

\* The limits are positive.
LEMMA Limits ==
  /\ Prefix \in Nat /\ Prefix >= 1 /\ MaxFrame \in Nat /\ MaxFrame >= 1
  /\ Slack \in Nat /\ Slack >= 1 /\ Compact \in Nat /\ Compact >= 1
  /\ \A l \in Lens : l \in Nat
  BY DecoderAssumption

\* The parts of the invariant, with the type of each number.
LEMMA InvParts ==
  ASSUME DecoderInv
  PROVE  /\ DecoderTypeOK /\ StreamInv /\ IndexInv /\ NeverRefused /\ Progress
         /\ pc = "idle" => frames = <<>>
         /\ got \in Nat /\ size \in Nat /\ read_idx \in Nat /\ cursor \in Nat
         /\ Len(stream) \in Nat /\ Len(start) \in Nat
         /\ \A i \in 1..Len(stream) : stream[i] \in Nat
         /\ \A i \in 1..Len(start) : start[i] \in Nat
         /\ Done \in Seq(Emitted) /\ Len(Done) \in Nat
<1>1. DecoderTypeOK /\ StreamInv /\ IndexInv /\ NeverRefused /\ Progress /\ (pc = "idle" => frames = <<>>)
  BY DEF DecoderInv, Progress
<1>2. /\ got \in Nat /\ size \in Nat /\ read_idx \in Nat /\ cursor \in Nat
      /\ stream \in Seq(Lens) /\ start \in Seq(Nat) /\ out \in Seq(Emitted) /\ frames \in Seq(Emitted)
  BY <1>1 DEF DecoderTypeOK
<1>3. \A i \in 1..Len(stream) : stream[i] \in Nat
  BY <1>2, Limits
<1>4. Done \in Seq(Emitted) /\ Len(Done) \in Nat
  BY <1>2 DEF Done
<1>5. \A i \in 1..Len(start) : start[i] \in Nat
  BY <1>2
<1>6. Len(stream) \in Nat /\ Len(start) \in Nat
  BY <1>2
<1> QED
  BY <1>1, <1>2, <1>3, <1>4, <1>5, <1>6, Zenon

\* The layout of the stream.
LEMMA Layout ==
  ASSUME DecoderInv
  PROVE  /\ Len(start) = Len(stream) + 1 /\ start[1] = 0 /\ Len(stream) + 1 \in 1..Len(start)
         /\ \A i \in 1..Len(stream) : start[i + 1] = start[i] + Prefix + stream[i]
         /\ \A i, j \in 1..(Len(stream) + 1) : i < j => start[i] < start[j]
         /\ \A i \in 1..(Len(stream) + 1) : start[i] \in Nat
         /\ \A i \in 1..Len(stream) : stream[i] \in Nat
         /\ StreamEnd = start[Len(stream) + 1] /\ StreamEnd \in Nat /\ got <= StreamEnd
<1>1. /\ StreamInv /\ Len(stream) \in Nat
      /\ \A i \in 1..Len(stream) : stream[i] \in Nat
      /\ \A i \in 1..Len(start) : start[i] \in Nat
  BY InvParts, Zenon
<1> QED
  BY <1>1 DEF StreamInv, StreamEnd

-----------------------------------------------------------------------------
(* The beginning, and the client *)

\* Nothing is sent, received or emitted yet.
LEMMA DecoderInitInv == DecoderInit => DecoderInv
<1> SUFFICES ASSUME DecoderInit PROVE DecoderInv
  OBVIOUS
<1>1. /\ stream = <<>> /\ start = <<0>> /\ got = 0 /\ size = 0 /\ read_idx = 0 /\ cursor = 0
      /\ frames = <<>> /\ out = <<>> /\ pc = "idle"
  BY DEF DecoderInit
<1>2. DecoderTypeOK
  BY <1>1 DEF DecoderTypeOK
<1>3. Len(stream) = 0 /\ Len(start) = 1 /\ start[1] = 0
  BY <1>1
<1>4. StreamInv /\ IndexInv /\ NeverRefused
  BY <1>1, <1>3, Limits DEF StreamInv, StreamEnd, IndexInv, NeverRefused
<1>5. Done = <<>> /\ Len(Done) = 0
  BY <1>1 DEF Done
<1>6. Exact(0) /\ OnTrack(0)
  BY <1>1, <1>3, <1>5 DEF Exact, OnTrack, Reading
<1> QED
  BY <1>1, <1>2, <1>3, <1>4, <1>6 DEF DecoderInv

\* Frame i has length len[i] and begins at at[i], for i up to n.
LaidOut(n, at, len) ==
  /\ \A i \in 1..n : len[i] \in Nat /\ at[i + 1] = at[i] + Prefix + len[i]
  /\ \A i \in 1..(n + 1) : at[i] \in Nat
  /\ \A i, j \in 1..(n + 1) : i < j => at[i] < at[j]

\* One more frame at the end of the layout.
LEMMA Extend ==
  ASSUME NEW n \in Nat, NEW l \in Nat, NEW at, NEW len, NEW at2, NEW len2, LaidOut(n, at, len),
         \A i \in 1..n : len2[i] = len[i], len2[n + 1] = l,
         \A i \in 1..(n + 1) : at2[i] = at[i], at2[n + 2] = at[n + 1] + Prefix + l
  PROVE  LaidOut(n + 1, at2, len2)
<1>0. /\ \A i \in 1..n : len[i] \in Nat /\ at[i + 1] = at[i] + Prefix + len[i]
      /\ \A i \in 1..(n + 1) : at[i] \in Nat
      /\ \A i, j \in 1..(n + 1) : i < j => at[i] < at[j]
  BY DEF LaidOut
<1>1. ASSUME NEW i \in 1..(n + 1) PROVE len2[i] \in Nat /\ at2[i + 1] = at2[i] + Prefix + len2[i]
  <2>1. CASE i = n + 1
    BY <1>0, <2>1
  <2>2. CASE i \in 1..n
    BY <1>0, <2>2
  <2> QED
    BY <2>1, <2>2
<1>2. ASSUME NEW i \in 1..(n + 2), NEW j \in 1..(n + 2), i < j PROVE at2[i] < at2[j]
  <2>1. i \in 1..(n + 1) /\ at2[i] = at[i] /\ at[i] \in Nat
    BY <1>0, <1>2
  <2>2. CASE j \in 1..(n + 1)
    BY <1>0, <1>2, <2>1, <2>2
  <2>3. CASE j = n + 2
    <3>1. at[i] <= at[n + 1] /\ at[n + 1] \in Nat
      BY <1>0, <2>1
    <3> QED
      BY <2>1, <2>3, <3>1, Limits
  <2> QED
    BY <2>2, <2>3
<1>3. ASSUME NEW i \in 1..(n + 2) PROVE at2[i] \in Nat
  <2>1. at[n + 1] \in Nat /\ Prefix \in Nat
    BY <1>0, Limits
  <2> QED
    BY <1>0, <2>1
<1>4. (n + 1) + 1 = n + 2
  OBVIOUS
<1> QED
  BY <1>1, <1>2, <1>3, <1>4, Zenon DEF LaidOut

\* The client sends a frame; what push has done is not touched.
LEMMA SendInv == ASSUME DecoderInv, Send PROVE DecoderInv'
<1>0. PICK l \in Lens : stream' = Append(stream, l) /\ start' = Append(start, StreamEnd + Prefix + l)
  BY DEF Send
<1>1. UNCHANGED <<got, size, read_idx, cursor, frames, out, pc>> /\ Done' = Done
  BY DEF Send, Done
<1>s. stream \in Seq(Lens) /\ start \in Seq(Nat)
  BY InvParts, Zenon DEF DecoderTypeOK
<1>n. PICK n \in Nat : n = Len(stream)
  BY InvParts, Zenon
<1>2. got \in Nat /\ l \in Nat /\ Prefix \in Nat /\ Prefix >= 1
  BY InvParts, Limits, Zenon
<1>a. /\ Len(start) = n + 1 /\ StreamEnd = start[n + 1] /\ StreamEnd \in Nat /\ got <= StreamEnd
      /\ start[1] = 0 /\ LaidOut(n, start, stream)
  BY <1>n, Layout, Zenon DEF LaidOut
<1>3. /\ stream' \in Seq(Lens) /\ Len(stream') = n + 1 /\ stream'[n + 1] = l
      /\ \A i \in 1..n : stream'[i] = stream[i]
  BY <1>0, <1>s, <1>n
<1>4. /\ start' \in Seq(Nat) /\ Len(start') = n + 2
      /\ start'[n + 2] = start[n + 1] + Prefix + l
      /\ \A i \in 1..(n + 1) : start'[i] = start[i]
  <2>1. PICK e \in Nat : e = start[n + 1] + Prefix + l
    BY <1>2, <1>a
  <2>2. start' = Append(start, e) /\ Len(start) = n + 1
    BY <1>0, <1>a, <2>1, Zenon
  <2>3. start' \in Seq(Nat) /\ Len(start') = n + 2 /\ start'[n + 2] = e
        /\ \A i \in 1..(n + 1) : start'[i] = start[i]
    BY <1>s, <2>2
  <2> QED
    BY <2>1, <2>3, Zenon
<1>5. DecoderTypeOK' /\ IndexInv'
  <2>1. DecoderTypeOK /\ IndexInv
    BY InvParts, Zenon
  <2> QED
    BY <1>1, <1>3, <1>4, <2>1, Zenon DEF DecoderTypeOK, IndexInv
<1>6. StreamInv'
  <2>1. Len(start') = Len(stream') + 1 /\ start'[1] = 0
    <3>1. start'[1] = start[1]
      BY <1>4
    <3> QED
      BY <1>3, <1>4, <1>a, <3>1
  <2>2. /\ \A i \in 1..(n + 1) : start'[i + 1] = start'[i] + Prefix + stream'[i]
        /\ \A i, j \in 1..(n + 2) : i < j => start'[i] < start'[j]
    <3>1. LaidOut(n + 1, start', stream')
      BY <1>2, <1>3, <1>4, <1>a, Extend, Zenon
    <3>2. (n + 1) + 1 = n + 2
      OBVIOUS
    <3> QED
      BY <3>1, <3>2, Zenon DEF LaidOut
  <2>3. got' <= StreamEnd'
    <3>1. StreamEnd' = StreamEnd + Prefix + l
      BY <1>4, <1>a, Zenon DEF StreamEnd
    <3> QED
      BY <1>1, <1>2, <1>a, <3>1
  <2>4. /\ \A i \in 1..Len(stream') : start'[i + 1] = start'[i] + Prefix + stream'[i]
        /\ \A i, j \in 1..Len(start') : i < j => start'[i] < start'[j]
    <3>1. 1..Len(stream') = 1..(n + 1) /\ 1..Len(start') = 1..(n + 2)
      BY <1>3, <1>4, Zenon
    <3> QED
      BY <2>2, <3>1
  <2> QED
    BY <2>1, <2>3, <2>4, Zenon DEF StreamInv
<1>i. \A i \in 1..n : i \in 1..Len(stream') /\ i \in 1..(n + 1) /\ i + 1 \in 1..(n + 1)
  BY <1>3
<1>7. NeverRefused'
  <2> SUFFICES ASSUME pc \in {"fatal", "undefined"}
               PROVE  \E i \in Begun' : stream'[i] \notin 1..(MaxFrame - (Prefix - 1))
    BY <1>1, Zenon DEF NeverRefused
  <2>1. PICK i \in 1..n : start[i] < got /\ stream[i] \notin 1..(MaxFrame - (Prefix - 1))
    BY InvParts, <1>n, Zenon DEF NeverRefused, Begun
  <2>2. i \in 1..Len(stream') /\ start'[i] < got' /\ stream'[i] = stream[i]
    BY <1>1, <1>3, <1>4, <1>i, <2>1, Zenon
  <2> QED
    BY <2>1, <2>2, Zenon DEF Begun
<1>8. Progress'
  <2> SUFFICES ASSUME pc \in {"idle", "loop", "end"}
               PROVE  \E k \in 0..Len(stream') : Exact(k)' /\ (OnTrack(k)' \/ Astray(k)')
    BY <1>1, Zenon DEF Progress
  <2>1. PICK k \in 0..n : Exact(k) /\ (OnTrack(k) \/ Astray(k))
    BY <1>n, InvParts, Zenon DEF Progress
  <2>k. /\ k \in 0..Len(stream') /\ k <= Len(stream') /\ k + 1 \in 1..(n + 1)
        /\ \A j \in 1..k : j \in 1..n /\ j \in 1..(n + 1)
        /\ k < n => k < Len(stream') /\ k + 1 \in 1..n /\ k + 2 \in 1..(n + 1)
        /\ k < n \/ (k = n /\ k + 2 = n + 2 /\ k + 1 = n + 1)
    BY <1>3
  <2>2. Exact(k)'
    BY <1>1, <1>3, <1>4, <2>1, <2>k, Zenon DEF Exact
  <2>3. Astray(k) => Astray(k)'
    BY <1>n, <1>1, <1>3, <1>4, <2>k, Zenon DEF Astray
  <2>4. ASSUME OnTrack(k) PROVE OnTrack(k)'
    <3>1. Len(Done') = k /\ Reading' <= size' /\ got' - size' + Reading' = start'[k + 1]
      BY <1>1, <1>4, <2>4, <2>k, Zenon DEF OnTrack, Reading
    <3>2. ASSUME pc \in {"idle", "end"} PROVE got < start'[k + 2]
      <4>1. CASE k < n
        BY <1>n, <1>4, <2>4, <2>k, <3>2, <4>1, Zenon DEF OnTrack
      <4>2. CASE k = n
        BY <1>2, <1>4, <1>a, <2>k, <4>2
      <4> QED
        BY <2>k, <4>1, <4>2, Zenon
    <3> QED
      BY <1>1, <3>1, <3>2, Zenon DEF OnTrack
  <2> QED
    BY <2>1, <2>2, <2>3, <2>4, <2>k, Zenon
<1> QED
  BY <1>1, <1>5, <1>6, <1>7, <1>8, InvParts, Zenon DEF DecoderInv, Progress

-----------------------------------------------------------------------------
(* What the steps of push share *)

\* A step of push leaves the stream as it is.
LEMMA StreamKept ==
  ASSUME DecoderInv, UNCHANGED sent, got' <= StreamEnd PROVE StreamInv'
<1>1. StreamInv /\ StreamEnd' = StreamEnd /\ stream' = stream /\ start' = start
  BY InvParts, Zenon DEF sent, StreamEnd
<1> QED
  BY <1>1, Zenon DEF StreamInv

\* It keeps the frames emitted before it.
LEMMA ExactKept ==
  ASSUME UNCHANGED sent, Done' = Done, NEW k, Exact(k) PROVE Exact(k)'
<1>1. stream' = stream /\ start' = start
  BY DEF sent
<1> QED
  BY <1>1, Zenon DEF Exact

\* A malformed frame that has begun is never taken back.
LEMMA AstrayKept ==
  ASSUME UNCHANGED sent, NEW k \in 0..Len(stream), start[k + 1] \in Nat, got \in Nat, got' \in Nat, got <= got',
         Astray(k)
  PROVE  Astray(k)'
<1>1. stream' = stream /\ start' = start
  BY DEF sent
<1>2. start[k + 1] < got'
  BY DEF Astray
<1> QED
  BY <1>1, <1>2, Zenon DEF Astray

\* It is the frame that NeverRefused asks for.
LEMMA AstrayRefused ==
  ASSUME DecoderInv, NEW k \in 0..Len(stream), Astray(k)
  PROVE  \E i \in Begun : stream[i] \notin 1..(MaxFrame - (Prefix - 1))
<1>1. PICK n \in Nat : n = Len(stream)
  BY InvParts, Zenon
<1>2. k \in 0..n /\ k < n /\ stream[k + 1] \notin 1..MaxFrame /\ start[k + 1] < got
  BY <1>1, Zenon DEF Astray
<1>3. k + 1 \in 1..n
  BY <1>2
<1>4. 1..(MaxFrame - (Prefix - 1)) \subseteq 1..MaxFrame
  BY Limits
<1> QED
  BY <1>1, <1>2, <1>3, <1>4, Zenon DEF Begun

\* On track, the cursor is at the beginning of frame k + 1, whose length field it reads as
\* soon as it is there.
LEMMA HeadOfFrame ==
  ASSUME DecoderInv, pc = "loop", NEW k \in 0..Len(stream), OnTrack(k)
  PROVE  /\ At = start[k + 1] /\ At \in Nat /\ Buffered = got - At /\ Buffered \in Nat
         /\ Buffered >= Prefix => /\ k < Len(stream) /\ FrameLen = {stream[k + 1]} /\ stream[k + 1] \in Nat
                                  /\ start[k + 1] < got
                                  /\ start[k + 2] = start[k + 1] + Prefix + stream[k + 1]
<1>n. PICK n \in Nat : n = Len(stream)
  BY InvParts, Zenon
<1>1. k \in 0..n /\ got \in Nat /\ size \in Nat /\ cursor \in Nat /\ Prefix \in Nat /\ Prefix >= 1
  BY <1>n, InvParts, Limits, Zenon
<1>2. /\ got <= start[n + 1]
      /\ \A i \in 1..n : stream[i] \in Nat /\ start[i + 1] = start[i] + Prefix + stream[i]
      /\ \A i \in 1..(n + 1) : start[i] \in Nat
      /\ \A i, j \in 1..(n + 1) : i < j => start[i] < start[j]
  BY <1>n, Layout, Zenon
<1>3. cursor <= size /\ got - size + cursor = start[k + 1]
  BY Zenon DEF OnTrack, Reading
<1>4. start[k + 1] \in Nat
  BY <1>1, <1>2
<1>5. At = start[k + 1] /\ At \in Nat /\ Buffered = got - At /\ Buffered \in Nat
  BY <1>1, <1>3, <1>4 DEF At, Buffered
<1>6. ASSUME Buffered >= Prefix
      PROVE  /\ k < n /\ FrameLen = {stream[k + 1]} /\ stream[k + 1] \in Nat /\ start[k + 1] < got
             /\ start[k + 2] = start[k + 1] + Prefix + stream[k + 1]
  <2>1. start[k + 1] < got
    BY <1>1, <1>4, <1>5, <1>6
  <2>2. k # n
    BY <1>1, <1>2, <1>4, <2>1
  <2>3. k < n /\ k + 1 \in 1..n /\ (k + 1) + 1 = k + 2
    BY <1>1, <2>2
  <2>4. \A i \in 1..n : start[i] = start[k + 1] => i = k + 1
    <3> SUFFICES ASSUME NEW i \in 1..n, i # k + 1 PROVE start[i] # start[k + 1]
      OBVIOUS
    <3>1. i \in 1..(n + 1) /\ k + 1 \in 1..(n + 1) /\ (i < k + 1 \/ k + 1 < i)
      BY <1>1
    <3>2. start[i] \in Nat /\ start[k + 1] \in Nat /\ (start[i] < start[k + 1] \/ start[k + 1] < start[i])
      BY <1>2, <3>1, Zenon
    <3> QED
      BY <3>2
  <2>5. {i \in 1..Len(stream) : start[i] = At} = {k + 1}
    BY <1>n, <1>5, <2>3, <2>4, Zenon
  <2>6. FrameLen = {stream[i] : i \in {k + 1}}
    BY <2>5 DEF FrameLen
  <2> QED
    BY <1>2, <2>1, <2>3, <2>6
<1> QED
  BY <1>n, <1>5, <1>6, Zenon

-----------------------------------------------------------------------------
(* The steps of push *)

\* recv brings bytes: push starts where it stopped, or the ceiling is hit.
LEMMA ReceiveInv == ASSUME DecoderInv, Receive PROVE DecoderInv'
<1>0. PICK m \in 1..Slack :
        /\ pc = "idle" /\ got + m <= StreamEnd /\ got' = got + m
        /\ \/ ~Fits(m) /\ pc' = "fatal" /\ UNCHANGED <<size, cursor>>
           \/ Fits(m) /\ pc' = "loop" /\ size' = size + m /\ cursor' = read_idx
        /\ UNCHANGED <<sent, read_idx, frames, out>>
  BY DEF Receive
<1>1. UNCHANGED sent /\ Done' = Done /\ stream' = stream /\ start' = start
  BY <1>0 DEF Done, sent
<1>2. /\ got \in Nat /\ size \in Nat /\ read_idx \in Nat /\ cursor \in Nat /\ m \in Nat /\ m <= Slack
      /\ MaxFrame \in Nat /\ Slack \in Nat /\ Compact \in Nat /\ Prefix \in Nat /\ Prefix >= 1
  BY InvParts, Limits, <1>0
<1>3. size <= got /\ read_idx < Compact /\ size < Compact + MaxFrame + Slack
  BY InvParts, Zenon DEF IndexInv
<1>n. PICK n \in Nat : n = Len(stream)
  BY InvParts, Zenon
<1>4. PICK k \in 0..n : Exact(k) /\ (OnTrack(k) \/ Astray(k))
  BY <1>0, <1>n, InvParts, Zenon DEF Progress
<1>5. StreamInv'
  BY <1>0, <1>1, StreamKept, Zenon
<1>6. start[k + 1] \in Nat /\ start[n + 1] \in Nat /\ got <= start[n + 1]
  <2>1. k + 1 \in 1..(n + 1) /\ n + 1 \in 1..(n + 1)
    OBVIOUS
  <2> QED
    BY <1>n, <2>1, Layout, Zenon
<1>7. got' \in Nat /\ got <= got'
  BY <1>0, <1>2
<1>8. CASE Fits(m) /\ pc' = "loop" /\ size' = size + m /\ cursor' = read_idx
  <2>1. /\ size' \in Nat /\ size' <= got' /\ size' < Compact + MaxFrame + Slack /\ cursor' <= size'
        /\ cursor' \in Nat
    BY <1>0, <1>2, <1>3, <1>8 DEF Fits
  <2>2. DecoderTypeOK' /\ IndexInv'
    BY <1>0, <1>1, <1>3, <1>7, <1>8, <2>1, InvParts, Zenon DEF DecoderTypeOK, IndexInv
  <2>3. NeverRefused'
    BY <1>8, Zenon DEF NeverRefused
  <2>4. Exact(k)'
    BY <1>1, <1>4, ExactKept, Zenon
  <2>5. ASSUME OnTrack(k) PROVE OnTrack(k)'
    <3>1. Len(Done) = k /\ got - size + read_idx = start[k + 1]
      BY <1>0, <2>5, Zenon DEF OnTrack, Reading
    <3>2. Reading' = cursor' /\ got' - size' + cursor' = start[k + 1]
      BY <1>0, <1>2, <1>6, <1>8, <3>1 DEF Reading
    <3> QED
      BY <1>1, <1>8, <2>1, <3>1, <3>2 DEF OnTrack
  <2>6. ASSUME Astray(k) PROVE Astray(k)'
    BY <1>n, <1>1, <1>2, <1>6, <1>7, <2>6, AstrayKept, Zenon
  <2> QED
    BY <1>n, <1>1, <1>4, <1>5, <1>8, <2>2, <2>3, <2>4, <2>5, <2>6 DEF DecoderInv
<1>9. CASE ~Fits(m) /\ pc' = "fatal" /\ UNCHANGED <<size, cursor>>
  <2>1. DecoderTypeOK' /\ IndexInv'
    BY <1>0, <1>1, <1>2, <1>3, <1>7, <1>9, InvParts DEF DecoderTypeOK, IndexInv
  <2>2. ASSUME OnTrack(k)
        PROVE  \E i \in 1..n : start[i] < got' /\ stream[i] \notin 1..(MaxFrame - (Prefix - 1))
    <3>1. read_idx <= size /\ got - size + read_idx = start[k + 1] /\ (k < n => got < start[k + 2])
      BY <1>0, <1>n, <2>2, Zenon DEF OnTrack, Reading
    <3>2. got - start[k + 1] > MaxFrame
      BY <1>2, <1>6, <1>9, <3>1 DEF Fits
    <3>3. k < n /\ k + 1 \in 1..n /\ (k + 1) + 1 = k + 2
      BY <1>2, <1>6, <3>2
    <3>4. start[k + 2] = start[k + 1] + Prefix + stream[k + 1] /\ stream[k + 1] \in Nat
      BY <1>n, <3>3, Layout, Zenon
    <3>5. stream[k + 1] > MaxFrame - (Prefix - 1) /\ start[k + 1] < got'
      BY <1>2, <1>6, <1>7, <3>1, <3>2, <3>3, <3>4
    <3> QED
      BY <1>2, <3>3, <3>4, <3>5
  <2>3. ASSUME Astray(k)
        PROVE  \E i \in 1..n : start[i] < got' /\ stream[i] \notin 1..(MaxFrame - (Prefix - 1))
    <3>1. PICK i \in 1..n : start[i] < got /\ stream[i] \notin 1..(MaxFrame - (Prefix - 1))
      BY <1>n, <2>3, AstrayRefused, Zenon DEF Begun
    <3>2. start[i] \in Nat
      BY <1>n, Layout
    <3> QED
      BY <1>2, <1>7, <3>1, <3>2
  <2>4. NeverRefused'
    BY <1>n, <1>1, <1>4, <2>2, <2>3, Zenon DEF NeverRefused, Begun
  <2> QED
    BY <1>5, <1>9, <2>1, <2>4 DEF DecoderInv
<1> QED
  BY <1>0, <1>8, <1>9

\* The frame at the cursor is not complete.
LEMMA IncompleteInv == ASSUME DecoderInv, Incomplete PROVE DecoderInv'
<1>0. /\ pc = "loop" /\ pc' = "end"
      /\ \/ Buffered < Prefix
         \/ \E l \in FrameLen : l \in 1..MaxFrame /\ Buffered \in Prefix..(Prefix + l - 1)
      /\ UNCHANGED <<sent, got, size, read_idx, cursor, frames, out>>
  BY DEF Incomplete
<1>1. UNCHANGED sent /\ Done' = Done /\ stream' = stream /\ start' = start
  BY <1>0 DEF Done, sent
<1>n. PICK n \in Nat : n = Len(stream)
  BY InvParts, Zenon
<1>2. got \in Nat /\ Prefix \in Nat /\ Prefix >= 1
  BY InvParts, Limits, Zenon
<1>3. PICK k \in 0..n : Exact(k) /\ (OnTrack(k) \/ Astray(k))
  BY <1>0, <1>n, InvParts, Zenon DEF Progress
<1>4. StreamInv'
  BY <1>0, <1>1, StreamKept, Layout, Zenon
<1>5. DecoderTypeOK' /\ IndexInv' /\ NeverRefused'
  BY <1>0, <1>1, InvParts, Zenon DEF DecoderTypeOK, IndexInv, NeverRefused
<1>6. Exact(k)'
  BY <1>1, <1>3, ExactKept, Zenon
<1>7. Astray(k) => Astray(k)'
  BY <1>0, <1>1, Zenon DEF Astray
<1>8. ASSUME OnTrack(k) PROVE OnTrack(k)'
  <2>1. /\ At = start[k + 1] /\ At \in Nat /\ Buffered = got - At /\ Buffered \in Nat
        /\ Buffered >= Prefix => /\ FrameLen = {stream[k + 1]} /\ stream[k + 1] \in Nat
                                 /\ start[k + 2] = start[k + 1] + Prefix + stream[k + 1]
    BY <1>0, <1>n, <1>8, HeadOfFrame, Zenon
  <2>2. ASSUME k < n PROVE got < start[k + 2]
    <3>1. k + 1 \in 1..n /\ (k + 1) + 1 = k + 2
      BY <2>2
    <3>2. start[k + 2] = start[k + 1] + Prefix + stream[k + 1] /\ stream[k + 1] \in Nat
      BY <1>n, <3>1, Layout
    <3>3. CASE Buffered < Prefix
      BY <1>2, <2>1, <3>2, <3>3
    <3>4. CASE Buffered >= Prefix
      <4>1. Buffered < Prefix + stream[k + 1]
        BY <1>0, <1>2, <2>1, <3>4
      <4> QED
        BY <1>2, <2>1, <3>2, <4>1
    <3> QED
      BY <1>2, <2>1, <3>3, <3>4
  <2>3. /\ Len(Done) = k /\ cursor <= size /\ got - size + cursor = start[k + 1] /\ Reading' = cursor'
    BY <1>0, <1>8 DEF OnTrack, Reading
  <2> QED
    BY <1>0, <1>1, <1>n, <2>2, <2>3, Zenon DEF OnTrack
<1> QED
  BY <1>0, <1>1, <1>n, <1>3, <1>4, <1>5, <1>6, <1>7, <1>8, Zenon DEF DecoderInv

\* A frame of length zero sends push astray.
LEMMA ZeroLengthInv == ASSUME DecoderInv, ZeroLength PROVE DecoderInv'
<1>0. /\ pc = "loop" /\ Buffered >= Prefix /\ 0 \in FrameLen /\ size' = 0 /\ pc' = "end"
      /\ UNCHANGED <<sent, got, read_idx, cursor, frames, out>>
  BY DEF ZeroLength
<1>1. UNCHANGED sent /\ Done' = Done /\ stream' = stream /\ start' = start
  BY <1>0 DEF Done, sent
<1>n. PICK n \in Nat : n = Len(stream)
  BY InvParts, Zenon
<1>2. PICK k \in 0..n : Exact(k) /\ (OnTrack(k) \/ Astray(k))
  BY <1>0, <1>n, InvParts, Zenon DEF Progress
<1>3. StreamInv'
  BY <1>0, <1>1, StreamKept, Layout, Zenon
<1>4. DecoderTypeOK' /\ IndexInv' /\ NeverRefused'
  BY <1>0, <1>1, InvParts, Limits DEF DecoderTypeOK, IndexInv, NeverRefused
<1>5. Exact(k)'
  BY <1>1, <1>2, ExactKept, Zenon
<1>6. ASSUME OnTrack(k) PROVE Astray(k)
  <2>1. k < n /\ FrameLen = {stream[k + 1]} /\ start[k + 1] < got
    BY <1>0, <1>n, <1>6, HeadOfFrame, Zenon
  <2>2. stream[k + 1] = 0
    BY <1>0, <2>1, Zenon
  <2>3. 0 \notin 1..MaxFrame
    BY Limits
  <2> QED
    BY <1>n, <2>1, <2>2, <2>3, Zenon DEF Astray
<1>7. Astray(k)'
  BY <1>0, <1>1, <1>2, <1>6, Zenon DEF Astray
<1> QED
  BY <1>0, <1>1, <1>n, <1>2, <1>3, <1>4, <1>5, <1>7, Zenon DEF DecoderInv

\* A frame above max_frame_size_ ends the connection.
LEMMA TooLongInv == ASSUME DecoderInv, TooLong PROVE DecoderInv'
<1>0. /\ pc = "loop" /\ Buffered >= Prefix /\ pc' = "fatal"
      /\ UNCHANGED <<sent, got, size, read_idx, cursor, frames, out>>
  BY DEF TooLong
<1>1. UNCHANGED sent /\ Done' = Done /\ stream' = stream /\ start' = start
  BY <1>0 DEF Done, sent
<1>n. PICK n \in Nat : n = Len(stream)
  BY InvParts, Zenon
<1>2. PICK k \in 0..n : Exact(k) /\ (OnTrack(k) \/ Astray(k))
  BY <1>0, <1>n, InvParts, Zenon DEF Progress
<1>3. StreamInv'
  BY <1>0, <1>1, StreamKept, Layout, Zenon
<1>4. DecoderTypeOK' /\ IndexInv'
  BY <1>0, <1>1, InvParts, Zenon DEF DecoderTypeOK, IndexInv
<1>5. ASSUME OnTrack(k) PROVE Astray(k)
  <2>1. k < n /\ FrameLen = {stream[k + 1]} /\ start[k + 1] < got /\ stream[k + 1] \in Nat
    BY <1>0, <1>n, <1>5, HeadOfFrame, Zenon
  <2>2. stream[k + 1] > MaxFrame
    <3>1. PICK l \in FrameLen : l > MaxFrame
      BY DEF TooLong
    <3>2. l = stream[k + 1]
      BY <2>1, <3>1, Zenon
    <3> QED
      BY <3>1, <3>2
  <2>3. stream[k + 1] \notin 1..MaxFrame
    BY <2>1, <2>2, Limits
  <2> QED
    BY <1>n, <2>1, <2>3, Zenon DEF Astray
<1>6. \E i \in Begun : stream[i] \notin 1..(MaxFrame - (Prefix - 1))
  BY <1>n, <1>2, <1>5, AstrayRefused, Zenon
<1>7. Begun' = Begun
  BY <1>0, <1>1 DEF Begun
<1>8. NeverRefused'
  BY <1>1, <1>6, <1>7, Zenon DEF NeverRefused
<1> QED
  BY <1>0, <1>3, <1>4, <1>8 DEF DecoderInv

\* r is s with e behind it.
LongerBy(r, s, e) ==
  /\ Len(r) = Len(s) + 1 /\ r[Len(s) + 1] = e
  /\ \A j \in 1..Len(s) : r[j] = s[j]

\* A frame is put behind those of this call, and so behind all there are.
LEMMA DoneAppend ==
  ASSUME NEW o \in Seq(Emitted), NEW f \in Seq(Emitted), NEW e \in Emitted
  PROVE  LongerBy(o \o Append(f, e), o \o f, e)
BY SMTT(30) DEF LongerBy

\* A complete frame is emitted and the cursor moves to the next.
LEMMA EmitInv == ASSUME DecoderInv, Emit PROVE DecoderInv'
<1>0. PICK l \in FrameLen :
        /\ l \in 1..MaxFrame /\ Buffered >= Prefix + l
        /\ frames' = Append(frames, [at |-> At, len |-> l]) /\ cursor' = cursor + Prefix + l
  BY DEF Emit
<1>1. /\ pc = "loop" /\ pc' = "loop" /\ UNCHANGED <<sent, got, size, read_idx, out>>
      /\ stream' = stream /\ start' = start
  BY DEF Emit, sent
<1>2. /\ got \in Nat /\ size \in Nat /\ cursor \in Nat /\ Prefix \in Nat /\ MaxFrame \in Nat
      /\ size <= got /\ l \in Nat
  BY <1>0, InvParts, Limits DEF IndexInv
<1>3. At \in Nat /\ cursor' \in Nat /\ cursor' <= size /\ Buffered >= Prefix
  BY <1>0, <1>2 DEF At, Buffered
<1>4. PICK e \in Emitted : e = [at |-> At, len |-> l]
  BY <1>0, <1>3 DEF Emitted
<1>5. out \in Seq(Emitted) /\ frames \in Seq(Emitted) /\ frames' = Append(frames, e)
  BY <1>0, <1>4, InvParts, Zenon DEF DecoderTypeOK
<1>n. PICK n \in Nat : n = Len(stream)
  BY InvParts, Zenon
<1>m. PICK d \in Nat : d = Len(Done)
  BY InvParts, Zenon
<1>6. Len(Done') = d + 1 /\ Done'[d + 1] = e /\ \A j \in 1..d : Done'[j] = Done[j]
  <2>1. out' = out
    BY <1>1
  <2>2. Done' = out \o Append(frames, e)
    BY <1>5, <2>1, Zenon DEF Done
  <2>3. Done = out \o frames
    BY Zenon DEF Done
  <2>4. LongerBy(out \o Append(frames, e), out \o frames, e)
    BY <1>5, DoneAppend, Zenon
  <2>5. LongerBy(Done', Done, e)
    BY <2>2, <2>3, <2>4, Zenon
  <2> QED
    BY <1>m, <2>5, Zenon DEF LongerBy
<1>7. DecoderTypeOK' /\ IndexInv' /\ NeverRefused'
  <2>1. frames' \in Seq(Emitted)
    BY <1>5
  <2> QED
    BY <1>1, <1>3, <2>1, InvParts, Zenon DEF DecoderTypeOK, IndexInv, NeverRefused
<1>8. StreamInv'
  BY <1>1, StreamKept, Layout, Zenon
<1>9. PICK k \in 0..n : Exact(k) /\ (OnTrack(k) \/ Astray(k))
  BY <1>1, <1>n, InvParts, Zenon DEF Progress
<1>10. k <= d /\ k <= n /\ \A j \in 1..k : stream[j] \in 1..MaxFrame /\ Done[j] = [at |-> start[j], len |-> stream[j]]
  BY <1>n, <1>m, <1>9, Zenon DEF Exact
<1>11. CASE Astray(k)
  <2>1. Astray(k)'
    BY <1>1, <1>11, Zenon DEF Astray
  <2>2. \A j \in 1..k : j \in 1..d
    BY <1>10
  <2>3. k <= d + 1
    BY <1>10
  <2>4. Exact(k)'
    BY <1>n, <1>1, <1>6, <1>10, <2>2, <2>3, Zenon DEF Exact
  <2> QED
    BY <1>n, <1>1, <1>7, <1>8, <2>1, <2>4, Zenon DEF DecoderInv
<1>12. CASE OnTrack(k)
  <2>1. /\ At = start[k + 1] /\ k < n /\ FrameLen = {stream[k + 1]}
        /\ start[k + 2] = start[k + 1] + Prefix + stream[k + 1]
    BY <1>n, <1>1, <1>3, <1>12, HeadOfFrame, Zenon
  <2>2. l = stream[k + 1]
    BY <2>1, Zenon
  <2>3. d = k
    BY <1>m, <1>12, Zenon DEF OnTrack
  <2>4. /\ k + 1 \in 0..n /\ k + 1 <= n /\ (k + 1) + 1 = k + 2
        /\ \A j \in 1..(k + 1) : j \in 1..k \/ j = k + 1
    BY <2>1
  <2>5. e = [at |-> start[k + 1], len |-> stream[k + 1]]
    BY <1>4, <2>1, <2>2, Zenon
  <2>6. \A j \in 1..(k + 1) : stream[j] \in 1..MaxFrame /\ Done'[j] = [at |-> start[j], len |-> stream[j]]
    <3> SUFFICES ASSUME NEW j \in 1..(k + 1)
                 PROVE  stream[j] \in 1..MaxFrame /\ Done'[j] = [at |-> start[j], len |-> stream[j]]
      BY Zenon
    <3>1. CASE j \in 1..k
      BY <1>6, <1>10, <2>3, <3>1, Zenon
    <3>2. CASE j = k + 1
      BY <1>0, <1>6, <2>2, <2>3, <2>5, <3>2, Zenon
    <3> QED
      BY <2>4, <3>1, <3>2, Zenon
  <2>7. k + 1 <= Len(Done')
    BY <1>6, <2>3
  <2>8. Exact(k + 1)'
    BY <1>n, <1>1, <2>4, <2>6, <2>7, Zenon DEF Exact
  <2>9. got - size + cursor' = start[k + 2]
    <3>1. got - size + cursor = start[k + 1]
      BY <2>1, Zenon DEF At
    <3>2. cursor' = cursor + Prefix + l /\ start[k + 2] = start[k + 1] + Prefix + l
      BY <1>0, <2>1, <2>2, Zenon
    <3>3. PICK a \in Int : a = start[k + 1] /\ got - size + cursor = a
      <4>1. got - size + cursor \in Int
        BY <1>2
      <4> QED
        BY <3>1, <4>1, Zenon
    <3>4. got - size + (cursor + Prefix + l) = a + Prefix + l
      BY <1>2, <3>3
    <3> QED
      BY <3>2, <3>3, <3>4, Zenon
  <2>10. OnTrack(k + 1)'
    BY <1>1, <1>3, <1>6, <2>3, <2>4, <2>9, Zenon DEF OnTrack, Reading
  <2> QED
    BY <1>n, <1>1, <1>7, <1>8, <2>4, <2>8, <2>10, Zenon DEF DecoderInv
<1> QED
  BY <1>9, <1>11, <1>12

\* push stores the cursor or erases what is consumed.
LEMMA EndInv == ASSUME DecoderInv, End PROVE DecoderInv'
<1>0. /\ pc = "end"
      /\ \/ cursor < Compact /\ read_idx' = cursor /\ size' = size /\ pc' = "idle"
         \/ cursor >= Compact /\ cursor <= size /\ read_idx' = 0 /\ size' = size - cursor /\ pc' = "idle"
         \/ cursor >= Compact /\ cursor > size /\ read_idx' = 0 /\ size' = size /\ pc' = "undefined"
  BY DEF End
<1>1. /\ out' = out \o frames /\ frames' = <<>> /\ UNCHANGED <<sent, got, cursor>>
      /\ stream' = stream /\ start' = start
  BY DEF End, sent
<1>2. /\ got \in Nat /\ size \in Nat /\ cursor \in Nat /\ size <= got
      /\ Compact \in Nat /\ Compact >= 1 /\ MaxFrame \in Nat /\ Slack \in Nat
      /\ size < Compact + MaxFrame + Slack
  BY InvParts, Limits DEF IndexInv
<1>3. Done' = Done /\ Done \in Seq(Emitted) /\ out' \in Seq(Emitted)
  <2>1. Done \in Seq(Emitted) /\ out' = Done
    BY <1>1, InvParts, Zenon DEF Done
  <2>2. Done' = Done \o <<>>
    BY <1>1, <2>1, Zenon DEF Done
  <2> QED
    BY <2>1, <2>2
<1>4. /\ read_idx' \in Nat /\ size' \in Nat /\ size' <= got' /\ read_idx' < Compact
      /\ size' < Compact + MaxFrame + Slack /\ pc' \in {"idle", "undefined"}
  BY <1>0, <1>1, <1>2
<1>5. DecoderTypeOK' /\ IndexInv'
  BY <1>1, <1>3, <1>4, InvParts DEF DecoderTypeOK, IndexInv
<1>6. StreamInv'
  BY <1>1, StreamKept, Layout, Zenon
<1>n. PICK n \in Nat : n = Len(stream)
  BY InvParts, Zenon
<1>7. PICK k \in 0..n : Exact(k) /\ (OnTrack(k) \/ Astray(k))
  BY <1>0, <1>n, InvParts, Zenon DEF Progress
<1>8. Exact(k)'
  BY <1>1, <1>3, <1>7, ExactKept, Zenon
<1>9. CASE Astray(k)
  <2>1. Astray(k)'
    BY <1>1, <1>9, Zenon DEF Astray
  <2>2. Begun' = Begun
    BY <1>1 DEF Begun
  <2>3. NeverRefused'
    BY <1>n, <1>1, <1>9, <2>2, AstrayRefused, Zenon DEF NeverRefused
  <2> QED
    BY <1>n, <1>1, <1>5, <1>6, <1>8, <2>1, <2>3, Zenon DEF DecoderInv
<1>10. CASE OnTrack(k)
  <2>1. /\ Len(Done) = k /\ cursor <= size /\ got - size + cursor = start[k + 1]
        /\ k < n => got < start[k + 2]
    BY <1>0, <1>n, <1>10, Zenon DEF OnTrack, Reading
  <2>2. /\ pc' = "idle" /\ read_idx' <= size' /\ got - size' + read_idx' = got - size + cursor
    BY <1>0, <1>2, <2>1
  <2>3. OnTrack(k)'
    BY <1>n, <1>1, <1>3, <2>1, <2>2 DEF OnTrack, Reading
  <2>4. NeverRefused'
    BY <2>2 DEF NeverRefused
  <2> QED
    BY <1>n, <1>1, <1>5, <1>6, <1>8, <2>3, <2>4, Zenon DEF DecoderInv
<1> QED
  BY <1>7, <1>9, <1>10

-----------------------------------------------------------------------------
(* Theorems *)

\* Every step keeps the invariant.
LEMMA StepInv == DecoderInv /\ [DecoderNext]_decoderVars => DecoderInv'
<1> SUFFICES ASSUME DecoderInv, [DecoderNext]_decoderVars PROVE DecoderInv'
  OBVIOUS
<1>1. CASE UNCHANGED decoderVars
  <2>1. /\ stream' = stream /\ start' = start /\ got' = got /\ size' = size /\ read_idx' = read_idx
        /\ cursor' = cursor /\ frames' = frames /\ out' = out /\ pc' = pc
    BY <1>1, Zenon DEF decoderVars
  <2> QED
    BY <2>1, Zenon DEF DecoderInv, DecoderTypeOK, StreamInv, StreamEnd, IndexInv, NeverRefused, Begun, Exact,
       OnTrack, Astray, Done, Reading
<1>2. CASE DecoderNext
  BY <1>2, SendInv, ReceiveInv, IncompleteInv, ZeroLengthInv, TooLongInv, EmitInv, EndInv, Zenon DEF DecoderNext
<1> QED
  BY <1>1, <1>2

\* For the cardinality of an interval.
INSTANCE FiniteSetTheorems

\* Between two calls, the frames that are complete and have only well-formed ones before
\* them are the first that were emitted.
LEMMA InvFramesExact == DecoderInv => FramesExact
<1> SUFFICES ASSUME DecoderInv, pc = "idle" PROVE FramesExact
  BY Zenon DEF FramesExact
<1> DEFINE whole == {i \in 1..Len(stream) : Legal(i) /\ start[i + 1] <= got}
<1>n. PICK n \in Nat : n = Len(stream)
  BY InvParts, Zenon
<1>1. PICK k \in 0..n : Exact(k) /\ (OnTrack(k) \/ Astray(k))
  BY <1>n, InvParts, Zenon DEF Progress
<1>2. out \in Seq(Emitted) /\ out = Done
  <2>1. out \in Seq(Emitted) /\ frames = <<>>
    BY InvParts, Zenon DEF DecoderTypeOK
  <2> QED
    BY <2>1 DEF Done
<1>3. /\ k <= n /\ Len(out) \in Nat /\ k <= Len(out)
      /\ \A j \in 1..k : stream[j] \in 1..MaxFrame /\ out[j] = [at |-> start[j], len |-> stream[j]]
  BY <1>n, <1>1, <1>2, InvParts, Zenon DEF Exact
<1>4. /\ \A i, j \in 1..(n + 1) : i < j => start[i] < start[j]
      /\ \A i \in 1..(n + 1) : start[i] \in Nat
      /\ got \in Nat
  BY <1>n, Layout, InvParts, Zenon
<1>5. CASE Astray(k)
  <2>1. k + 1 \in 1..n /\ stream[k + 1] \notin 1..MaxFrame /\ start[k + 1] < got
    BY <1>n, <1>5 DEF Astray
  <2>2. k + 1 \in 1..(k + 1)
    OBVIOUS
  <2>3. ~Legal(k + 1) /\ k + 1 \in Begun
    BY <1>n, <2>1, <2>2, Zenon DEF Legal, Begun
  <2>4. \A i \in 1..n : Legal(i) => i \in 1..k /\ i <= Len(out)
    <3> SUFFICES ASSUME NEW i \in 1..n, ~(i \in 1..k) PROVE ~Legal(i)
      BY <1>3
    <3>1. k + 1 \in 1..i
      OBVIOUS
    <3> QED
      BY <2>1, <3>1, Zenon DEF Legal
  <2>5. \A i \in whole : i <= Len(out) /\ out[i] = [at |-> start[i], len |-> stream[i]]
    BY <1>n, <1>3, <2>4, Zenon
  <2> QED
    BY <2>3, <2>5, Zenon DEF FramesExact
<1>6. CASE OnTrack(k)
  <2>1. /\ Len(out) = k /\ read_idx <= size /\ got - size + read_idx = start[k + 1]
        /\ k < n => got < start[k + 2]
    BY <1>n, <1>2, <1>6, Zenon DEF OnTrack, Reading
  <2>2. start[k + 1] <= got
    BY <2>1, InvParts, <1>4
  <2>3. ASSUME NEW i \in 1..k PROVE i \in whole
    <3>1. i \in 1..n /\ i + 1 \in 1..(n + 1) /\ k + 1 \in 1..(n + 1) /\ (i + 1 = k + 1 \/ i + 1 < k + 1)
      OBVIOUS
    <3>2. start[i + 1] <= start[k + 1] /\ start[i + 1] \in Nat /\ start[k + 1] \in Nat
      BY <1>4, <3>1
    <3>3. start[i + 1] <= got
      BY <1>4, <2>2, <3>2
    <3>4. \A j \in 1..i : j \in 1..k
      OBVIOUS
    <3> QED
      BY <1>n, <1>3, <3>1, <3>3, <3>4, Zenon DEF Legal
  <2>4. ASSUME NEW i \in whole PROVE i \in 1..k
    <3>1. i \in 1..n /\ start[i + 1] <= got
      BY <1>n, Zenon
    <3> SUFFICES ASSUME i > k PROVE FALSE
      BY <3>1
    <3>2. k < n /\ k + 2 \in 1..(n + 1) /\ i + 1 \in 1..(n + 1) /\ (k + 2 = i + 1 \/ k + 2 < i + 1)
      BY <3>1
    <3>3. start[k + 2] <= start[i + 1] /\ start[k + 2] \in Nat /\ start[i + 1] \in Nat
      BY <1>4, <3>2
    <3> QED
      BY <1>4, <2>1, <3>1, <3>2, <3>3
  <2>5. whole = 1..k
    BY <2>3, <2>4, Zenon
  <2>6. Cardinality(1..k) = k
    BY FS_Interval
  <2>7. \A i \in whole : i <= Len(out) /\ out[i] = [at |-> start[i], len |-> stream[i]]
    BY <1>3, <2>1, <2>5
  <2> QED
    BY <2>1, <2>5, <2>6, <2>7, Zenon DEF FramesExact
<1> QED
  BY <1>1, <1>5, <1>6

\* DecoderInv holds throughout: push goes on at the beginning of the first frame it has not
\* emitted, or a malformed frame has begun.
THEOREM DecoderInvariant == DecoderSpec => []DecoderInv
  BY DecoderInitInv, StepInv, PTL DEF DecoderSpec

\* Every variable of the decoder keeps its type, frames of push included.
THEOREM DecoderTyped == DecoderSpec => []DecoderTypeOK
<1>1. DecoderInv => DecoderTypeOK
  BY DEF DecoderInv
<1> QED
  BY <1>1, DecoderInvariant, PTL

\* However recv cuts a stream, FrameDecoder::push hands over exactly the complete frames,
\* once and in order, up to the first malformed one.
THEOREM CutsDoNotMatter == DecoderSpec => []FramesExact
  BY InvFramesExact, DecoderInvariant, PTL

\* FrameDecoder::push returns -1, or erases past its buffer, only after a frame has begun that
\* is empty or less than Prefix - 1 bytes below max_frame_size_.
THEOREM WellFormedNeverRefused == DecoderSpec => []NeverRefused
<1>1. DecoderInv => NeverRefused
  BY DEF DecoderInv
<1> QED
  BY <1>1, DecoderInvariant, PTL

\* buf_ stays below one ceiling and one threshold of erasing, and the cursor within it.
THEOREM BufferStaysBounded == DecoderSpec => []BufferBounded
<1>1. DecoderInv => BufferBounded
  BY DEF DecoderInv, IndexInv, BufferBounded
<1> QED
  BY <1>1, DecoderInvariant, PTL

=============================================================================
