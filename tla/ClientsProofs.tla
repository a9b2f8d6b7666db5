---------------------------- MODULE ClientsProofs ----------------------------
(***************************************************************************)
(* Proofs about Clients: what the producer reports, what the consumer      *)
(* prints, where a key goes and what becomes of a created topic, for every *)
(* number of brokers, partitions, messages and faults.                     *)
(***************************************************************************)
EXTENDS Clients, TLAPS

\* What one broker has in memory, on disk and in creation fits together.
RegistryInv ==
  \A b \in Brokers :
    /\ up[b] /\ creating[b] = 0 => topics[b] = dirs[b]
    /\ creating[b] > 0 => up[b] /\ topics[b] = 0 /\ dirs[b] <= creating[b]
    /\ ~up[b] => topics[b] = 0 /\ creating[b] = 0
    /\ created[b] > 0 => dirs[b] = created[b] /\ creating[b] = 0
    /\ \A p \in led[b] : p < topics[b] /\ p % NumBrokers = b

\* A partition with records is one of a topic whose creation is over.
HomeInv ==
  \A p \in Parts : log[p] # <<>> =>
    /\ p % NumBrokers \in Brokers
    /\ dirs[p % NumBrokers] > 0 /\ creating[p % NumBrokers] = 0

\* The message is in a partition, or was accepted and not written when its broker ended.
Logged(m) == m \in lost \/ \E p \in Parts : \E i \in DOMAIN log[p] : log[p][i] = m

\* The producer works on a message it has to send, and an ACK it has not read yet is for
\* a message that was accepted.
ProducerInv ==
  /\ prod.pc # "done" /\ prod.pc # "failed" => prod.msg <= Messages /\ prod.retries < 3
  /\ prod.resp # None => prod.pc = "publish" \/ prod.pc = "create_topic"
  /\ prod.resp = "creating" => prod.pc = "create_topic"
  /\ prod.pc = "publish" /\ prod.resp = "ACK" => Logged(prod.msg)

\* A record on its way to the consumer is the one at the consumer's offset, and it is
\* written.
ConsumerInv ==
  /\ cons.resp # NoAnswer => cons.pc = "subscribe" \/ cons.pc = "fetch"
  /\ cons.pc = "fetch" => cons.offset \in Nat
  /\ cons.resp.op = "FETCH_RESPONSE" =>
       /\ cons.pc = "fetch" /\ cons.resp.offset = cons.offset
       /\ cons.offset < stored[Part] /\ cons.resp.msg = log[Part][cons.offset + 1]

ClientsInv ==
  /\ TypeOK /\ RegistryInv /\ HomeInv /\ ProducerInv /\ ConsumerInv
  /\ ReadInOrder /\ ReportedIsLogged /\ KeyedTogether

-----------------------------------------------------------------------------
(* What the operators of the model give *)

\* The remainders of indexes stay below the number of partitions.
LEMMA ModFacts ==
  ASSUME NEW a \in Nat, NEW n \in Nat \ {0}
  PROVE  a % n \in 0..(n - 1)
PROOF OBVIOUS

\* The elements of a sequence over a set.
LEMMA ElementOf ==
  ASSUME NEW S, NEW s \in Seq(S), NEW i \in 1..Len(s)
  PROVE  s[i] \in S
PROOF OBVIOUS

\* The first n elements of a sequence.
LEMMA PrefixFacts ==
  ASSUME NEW S, NEW s \in Seq(S), NEW n \in 0..Len(s)
  PROVE  /\ SubSeq(s, 1, n) \in Seq(S) /\ Len(SubSeq(s, 1, n)) = n
         /\ \A i \in 1..n : SubSeq(s, 1, n)[i] = s[i]
PROOF OBVIOUS

\* A publish or fetch that is not refused finds a partition that this broker leads, and is
\* at home on it.
LEMMA RefusalFacts ==
  ASSUME TypeOK, RegistryInv, NEW b \in Brokers, NEW p \in Nat
  PROVE  /\ Refusal(b, p) \in {None, "UNKNOWN_TOPIC", "UNKNOWN_PARTITION", "NOT_LEADER"}
         /\ Refusal(b, p) = None => /\ topics[b] > 0 /\ p < topics[b] /\ p \in Parts
                                    /\ p % NumBrokers = b
PROOF
<1> topics[b] \in Nat /\ led[b] \subseteq Parts
  BY DEF TypeOK, RegistryType
<1>1. CASE topics[b] = 0
  BY <1>1 DEF Refusal, None
<1>2. CASE topics[b] # 0 /\ p >= topics[b]
  BY <1>2 DEF Refusal, None
<1>3. CASE topics[b] # 0 /\ p < topics[b] /\ p \notin led[b]
  BY <1>3 DEF Refusal, None
<1>4. CASE topics[b] # 0 /\ p < topics[b] /\ p \in led[b]
  BY <1>4 DEF Refusal, None, RegistryInv
<1> QED BY <1>1, <1>2, <1>3, <1>4

-----------------------------------------------------------------------------
(* The initial states *)

\* ClientsInv holds initially: brokers are up, no topic exists, nothing is published.
LEMMA InitInv == Init => ClientsInv
PROOF
<1> SUFFICES ASSUME Init PROVE ClientsInv
  OBVIOUS
<1> USE ClientsAssumption, RegistryAssumption
<1>1. /\ key \in Keys /\ asked \in Asked /\ log = [p \in Parts |-> <<>>]
      /\ stored = [p \in Parts |-> 0] /\ lost = {} /\ late = {} /\ seen = <<>>
      /\ prod = [pc |-> IF asked > 0 THEN "create" ELSE "meta", msg |-> 1, retries |-> 0, rr |-> 0,
                 part |-> 0, to |-> Bootstrap, resp |-> None]
      /\ cons \in [pc : {"resolve"}, offset : Offsets, to : {Bootstrap}, resp : {NoAnswer}]
  BY DEF Init
<1>2. RegistryType
  BY DEF Init, RegistryInit, RegistryType, Brokers
<1>3. RegistryInv
  BY DEF Init, RegistryInit, RegistryInv
<1>4. prod \in ProducerState
  BY <1>1 DEF ProducerState, Codes, Parts
<1>5. NoAnswer \in [op : Codes, offset : Nat, msg : 0..Messages]
  BY DEF NoAnswer, Answer, Codes
<1>6. cons \in ConsumerState
  BY <1>1, <1>5, Zenon DEF ConsumerState
<1>7. TypeOK
  <2>1. log \in [Parts -> Seq(1..Messages)] /\ stored \in [Parts -> Nat]
    BY <1>1
  <2>2. \A p \in Parts : stored[p] <= Len(log[p])
    BY <1>1
  <2> QED BY <1>1, <1>2, <1>4, <1>6, <2>1, <2>2 DEF TypeOK
<1>8. HomeInv /\ KeyedTogether
  BY <1>1 DEF HomeInv, KeyedTogether
<1>9. ProducerInv
  <2>1. prod.msg = 1 /\ prod.retries = 0 /\ prod.resp = None
    BY <1>1
  <2> QED BY <2>1 DEF ProducerInv, None
<1>10. ConsumerInv
  BY <1>1 DEF ConsumerInv, NoAnswer, Answer, None
<1>11. ReadInOrder /\ ReportedIsLogged
  BY <1>1 DEF ReadInOrder, ReportedIsLogged
<1> QED BY <1>3, <1>7, <1>8, <1>9, <1>10, <1>11 DEF ClientsInv

-----------------------------------------------------------------------------
(* The topic registries *)

\* A topic whose creation is over keeps its directories and is not created again.
HomeKept ==
  \A c \in Brokers : dirs[c] > 0 /\ creating[c] = 0 => dirs'[c] = dirs[c] /\ creating'[c] = 0

\* create_topic starts with no directory and keeps the topics that exist.
LEMMA CreateTopicFacts ==
  ASSUME RegistryType, RegistryInv, NEW b \in Brokers, NEW n \in 0..MaxParts, CreateTopic(b, n)
  PROVE  RegistryType' /\ RegistryInv' /\ HomeKept
PROOF
<1>1. /\ up[b] /\ creating[b] = 0 /\ topics[b] = 0 /\ n > 0 /\ creating' = [creating EXCEPT ![b] = n]
      /\ UNCHANGED <<up, dirs, topics, created, led, leader_id, faults>>
  BY Zenon DEF CreateTopic, Serves, Creatable
<1>2. dirs[b] = 0 /\ created[b] = 0
  BY <1>1 DEF RegistryType, RegistryInv
<1>3. RegistryType'
  BY <1>1 DEF RegistryType
<1>4. HomeKept
  BY <1>1, <1>2 DEF HomeKept, RegistryType
<1>5. RegistryInv'
  BY <1>1, <1>2, RegistryAssumption DEF RegistryInv, RegistryType
<1> QED BY <1>3, <1>4, <1>5

\* One directory more; the topic is not there until the last one is.
LEMMA CreateDirectoryFacts ==
  ASSUME RegistryType, RegistryInv, NEW b \in Brokers, CreateDirectory(b)
  PROVE  RegistryType' /\ RegistryInv' /\ HomeKept
PROOF
<1>1. /\ dirs[b] < creating[b] /\ dirs' = [dirs EXCEPT ![b] = dirs[b] + 1]
      /\ UNCHANGED <<up, topics, creating, created, led, leader_id, faults>>
  BY DEF CreateDirectory
<1>2. /\ creating[b] > 0 /\ creating[b] \in 0..MaxParts /\ dirs[b] \in 0..MaxParts
      /\ created[b] = 0
  <2>1. creating[b] \in 0..MaxParts /\ dirs[b] \in 0..MaxParts /\ created[b] \in 0..MaxParts
    BY DEF RegistryType
  <2>2. created[b] > 0 => creating[b] = 0
    BY Zenon DEF RegistryInv
  <2> QED
    BY <1>1, <2>1, <2>2, RegistryAssumption
<1>3. RegistryType'
  BY <1>1, <1>2, RegistryAssumption DEF RegistryType
<1>4. HomeKept
  BY <1>1, <1>2 DEF HomeKept, RegistryType
<1>5. RegistryInv'
  BY <1>1, <1>2, RegistryAssumption DEF RegistryInv, RegistryType
<1> QED BY <1>3, <1>4, <1>5

\* assign_roles makes a broker lead partitions that are at home on it.
LEMMA AssignRolesFacts ==
  ASSUME RegistryType, NEW b \in Brokers, NEW n \in 0..MaxParts, AssignRoles(b, n)
  PROVE  /\ led' \in [Brokers -> SUBSET Parts]
         /\ leader_id' \in [Brokers -> [Parts -> 0..(NumBrokers - 1)]]
         /\ \A p \in led'[b] : p < n /\ p % NumBrokers = b
         /\ \A c \in Brokers \ {b} : led'[c] = led[c]
PROOF
<1> DEFINE L == {p \in 0..(n - 1) : p % NumBrokers = b}
           I == [p \in Parts |-> IF p < n THEN p % NumBrokers ELSE 0]
<1>1. led' = [led EXCEPT ![b] = L] /\ leader_id' = [leader_id EXCEPT ![b] = I]
  BY DEF AssignRoles
<1>2. L \subseteq Parts /\ \A p \in L : p < n /\ p % NumBrokers = b
  BY RegistryAssumption DEF Parts
<1>3. I \in [Parts -> 0..(NumBrokers - 1)]
  <2> SUFFICES ASSUME NEW p \in Parts PROVE (IF p < n THEN p % NumBrokers ELSE 0) \in 0..(NumBrokers - 1)
    OBVIOUS
  <2>1. p \in Nat /\ NumBrokers \in Nat \ {0}
    BY RegistryAssumption DEF Parts
  <2>2. p % NumBrokers \in 0..(NumBrokers - 1)
    BY <2>1, ModFacts
  <2> QED BY <2>1, <2>2
<1> HIDE DEF L, I
<1>4. led \in [Brokers -> SUBSET Parts] /\ leader_id \in [Brokers -> [Parts -> 0..(NumBrokers - 1)]]
  BY DEF RegistryType
<1> QED BY <1>1, <1>2, <1>3, <1>4

\* The topic is registered once every partition of it has its directory.
LEMMA CreateEndFacts ==
  ASSUME RegistryType, RegistryInv, NEW b \in Brokers, CreateEnd(b)
  PROVE  RegistryType' /\ RegistryInv' /\ HomeKept
PROOF
<1> DEFINE n == creating[b]
<1>1. /\ n > 0 /\ dirs[b] >= n /\ topics' = [topics EXCEPT ![b] = n]
      /\ created' = [created EXCEPT ![b] = n] /\ creating' = [creating EXCEPT ![b] = 0]
      /\ AssignRoles(b, n) /\ UNCHANGED <<up, dirs, faults>>
  BY DEF CreateEnd
<1>2. n \in 0..MaxParts /\ dirs[b] \in 0..MaxParts
  BY DEF RegistryType
<1>3. up[b] /\ dirs[b] = n
  BY <1>1, <1>2, RegistryAssumption DEF RegistryInv
<1> HIDE DEF n
<1>4. /\ led' \in [Brokers -> SUBSET Parts]
      /\ leader_id' \in [Brokers -> [Parts -> 0..(NumBrokers - 1)]]
      /\ \A p \in led'[b] : p < n /\ p % NumBrokers = b
      /\ \A c \in Brokers \ {b} : led'[c] = led[c]
  BY <1>1, <1>2, AssignRolesFacts, Zenon
<1>5. RegistryType'
  <2>1. /\ topics' \in [Brokers -> 0..MaxParts] /\ created' \in [Brokers -> 0..MaxParts]
        /\ creating' \in [Brokers -> 0..MaxParts]
    BY <1>1, <1>2, RegistryAssumption DEF RegistryType
  <2> QED BY <1>1, <1>4, <2>1 DEF RegistryType
<1>6. HomeKept
  BY <1>1 DEF HomeKept, n, RegistryType
<1>7. RegistryInv'
  BY <1>1, <1>2, <1>3, <1>4, RegistryAssumption DEF RegistryInv, RegistryType
<1> QED BY <1>5, <1>6, <1>7

\* A broker that learns of another leader stops leading the partition.
LEMMA AdoptFacts ==
  ASSUME RegistryType, RegistryInv, NEW b \in Brokers, NEW p \in Parts, Adopt(b, p)
  PROVE  RegistryType' /\ RegistryInv' /\ HomeKept
PROOF
<1>1. /\ faults < MaxFaults /\ faults' = faults + 1 /\ led' = [led EXCEPT ![b] = led[b] \ {p}]
      /\ UNCHANGED <<up, dirs, topics, creating, created>>
  BY DEF Adopt, Fault
<1>2. PICK x \in Brokers : leader_id' = [leader_id EXCEPT ![b][p] = x]
  BY Zenon DEF Adopt
<1>3. faults' \in 0..MaxFaults /\ x \in 0..(NumBrokers - 1)
  BY <1>1, RegistryAssumption DEF RegistryType, Brokers
<1>4. RegistryType'
  BY <1>1, <1>2, <1>3 DEF RegistryType
<1>5. HomeKept
  BY <1>1 DEF HomeKept
<1>6. RegistryInv'
  BY <1>1 DEF RegistryInv, RegistryType
<1> QED BY <1>4, <1>5, <1>6

\* A broker that stops forgets its registry and keeps its directories.
LEMMA StopFacts ==
  ASSUME RegistryType, RegistryInv, NEW b \in Brokers, Stop(b)
  PROVE  RegistryType' /\ RegistryInv' /\ HomeKept
PROOF
<1>1. /\ faults < MaxFaults /\ faults' = faults + 1 /\ up' = [up EXCEPT ![b] = FALSE]
      /\ topics' = [topics EXCEPT ![b] = 0] /\ creating' = [creating EXCEPT ![b] = 0]
      /\ led' = [led EXCEPT ![b] = {}] /\ UNCHANGED <<dirs, created, leader_id>>
  BY DEF Stop, Fault
<1>2. RegistryType'
  BY <1>1, RegistryAssumption DEF RegistryType
<1>3. HomeKept
  BY <1>1 DEF HomeKept, RegistryType
<1>4. RegistryInv'
  BY <1>1 DEF RegistryInv, RegistryType
<1> QED BY <1>2, <1>3, <1>4

\* recover_all: the directories of a created topic are all there, and are its partitions.
LEMMA RecoverAllFacts ==
  ASSUME RegistryType, RegistryInv, NEW b \in Brokers, RecoverAll(b)
  PROVE  RegistryType' /\ RegistryInv' /\ HomeKept
PROOF
<1>1. /\ ~up[b] /\ up' = [up EXCEPT ![b] = TRUE] /\ topics' = [topics EXCEPT ![b] = dirs[b]]
      /\ AssignRoles(b, dirs[b]) /\ UNCHANGED <<dirs, creating, created, faults>>
  BY Zenon DEF RecoverAll, Found
<1>2. dirs[b] \in 0..MaxParts /\ creating[b] = 0
  BY <1>1 DEF RegistryType, RegistryInv
<1>3. /\ led' \in [Brokers -> SUBSET Parts]
      /\ leader_id' \in [Brokers -> [Parts -> 0..(NumBrokers - 1)]]
      /\ \A p \in led'[b] : p < dirs[b] /\ p % NumBrokers = b
      /\ \A c \in Brokers \ {b} : led'[c] = led[c]
  BY <1>1, <1>2, AssignRolesFacts
<1>4. RegistryType'
  BY <1>1, <1>2, <1>3, Zenon DEF RegistryType
<1>5. HomeKept
  BY <1>1, Zenon DEF HomeKept
<1>6. RegistryInv'
  BY <1>1, <1>2, <1>3 DEF RegistryInv, RegistryType
<1> QED BY <1>4, <1>5, <1>6

-----------------------------------------------------------------------------
(* The partitions *)

\* No partition loses a record, except to lost, and none that is written.
LogKept ==
  /\ log' \in [Parts -> Seq(1..Messages)] /\ lost' \subseteq 1..Messages /\ lost \subseteq lost'
  /\ stored' \in [Parts -> Nat]
  /\ \A p \in Parts :
       /\ stored[p] <= stored'[p] /\ stored'[p] <= Len(log'[p])
       /\ \A i \in 1..Len(log[p]) :
            \/ i <= Len(log'[p]) /\ log'[p][i] = log[p][i]
            \/ i > stored[p] /\ log[p][i] \in lost'

\* A step that leaves the logs alone keeps them.
LEMMA LogsUnchanged ==
  ASSUME TypeOK, UNCHANGED logs
  PROVE  LogKept
PROOF
<1> /\ log \in [Parts -> Seq(1..Messages)] /\ stored \in [Parts -> Nat]
    /\ lost \subseteq 1..Messages /\ log' = log /\ stored' = stored /\ lost' = lost
    /\ \A p \in Parts : stored[p] <= Len(log[p])
  BY DEF TypeOK, logs
<1> QED BY DEF LogKept

\* What was written survives; what was only accepted becomes lost.
LEMMA CrashKeepsLogs ==
  ASSUME TypeOK, NEW b \in Brokers, Crash(b)
  PROVE  /\ LogKept /\ stored' = stored
         /\ \A p \in Parts : log'[p] # <<>> => log[p] # <<>>
PROOF
<1> DEFINE gone(p) == {log[p][i] : i \in (stored[p] + 1)..Len(log[p])}
<1>1. /\ log \in [Parts -> Seq(1..Messages)] /\ stored \in [Parts -> Nat]
      /\ lost \subseteq 1..Messages /\ \A p \in Parts : stored[p] <= Len(log[p])
  BY DEF TypeOK
<1>2. /\ log' = [p \in Parts |-> IF p % NumBrokers = b THEN SubSeq(log[p], 1, stored[p]) ELSE log[p]]
      /\ lost' = lost \cup UNION {gone(p) : p \in {q \in Parts : q % NumBrokers = b}}
      /\ stored' = stored
  BY DEF Crash
<1>3. ASSUME NEW p \in Parts
      PROVE  /\ log'[p] \in Seq(1..Messages) /\ stored[p] <= Len(log'[p])
             /\ gone(p) \subseteq 1..Messages
             /\ log'[p] # <<>> => log[p] # <<>>
             /\ \A i \in 1..Len(log[p]) :
                  \/ i <= Len(log'[p]) /\ log'[p][i] = log[p][i]
                  \/ i > stored[p] /\ log[p][i] \in lost'
  <2>1. log[p] \in Seq(1..Messages) /\ stored[p] \in 0..Len(log[p]) /\ Len(log[p]) \in Nat
    BY <1>1
  <2>2. gone(p) \subseteq 1..Messages
    <3> SUFFICES ASSUME NEW i \in (stored[p] + 1)..Len(log[p]) PROVE log[p][i] \in 1..Messages
      OBVIOUS
    <3>1. i \in 1..Len(log[p])
      BY <2>1
    <3> QED BY <2>1, <3>1, ElementOf, Zenon
  <2>3. CASE p % NumBrokers # b
    <3>1. log'[p] = log[p]
      BY <1>2, <2>3, Zenon
    <3> QED BY <2>1, <2>2, <3>1
  <2>4. CASE p % NumBrokers = b
    <3>1. log'[p] = SubSeq(log[p], 1, stored[p]) /\ gone(p) \subseteq lost'
      BY <1>2, <2>4, Zenon
    <3>2. /\ log'[p] \in Seq(1..Messages) /\ Len(log'[p]) = stored[p]
          /\ \A i \in 1..stored[p] : log'[p][i] = log[p][i]
      <4>1. /\ SubSeq(log[p], 1, stored[p]) \in Seq(1..Messages)
            /\ Len(SubSeq(log[p], 1, stored[p])) = stored[p]
            /\ \A i \in 1..stored[p] : SubSeq(log[p], 1, stored[p])[i] = log[p][i]
        BY <2>1, PrefixFacts, ZenonT(30)
      <4> QED BY <3>1, <4>1, Zenon
    <3>3. log'[p] # <<>> => log[p] # <<>>
      BY <2>1, <3>2
    <3>4. \A i \in (stored[p] + 1)..Len(log[p]) : log[p][i] \in lost'
      BY <3>1
    <3> QED BY <2>1, <2>2, <3>2, <3>3, <3>4
  <2> QED BY <2>3, <2>4
<1>4. log' \in [Parts -> Seq(1..Messages)]
  <2>1. log' = [p \in Parts |-> log'[p]]
    BY <1>2
  <2> QED BY <1>3, <2>1
<1>5. lost' \subseteq 1..Messages /\ lost \subseteq lost'
  BY <1>1, <1>2, <1>3, Zenon
<1> QED BY <1>1, <1>2, <1>3, <1>4, <1>5 DEF LogKept

\* handle_publish_v2: a record that is accepted goes to the partition its key asks for, on
\* the broker that is the partition's home.
LEMMA PublishFacts ==
  ASSUME ClientsInv, NEW b \in Brokers, NEW m \in 1..Messages, NEW part \in Parts, NEW resp,
         PublishV2(b, m, part, resp), UNCHANGED <<registry, options, stored, lost>>
  PROVE  /\ LogKept /\ RegistryInv' /\ HomeInv' /\ KeyedTogether'
         /\ resp = "ACK" => Logged(m)'
PROOF
<1> DEFINE p == IF topics[b] = 0 THEN part ELSE Routed(b, part)
<1>1. /\ TypeOK /\ log \in [Parts -> Seq(1..Messages)] /\ stored \in [Parts -> Nat]
      /\ lost \subseteq 1..Messages /\ topics[b] \in Nat /\ key \in Nat \cup {NoKey}
      /\ (\A q \in Parts : stored[q] <= Len(log[q])) /\ stored' = stored /\ lost' = lost
      /\ up[b] /\ creating[b] = 0 /\ topics[b] = dirs[b]
  <2>1. up[b] /\ creating[b] = 0
    BY DEF PublishV2, Serves
  <2>2. topics[b] = dirs[b]
    BY <2>1 DEF ClientsInv, RegistryInv
  <2>3. topics[b] \in Nat /\ key \in Nat \cup {NoKey}
    BY ClientsAssumption DEF ClientsInv, TypeOK, RegistryType
  <2>4. stored' = stored /\ lost' = lost
    OBVIOUS
  <2> QED BY <2>1, <2>2, <2>3, <2>4, Zenon DEF ClientsInv, TypeOK
<1>2. RegistryInv'
  BY DEF ClientsInv, RegistryInv, registry
<1>3. CASE UNCHANGED log /\ resp # "ACK"
  <2>1. LogKept
    BY <1>1, <1>3, LogsUnchanged DEF logs
  <2>2. HomeInv' /\ KeyedTogether'
    BY <1>3 DEF ClientsInv, HomeInv, KeyedTogether, registry, options
  <2> QED BY <1>2, <1>3, <2>1, <2>2
<1>4. CASE /\ Refusal(b, p) = None /\ log' = [log EXCEPT ![p] = Append(@, m)]
  <2>1. p \in Nat
    <3>1. topics[b] # 0 => (key % topics[b]) \in 0..(topics[b] - 1) \/ key = NoKey
      BY <1>1, ModFacts, Zenon
    <3>2. part \in Nat
      BY RegistryAssumption DEF Parts
    <3> QED BY <1>1, <3>1, <3>2 DEF Routed
  <2>2. topics[b] > 0 /\ p < topics[b] /\ p \in Parts /\ p % NumBrokers = b
    BY <1>4, <2>1, RefusalFacts DEF ClientsInv
  <2>3. key # NoKey => p = key % dirs[b]
    BY <1>1, <2>2 DEF Routed
  <2> HIDE DEF p
  <2>4. /\ log' \in [Parts -> Seq(1..Messages)]
        /\ \A q \in Parts : /\ Len(log[q]) <= Len(log'[q])
                            /\ \A i \in 1..Len(log[q]) : log'[q][i] = log[q][i]
        /\ \A q \in Parts : log'[q] # <<>> => q = p \/ log[q] # <<>>
        /\ Len(log[p]) + 1 \in DOMAIN log'[p] /\ log'[p][Len(log[p]) + 1] = m
    BY <1>1, <1>4, <2>2
  <2>5. LogKept
    BY <1>1, <2>4, SMTT(30) DEF LogKept
  <2>6. Logged(m)'
    BY <2>2, <2>4 DEF Logged
  <2>7. HomeInv' /\ KeyedTogether'
    BY <1>1, <2>2, <2>3, <2>4, Zenon DEF ClientsInv, HomeInv, KeyedTogether, registry, options
  <2> QED BY <1>2, <2>5, <2>6, <2>7
<1>5. \/ UNCHANGED log /\ resp # "ACK"
      \/ /\ Refusal(b, p) = None /\ log' = [log EXCEPT ![p] = Append(@, m)]
  <2>1. p \in Nat
    <3>1. topics[b] # 0 => (key % topics[b]) \in 0..(topics[b] - 1) \/ key = NoKey
      BY <1>1, ModFacts, Zenon
    <3>2. part \in Nat
      BY RegistryAssumption DEF Parts
    <3> QED BY <1>1, <3>1, <3>2 DEF Routed
  <2>2. Refusal(b, p) \in {None, "UNKNOWN_TOPIC", "UNKNOWN_PARTITION", "NOT_LEADER"}
    BY <2>1, RefusalFacts DEF ClientsInv
  <2> QED BY <2>2, Zenon DEF PublishV2, None
<1> QED BY <1>3, <1>4, <1>5

\* A message stays logged or lost.
LEMMA LoggedKept ==
  ASSUME TypeOK, LogKept, NEW m, Logged(m)
  PROVE  Logged(m)'
PROOF
<1> log \in [Parts -> Seq(1..Messages)] /\ log' \in [Parts -> Seq(1..Messages)]
  BY DEF TypeOK, LogKept
<1>1. CASE m \in lost
  BY <1>1 DEF Logged, LogKept
<1>2. CASE m \notin lost
  <2>0. PICK p \in Parts : \E i \in DOMAIN log[p] : log[p][i] = m
    BY <1>2 DEF Logged
  <2>1. PICK i \in 1..Len(log[p]) : log[p][i] = m
    BY <2>0
  <2>2. CASE i <= Len(log'[p]) /\ log'[p][i] = log[p][i]
    <3>1. i \in DOMAIN log'[p]
      BY <2>2
    <3> QED BY <2>1, <2>2, <3>1 DEF Logged
  <2>3. CASE log[p][i] \in lost'
    BY <2>1, <2>3 DEF Logged
  <2> QED BY <2>2, <2>3 DEF LogKept
<1> QED BY <1>1, <1>2

\* What the consumer has printed, and a record on its way to it, stay what the partition
\* holds.
LEMMA WrittenKept ==
  ASSUME TypeOK, LogKept, NEW o \in Nat, o < stored[Part]
  PROVE  o < stored'[Part] /\ log'[Part][o + 1] = log[Part][o + 1]
PROOF
<1> Part \in Parts
  BY ClientsAssumption
<1>1. /\ log[Part] \in Seq(1..Messages) /\ stored[Part] \in Nat /\ stored'[Part] \in Nat
      /\ stored[Part] <= Len(log[Part])
  BY DEF TypeOK, LogKept
<1>2. o + 1 \in 1..Len(log[Part])
  BY <1>1
<1>3. \/ log'[Part][o + 1] = log[Part][o + 1]
      \/ o + 1 > stored[Part]
  BY <1>2 DEF LogKept
<1>4. stored[Part] <= stored'[Part]
  BY DEF LogKept
<1> QED BY <1>1, <1>3, <1>4

\* The reading side does not notice a step that keeps the logs and gives the consumer no
\* answer.
LEMMA ConsumerKept ==
  ASSUME TypeOK, LogKept, ConsumerInv, ReadInOrder,
         seen' = seen, cons'.offset = cons.offset, cons'.pc = "fetch" => cons.pc = "fetch",
         \/ cons'.resp = cons.resp /\ cons'.pc = cons.pc
         \/ cons'.resp = NoAnswer
  PROVE  ConsumerInv' /\ ReadInOrder'
PROOF
<1> USE DEF NoAnswer, Answer, None
<1>1. /\ seen \in Seq([offset : Nat, msg : 1..Messages])
      /\ cons.resp \in [op : Codes, offset : Nat, msg : 0..Messages]
  BY DEF TypeOK, ConsumerState
<1>2. ConsumerInv'
  <2>1. CASE cons'.resp = NoAnswer
    BY <2>1 DEF ConsumerInv
  <2>2. CASE /\ cons'.resp = cons.resp /\ cons'.pc = cons.pc
             /\ cons.resp.op = "FETCH_RESPONSE"
    <3>1. /\ cons.pc = "fetch" /\ cons.offset \in Nat /\ cons.resp.offset = cons.offset
          /\ cons.offset < stored[Part] /\ cons.resp.msg = log[Part][cons.offset + 1]
      BY <2>2 DEF ConsumerInv
    <3>2. cons.offset < stored'[Part] /\ log'[Part][cons.offset + 1] = log[Part][cons.offset + 1]
      BY <3>1, WrittenKept
    <3> QED BY <2>2, <3>1, <3>2 DEF ConsumerInv
  <2>3. CASE /\ cons'.resp = cons.resp /\ cons'.pc = cons.pc
             /\ cons.resp.op # "FETCH_RESPONSE"
    BY <2>3 DEF ConsumerInv
  <2> QED BY <2>1, <2>2, <2>3
<1>3. ReadInOrder'
  <2>0. DOMAIN seen = 1..Len(seen)
    BY <1>1
  <2>1. ASSUME NEW i \in 1..Len(seen)
        PROVE  seen[i].offset < stored'[Part] /\ seen[i].msg = log'[Part][seen[i].offset + 1]
    <3>0. seen[i] \in [offset : Nat, msg : 1..Messages]
      BY <1>1, ElementOf, Zenon
    <3>1. seen[i].offset \in Nat
      BY <3>0
    <3>2. seen[i].offset < stored[Part] /\ seen[i].msg = log[Part][seen[i].offset + 1]
      BY <2>0 DEF ReadInOrder
    <3> QED BY <3>1, <3>2, WrittenKept
  <2>2. /\ \A i \in 2..Len(seen) : seen[i].offset = seen[i - 1].offset + 1
        /\ seen # <<>> => cons.offset = seen[Len(seen)].offset + 1
    BY DEF ReadInOrder
  <2> QED BY <2>0, <2>1, <2>2 DEF ReadInOrder
<1> QED BY <1>2, <1>3

\* What was reported stays logged in a step that keeps the logs and the message in hand.
LEMMA ReportedKept ==
  ASSUME TypeOK, LogKept, ReportedIsLogged, prod'.msg = prod.msg
  PROVE  ReportedIsLogged' /\ (Logged(prod.msg) => Logged(prod.msg)')
PROOF
<1>1. \A m : Logged(m) => Logged(m)'
  BY LoggedKept
<1>2. \A m \in 1..(prod.msg - 1) : Logged(m)
  BY DEF ReportedIsLogged, Logged
<1>3. \A m \in 1..(prod'.msg - 1) : Logged(m)'
  BY <1>1, <1>2
<1> QED BY <1>1, <1>3 DEF ReportedIsLogged, Logged

\* Clients' own steps change neither a broker nor a partition.
LEMMA ClientStep ==
  ASSUME ClientsInv, UNCHANGED <<registry, options, logs>>
  PROVE  LogKept /\ RegistryInv' /\ HomeInv' /\ KeyedTogether'
PROOF
<1>1. LogKept
  BY LogsUnchanged DEF ClientsInv
<1>2. RegistryInv'
  BY DEF ClientsInv, RegistryInv, registry
<1>3. HomeInv'
  BY DEF ClientsInv, HomeInv, registry, logs
<1>4. KeyedTogether'
  BY DEF ClientsInv, KeyedTogether, registry, logs, options
<1> QED BY <1>1, <1>2, <1>3, <1>4

\* Records stay at home while the registry keeps the topics it has.
LEMMA HomesKept ==
  ASSUME ClientsInv, HomeKept, key' = key, \A p \in Parts : log'[p] # <<>> => log[p] # <<>>
  PROVE  HomeInv' /\ KeyedTogether'
PROOF BY Zenon DEF ClientsInv, HomeInv, KeyedTogether, HomeKept

-----------------------------------------------------------------------------
(* The steps of the brokers *)

\* handle_subscribe and handle_fetch: a record that is sent is written, and is the one
\* that was asked for.
LEMMA HandleConsumerInv ==
  ASSUME ClientsInv, NEW b \in Brokers, HandleConsumer(b)
  PROVE  ClientsInv'
PROOF
<1>1. /\ cons \in ConsumerState /\ faults \in 0..MaxFaults /\ faults' = faults /\ seen' = seen
      /\ cons.resp = NoAnswer /\ prod' = prod /\ late' = late
      /\ UNCHANGED <<registry, options, logs>>
  BY DEF ClientsInv, TypeOK, RegistryType, HandleConsumer
<1>2. /\ Part \in Nat /\ Part \in Parts /\ stored[Part] \in Nat /\ log[Part] \in Seq(1..Messages)
      /\ stored[Part] <= Len(log[Part])
  BY ClientsAssumption, RegistryAssumption DEF Parts, ClientsInv, TypeOK
<1>3. /\ Refusal(b, Part) \in {None, "UNKNOWN_TOPIC", "UNKNOWN_PARTITION", "NOT_LEADER"}
  BY <1>2, RefusalFacts DEF ClientsInv
<1> DEFINE Right(a) == /\ a \in [op : Codes, offset : Nat, msg : 0..Messages]
                       /\ a.op = "FETCH_RESPONSE" =>
                            /\ cons.pc = "fetch" /\ cons.offset \in Nat
                            /\ cons.offset < stored[Part] /\ a.offset = cons.offset
                            /\ a.msg = log[Part][cons.offset + 1]
<1>4. PICK answer : cons' = [cons EXCEPT !.resp = answer] /\ Right(answer)
  <2>1. CASE cons.pc = "subscribe"
    <3>1. cons.offset \in Nat \cup {Latest} /\ cons' = [cons EXCEPT !.resp = Subscribed(b)]
      BY <1>1, <2>1 DEF ConsumerState, HandleConsumer
    <3>2. (IF cons.offset = Latest THEN stored[Part] ELSE cons.offset) \in Nat
      BY <1>2, <3>1
    <3>3. \/ Subscribed(b) = Answer(Refusal(b, Part), 0, 0)
          \/ Subscribed(b) = Answer("INVALID_OFFSET", 0, 0)
          \/ \E at \in Nat : Subscribed(b) = Answer("ACK", at, 0)
      BY <3>2 DEF Subscribed, Readable
    <3>4. /\ Subscribed(b) \in [op : Codes, offset : Nat, msg : 0..Messages]
          /\ Subscribed(b).op # "FETCH_RESPONSE"
      BY <1>3, <3>3, ClientsAssumption DEF Answer, Codes, None
    <3> QED BY <3>1, <3>4, Zenon
  <2>2. CASE cons.pc = "fetch"
    <3>1. cons.offset \in Nat /\ cons' = [cons EXCEPT !.resp = Fetched(b)]
      BY <2>2 DEF ClientsInv, ConsumerInv, HandleConsumer
    <3>2. CASE Refusal(b, Part) # None \/ cons.offset >= stored[Part]
      <4>1. \/ Fetched(b) = Answer(Refusal(b, Part), 0, 0)
            \/ Fetched(b) = Answer("ACK", 0, 0)
        BY <3>2 DEF Fetched, Readable
      <4>2. /\ Fetched(b) \in [op : Codes, offset : Nat, msg : 0..Messages]
            /\ Fetched(b).op # "FETCH_RESPONSE"
        BY <1>3, <4>1, ClientsAssumption DEF Answer, Codes, None
      <4> QED BY <3>1, <4>2, Zenon
    <3>3. CASE Refusal(b, Part) = None /\ cons.offset < stored[Part]
      <4>1. Fetched(b) = Answer("FETCH_RESPONSE", cons.offset, log[Part][cons.offset + 1])
        BY <1>2, <3>1, <3>3 DEF Fetched, Readable
      <4>2. log[Part][cons.offset + 1] \in 1..Messages
        <5>1. cons.offset + 1 \in 1..Len(log[Part])
          BY <1>2, <3>1, <3>3
        <5> QED BY <1>2, <5>1, ElementOf, Zenon
      <4>3. Fetched(b) \in [op : Codes, offset : Nat, msg : 0..Messages]
        BY <3>1, <4>1, <4>2 DEF Answer, Codes
      <4>4. /\ Fetched(b).offset = cons.offset
            /\ Fetched(b).msg = log[Part][cons.offset + 1]
        BY <4>1 DEF Answer
      <4>5. Right(Fetched(b))
        BY <2>2, <3>1, <3>3, <4>3, <4>4
      <4> QED BY <3>1, <4>5, Zenon
    <3>4. Refusal(b, Part) # None \/ cons.offset >= stored[Part] \/ cons.offset < stored[Part]
      BY <1>2, <3>1
    <3> QED BY <3>2, <3>3, <3>4
  <2> QED BY <2>1, <2>2 DEF HandleConsumer
<1>5. /\ cons' \in ConsumerState /\ cons'.offset = cons.offset /\ cons'.pc = cons.pc
      /\ cons'.resp = answer
  BY <1>1, <1>4 DEF ConsumerState
<1>6. LogKept /\ RegistryInv' /\ HomeInv' /\ KeyedTogether'
  BY <1>1, ClientStep
<1>7. ReadInOrder'
  BY <1>1, <1>5, Zenon DEF ClientsInv, ReadInOrder, logs
<1>8. ConsumerInv'
  <2>1. cons.pc = "subscribe" \/ cons.pc = "fetch"
    BY DEF HandleConsumer
  <2> QED BY <1>1, <1>4, <1>5, <2>1 DEF ClientsInv, ConsumerInv, logs
<1>9. ReportedIsLogged' /\ (Logged(prod.msg) => Logged(prod.msg)')
  BY <1>1, <1>6, ReportedKept DEF ClientsInv
<1>10. ProducerInv'
  BY <1>1, <1>9 DEF ClientsInv, ProducerInv, Logged
<1>11. TypeOK'
  BY <1>1, <1>5, Zenon DEF ClientsInv, TypeOK, RegistryType, registry, options, logs
<1> QED BY <1>6, <1>7, <1>8, <1>9, <1>10, <1>11 DEF ClientsInv

\* handle_publish_v2, whether it accepts the record or refuses it.
LEMMA HandlePublishV2Inv ==
  ASSUME ClientsInv, NEW b \in Brokers, HandlePublishV2(b)
  PROVE  ClientsInv'
PROOF
<1>1. /\ TypeOK /\ prod \in ProducerState /\ prod.pc = "publish" /\ faults \in 0..MaxFaults
      /\ faults' = faults /\ cons' = cons /\ seen' = seen /\ late' = late
      /\ UNCHANGED <<registry, options, stored, lost>>
  BY Zenon DEF ClientsInv, TypeOK, RegistryType, HandlePublishV2
<1>2. prod.msg \in 1..Messages /\ prod.part \in Parts
  BY <1>1, ClientsAssumption DEF ProducerState, ClientsInv, ProducerInv
<1>3. PICK resp \in {"ACK", "BUSY", "UNKNOWN_TOPIC", "UNKNOWN_PARTITION", "NOT_LEADER"} :
        PublishV2(b, prod.msg, prod.part, resp) /\ prod' = [prod EXCEPT !.resp = resp]
  BY DEF HandlePublishV2
<1>4. /\ LogKept /\ RegistryInv' /\ HomeInv' /\ KeyedTogether'
      /\ resp = "ACK" => Logged(prod.msg)'
  BY <1>1, <1>2, <1>3, PublishFacts
<1>5. /\ prod' \in ProducerState /\ prod'.msg = prod.msg /\ prod'.pc = prod.pc
      /\ prod'.retries = prod.retries /\ prod'.resp = resp
  BY <1>1, <1>3 DEF ProducerState, Codes
<1>6. ConsumerInv' /\ ReadInOrder'
  BY <1>1, <1>4, ConsumerKept DEF ClientsInv
<1>7. ReportedIsLogged'
  BY <1>1, <1>4, <1>5, ReportedKept DEF ClientsInv
<1>8. ProducerInv'
  BY <1>1, <1>4, <1>5, Zenon DEF ClientsInv, ProducerInv, Logged
<1>9. TypeOK'
  BY <1>1, <1>4, <1>5, Zenon DEF LogKept, TypeOK, RegistryType, registry, options
<1> QED BY <1>4, <1>6, <1>7, <1>8, <1>9 DEF ClientsInv

\* A publish whose client has given up is handled like any other.
LEMMA HandleLateInv ==
  ASSUME ClientsInv, NEW b \in Brokers, HandleLate(b)
  PROVE  ClientsInv'
PROOF
<1>1. /\ TypeOK /\ faults \in 0..MaxFaults /\ faults' = faults /\ cons' = cons /\ seen' = seen
      /\ prod' = prod /\ late' \subseteq late
      /\ late \subseteq [to : Brokers, msg : 1..Messages, part : Parts]
      /\ UNCHANGED <<registry, options, stored, lost>>
  BY Zenon DEF ClientsInv, TypeOK, RegistryType, HandleLate
<1>2. PICK r \in late : \E resp \in {"ACK", "BUSY", "UNKNOWN_TOPIC", "UNKNOWN_PARTITION",
                                     "NOT_LEADER"} : PublishV2(b, r.msg, r.part, resp)
  BY DEF HandleLate
<1>3. PICK resp : PublishV2(b, r.msg, r.part, resp)
  BY <1>2
<1>4. r.msg \in 1..Messages /\ r.part \in Parts
  BY <1>1
<1>5. LogKept /\ RegistryInv' /\ HomeInv' /\ KeyedTogether'
  BY <1>1, <1>3, <1>4, PublishFacts
<1>6. ConsumerInv' /\ ReadInOrder'
  BY <1>1, <1>5, ConsumerKept DEF ClientsInv
<1>7. ReportedIsLogged' /\ (Logged(prod.msg) => Logged(prod.msg)')
  BY <1>1, <1>5, ReportedKept DEF ClientsInv
<1>8. ProducerInv'
  BY <1>1, <1>7, Zenon DEF ClientsInv, ProducerInv, Logged
<1>9. TypeOK'
  BY <1>1, <1>5, Zenon DEF LogKept, TypeOK, RegistryType, registry, options
<1> QED BY <1>5, <1>6, <1>7, <1>8, <1>9 DEF ClientsInv

\* A record that is written was accepted.
LEMMA StoreInv ==
  ASSUME ClientsInv, NEW p \in Parts, Store(p)
  PROVE  ClientsInv'
PROOF
<1>1. /\ TypeOK /\ UNCHANGED <<registry, faults, options, log, lost, prod, late, cons, seen>>
      /\ log \in [Parts -> Seq(1..Messages)] /\ stored \in [Parts -> Nat]
      /\ lost \subseteq 1..Messages /\ (\A q \in Parts : stored[q] <= Len(log[q]))
      /\ stored' = [stored EXCEPT ![p] = stored[p] + 1] /\ stored[p] < Len(log[p])
  BY DEF ClientsInv, TypeOK, Store
<1>2. LogKept
  BY <1>1 DEF LogKept
<1>3. RegistryInv'
  BY <1>1, Zenon DEF ClientsInv, RegistryInv, registry
<1>4. HomeInv' /\ KeyedTogether'
  BY <1>1 DEF ClientsInv, HomeInv, KeyedTogether, registry, options
<1>5. ConsumerInv' /\ ReadInOrder'
  BY <1>1, <1>2, ConsumerKept DEF ClientsInv
<1>6. ReportedIsLogged' /\ (Logged(prod.msg) => Logged(prod.msg)')
  BY <1>1, <1>2, ReportedKept DEF ClientsInv
<1>7. ProducerInv'
  BY <1>1, <1>6 DEF ClientsInv, ProducerInv, Logged
<1>8. TypeOK'
  BY <1>1, <1>2, Zenon DEF LogKept, TypeOK, RegistryType, registry, options
<1> QED BY <1>2, <1>3, <1>4, <1>5, <1>6, <1>7, <1>8 DEF ClientsInv

\* A step of a registry that leaves the partitions and the clients alone.
LEMMA RegistryStep ==
  ASSUME ClientsInv, RegistryType', RegistryInv', HomeKept,
         UNCHANGED <<options, logs, late, cons, seen>>,
         prod' \in ProducerState, prod'.msg = prod.msg, prod'.pc = prod.pc,
         prod'.retries = prod.retries,
         \/ prod' = prod
         \/ prod.pc = "create_topic"
  PROVE  ClientsInv'
PROOF
<1>1. LogKept
  BY LogsUnchanged DEF ClientsInv
<1>2. HomeInv' /\ KeyedTogether'
  BY HomesKept, Zenon DEF options, logs
<1>3. ConsumerInv' /\ ReadInOrder'
  BY <1>1, ConsumerKept DEF ClientsInv
<1>4. ReportedIsLogged' /\ (Logged(prod.msg) => Logged(prod.msg)')
  BY <1>1, ReportedKept DEF ClientsInv
<1>5. ProducerInv'
  BY <1>4, Zenon DEF ClientsInv, ProducerInv, Logged, None
<1>6. TypeOK'
  BY DEF ClientsInv, TypeOK, options, logs
<1> QED BY <1>2, <1>3, <1>4, <1>5, <1>6 DEF ClientsInv

\* handle_create_topic for the producer's request.
LEMMA HandleCreateInv ==
  ASSUME ClientsInv, NEW b \in Brokers, HandleCreate(b)
  PROVE  ClientsInv'
PROOF
<1>1. /\ RegistryType /\ RegistryInv /\ prod \in ProducerState /\ prod.pc = "create_topic"
      /\ UNCHANGED <<options, logs, late, cons, seen>> /\ asked \in 0..MaxParts
  BY ClientsAssumption DEF ClientsInv, TypeOK, HandleCreate
<1>2. PICK resp \in {"exists", "creating"} : prod' = [prod EXCEPT !.resp = resp]
  BY DEF HandleCreate
<1>3. /\ prod' \in ProducerState /\ prod'.msg = prod.msg /\ prod'.pc = prod.pc
      /\ prod'.retries = prod.retries
  BY <1>1, <1>2 DEF ProducerState, Codes
<1>4. RegistryType' /\ RegistryInv' /\ HomeKept
  <2>1. CASE UNCHANGED <<registry, faults>>
    BY <1>1, <2>1, Zenon DEF RegistryType, RegistryInv, HomeKept, registry
  <2>2. CASE CreateTopic(b, asked)
    BY <1>1, <2>2, CreateTopicFacts
  <2> QED BY <2>1, <2>2 DEF HandleCreate
<1> QED BY <1>1, <1>3, <1>4, RegistryStep

\* handle_create_topic for somebody else's request.
LEMMA OtherCreatesInv ==
  ASSUME ClientsInv, NEW b \in Brokers, OtherCreates(b)
  PROVE  ClientsInv'
PROOF
<1>1. /\ RegistryType /\ RegistryInv /\ prod \in ProducerState /\ prod' = prod
      /\ UNCHANGED <<options, logs, late, cons, seen>>
  BY DEF ClientsInv, TypeOK, OtherCreates
<1>2. PICK n \in 1..MaxParts : CreateTopic(b, n)
  BY DEF OtherCreates
<1>3. n \in 0..MaxParts
  OBVIOUS
<1>4. RegistryType' /\ RegistryInv' /\ HomeKept
  BY <1>1, <1>2, <1>3, CreateTopicFacts
<1> QED BY <1>1, <1>4, RegistryStep

\* The steps of create_topic after its first.
LEMMA CreateInv ==
  ASSUME ClientsInv, NEW b \in Brokers, Create(b)
  PROVE  ClientsInv'
PROOF
<1>1. /\ RegistryType /\ RegistryInv /\ ProducerInv /\ prod \in ProducerState
      /\ UNCHANGED <<options, logs, late, cons, seen>>
  BY DEF ClientsInv, TypeOK, Create
<1>2. RegistryType' /\ RegistryInv' /\ HomeKept
  BY <1>1, CreateDirectoryFacts, CreateEndFacts DEF Create
<1>3. \/ prod' = prod
      \/ prod.resp = "creating" /\ prod' = [prod EXCEPT !.resp = "ACK"]
  BY DEF Create
<1>4. /\ prod' \in ProducerState /\ prod'.msg = prod.msg /\ prod'.pc = prod.pc
      /\ prod'.retries = prod.retries
  BY <1>1, <1>3 DEF ProducerState, Codes
<1>5. prod' = prod \/ prod.pc = "create_topic"
  BY <1>1, <1>3 DEF ProducerInv
<1> QED BY <1>1, <1>2, <1>4, <1>5, RegistryStep

\* recover_all at the start of a broker.
LEMMA RecoverAllInv ==
  ASSUME ClientsInv, NEW b \in Brokers, RecoverAll(b), Others
  PROVE  ClientsInv'
PROOF
<1>1. /\ RegistryType /\ RegistryInv /\ prod \in ProducerState /\ prod' = prod
      /\ UNCHANGED <<options, logs, late, cons, seen>>
  BY DEF ClientsInv, TypeOK, Others
<1>2. RegistryType' /\ RegistryInv' /\ HomeKept
  BY <1>1, RecoverAllFacts
<1> QED BY <1>1, <1>2, RegistryStep

\* A broker learns of another leader of a partition.
LEMMA AdoptInv ==
  ASSUME ClientsInv, NEW b \in Brokers, NEW p \in Parts, Adopt(b, p), Others
  PROVE  ClientsInv'
PROOF
<1>1. /\ RegistryType /\ RegistryInv /\ prod \in ProducerState /\ prod' = prod
      /\ UNCHANGED <<options, logs, late, cons, seen>>
  BY DEF ClientsInv, TypeOK, Others
<1>2. RegistryType' /\ RegistryInv' /\ HomeKept
  BY <1>1, AdoptFacts
<1> QED BY <1>1, <1>2, RegistryStep

\* A broker ends: its requests, its registry and its unwritten records are gone.
LEMMA CrashInv ==
  ASSUME ClientsInv, NEW b \in Brokers, Crash(b)
  PROVE  ClientsInv'
PROOF
<1>1. /\ TypeOK /\ RegistryType /\ RegistryInv /\ ProducerInv /\ ConsumerInv /\ ReadInOrder
      /\ ReportedIsLogged /\ prod \in ProducerState /\ cons \in ConsumerState
      /\ late \subseteq [to : Brokers, msg : 1..Messages, part : Parts] /\ Stop(b)
      /\ key \in Keys /\ asked \in Asked /\ seen \in Seq([offset : Nat, msg : 1..Messages])
  BY DEF ClientsInv, TypeOK, Crash
<1>2. RegistryType' /\ RegistryInv' /\ HomeKept
  BY <1>1, StopFacts
<1>3. /\ LogKept /\ stored' = stored
      /\ \A p \in Parts : log'[p] # <<>> => log[p] # <<>>
  BY <1>1, CrashKeepsLogs
<1>4. key' = key /\ asked' = asked /\ seen' = seen /\ late' \subseteq late
  BY DEF Crash, options
<1>5. HomeInv' /\ KeyedTogether'
  BY <1>2, <1>3, <1>4, HomesKept
<1>6. /\ prod' \in ProducerState /\ prod'.msg = prod.msg /\ prod'.retries = prod.retries
      /\ \/ prod' = prod
         \/ prod'.resp = None /\ prod'.pc = "meta" /\ prod.pc \in {"create_topic", "publish"}
  <2>1. \/ prod' = prod
        \/ /\ prod' = [prod EXCEPT !.pc = "meta", !.resp = None]
           /\ prod.pc \in {"create_topic", "publish"}
    BY DEF Crash
  <2> QED BY <1>1, <2>1, Zenon DEF ProducerState, Codes
<1>7. ReportedIsLogged' /\ (Logged(prod.msg) => Logged(prod.msg)')
  BY <1>1, <1>3, <1>6, ReportedKept, Zenon
<1>8. ProducerInv'
  <2>1. CASE prod' = prod
    BY <1>1, <1>7, <2>1, Zenon DEF ProducerInv, Logged
  <2>2. CASE prod'.resp = None /\ prod'.pc = "meta" /\ prod.pc \in {"create_topic", "publish"}
    BY <1>1, <1>6, <2>2, Zenon DEF ProducerInv, None
  <2> QED BY <1>6, <2>1, <2>2
<1>9. NoAnswer \in [op : Codes, offset : Nat, msg : 0..Messages]
  BY ClientsAssumption DEF NoAnswer, Answer, Codes
<1>10. /\ cons' \in ConsumerState /\ cons'.offset = cons.offset
       /\ cons'.pc = "fetch" => cons.pc = "fetch"
       /\ \/ cons'.resp = cons.resp /\ cons'.pc = cons.pc
          \/ cons'.resp = NoAnswer
  BY <1>1, <1>9, Zenon DEF Crash, ConsumerState
<1>11. ConsumerInv' /\ ReadInOrder'
  BY <1>1, <1>3, <1>4, <1>10, ConsumerKept, Zenon
<1>12. TypeOK'
  BY <1>1, <1>2, <1>3, <1>4, <1>6, <1>10, Zenon DEF TypeOK, LogKept
<1> QED BY <1>2, <1>5, <1>7, <1>8, <1>11, <1>12 DEF ClientsInv

-----------------------------------------------------------------------------
(* The steps of the producer *)

\* A step of the producer that goes on with the same message and has read no ACK.
LEMMA SameMessage ==
  ASSUME ClientsInv, Brokerless, faults' \in 0..MaxFaults,
         late' \subseteq [to : Brokers, msg : 1..Messages, part : Parts],
         prod' \in ProducerState, prod'.msg = prod.msg, prod.msg <= Messages,
         prod'.resp = None, prod'.pc # "failed" => prod'.retries < 3
  PROVE  ClientsInv'
PROOF
<1> /\ UNCHANGED <<registry, options, logs>> /\ cons' = cons /\ seen' = seen
  BY DEF Brokerless
<1>1. LogKept /\ RegistryInv' /\ HomeInv' /\ KeyedTogether'
  BY ClientStep
<1>2. ConsumerInv' /\ ReadInOrder'
  BY <1>1, ConsumerKept DEF ClientsInv
<1>3. ReportedIsLogged'
  BY <1>1, ReportedKept DEF ClientsInv
<1>4. ProducerInv'
  BY DEF ProducerInv, None
<1>5. TypeOK'
  BY Zenon DEF ClientsInv, TypeOK, RegistryType, registry, options, logs
<1> QED BY <1>1, <1>2, <1>3, <1>4, <1>5 DEF ClientsInv

\* A failed attempt is counted, and the third one ends the producer.
LEMMA RetryFacts ==
  ASSUME TypeOK, ProducerInv, prod.pc # "done", prod.pc # "failed", NEW rr \in Parts, Retry(rr)
  PROVE  /\ prod' \in ProducerState /\ prod'.msg = prod.msg /\ prod.msg <= Messages
         /\ prod'.resp = None /\ (prod'.pc # "failed" => prod'.retries < 3)
PROOF
<1>1. prod \in ProducerState /\ prod.retries < 3 /\ prod.msg <= Messages
  BY DEF TypeOK, ProducerInv
<1>2. prod' = [prod EXCEPT !.retries = prod.retries + 1, !.rr = rr, !.resp = None,
                           !.pc = IF prod.retries + 1 < 3 THEN "meta" ELSE "failed"]
  BY DEF Retry
<1>3. prod.retries + 1 \in 0..3 /\ None \in Codes
  BY <1>1 DEF ProducerState, Codes
<1>4. CASE prod.retries + 1 < 3
  BY <1>1, <1>2, <1>3, <1>4, Zenon DEF ProducerState
<1>5. CASE ~(prod.retries + 1 < 3)
  BY <1>1, <1>2, <1>3, <1>5, Zenon DEF ProducerState
<1> QED BY <1>4, <1>5

\* A fault that the bound allows.
LEMMA FaultFacts ==
  ASSUME TypeOK, Fault
  PROVE  faults' \in 0..MaxFaults
PROOF BY RegistryAssumption DEF TypeOK, RegistryType, Fault

\* fetch_metadata and the choice of a partition and its leader.
LEMMA PMetaInv ==
  ASSUME ClientsInv, PMeta
  PROVE  ClientsInv'
PROOF
<1> DEFINE n == topics[Bootstrap]
           rr == IF key = NoKey THEN (prod.rr + 1) % n ELSE prod.rr
           p == (IF key = NoKey THEN prod.rr ELSE key) % n
<1>1. TypeOK /\ ProducerInv /\ prod.pc = "meta" /\ prod \in ProducerState /\ late' = late
      /\ late \subseteq [to : Brokers, msg : 1..Messages, part : Parts] /\ Brokerless
  BY DEF ClientsInv, PMeta, TypeOK
<1>2. /\ n \in 0..MaxParts /\ key \in Nat \cup {NoKey} /\ prod.rr \in Parts /\ prod.resp = None
      /\ prod.retries < 3 /\ prod.msg <= Messages /\ faults \in 0..MaxFaults
  BY <1>1, ClientsAssumption, Zenon DEF TypeOK, RegistryType, ProducerState, ProducerInv
<1>3. n > 0 => rr \in Parts /\ p \in Parts
  <2> SUFFICES ASSUME n > 0 PROVE rr \in Parts /\ p \in Parts
    OBVIOUS
  <2>1. prod.rr \in Nat /\ prod.rr + 1 \in Nat /\ n \in Nat \ {0}
    BY <1>2, RegistryAssumption DEF Parts
  <2>2. 0..(n - 1) \subseteq Parts
    BY <1>2, RegistryAssumption DEF Parts
  <2>3. CASE key = NoKey
    BY <1>2, <2>1, <2>2, <2>3, ModFacts, Zenon
  <2>4. CASE key # NoKey
    BY <1>2, <2>1, <2>2, <2>4, ModFacts, Zenon
  <2> QED BY <2>3, <2>4
<1>4. CASE Retry(prod.rr) /\ faults' \in 0..MaxFaults
  <2>1. /\ prod' \in ProducerState /\ prod'.msg = prod.msg /\ prod.msg <= Messages
        /\ prod'.resp = None /\ (prod'.pc # "failed" => prod'.retries < 3)
    BY <1>1, <1>2, <1>4, RetryFacts
  <2> QED BY <1>1, <1>4, <2>1, SameMessage
<1>5. CASE UNCHANGED faults /\ Retry(IF n = 0 THEN prod.rr ELSE rr)
  <2>0. (IF n = 0 THEN prod.rr ELSE rr) \in Parts
    BY <1>2, <1>3
  <2>1. /\ prod' \in ProducerState /\ prod'.msg = prod.msg /\ prod.msg <= Messages
        /\ prod'.resp = None /\ (prod'.pc # "failed" => prod'.retries < 3)
    BY <1>1, <1>2, <1>5, <2>0, RetryFacts
  <2> QED BY <1>1, <1>2, <1>5, <2>1, SameMessage
<1>6. CASE /\ n > 0 /\ Metadata[p] \in Brokers /\ UNCHANGED faults
           /\ prod' = [prod EXCEPT !.pc = "connect", !.rr = rr, !.part = p, !.to = Metadata[p]]
  <2> HIDE DEF rr, p, n
  <2>1. /\ prod' \in ProducerState /\ prod'.msg = prod.msg /\ prod'.resp = prod.resp
        /\ prod'.retries = prod.retries
    BY <1>1, <1>3, <1>6, Zenon DEF ProducerState
  <2> QED BY <1>1, <1>2, <1>6, <2>1, SameMessage
<1> QED BY <1>1, <1>2, <1>4, <1>5, <1>6, FaultFacts DEF PMeta

\* A connection is opened, or the attempt counts as failed.
LEMMA PConnectInv ==
  ASSUME ClientsInv, PConnect
  PROVE  ClientsInv'
PROOF
<1>1. TypeOK /\ ProducerInv /\ prod.pc = "connect" /\ prod \in ProducerState /\ late' = late
      /\ late \subseteq [to : Brokers, msg : 1..Messages, part : Parts] /\ Brokerless
  BY DEF ClientsInv, PConnect, TypeOK
<1>2. /\ prod.rr \in Parts /\ prod.resp = None /\ faults \in 0..MaxFaults
      /\ prod.retries < 3 /\ prod.msg <= Messages
  BY <1>1, Zenon DEF TypeOK, RegistryType, ProducerState, ProducerInv
<1>3. faults' \in 0..MaxFaults
  BY <1>1, <1>2, FaultFacts DEF PConnect
<1>4. CASE prod' = [prod EXCEPT !.pc = "publish"]
  <2>1. /\ prod' \in ProducerState /\ prod'.msg = prod.msg /\ prod'.resp = prod.resp
        /\ prod'.retries = prod.retries
    BY <1>1, <1>4 DEF ProducerState
  <2> QED BY <1>1, <1>2, <1>3, <2>1, SameMessage
<1>5. CASE Retry(prod.rr)
  <2>1. /\ prod' \in ProducerState /\ prod'.msg = prod.msg /\ prod.msg <= Messages
        /\ prod'.resp = None /\ (prod'.pc # "failed" => prod'.retries < 3)
    BY <1>1, <1>2, <1>5, RetryFacts
  <2> QED BY <1>1, <1>3, <2>1, SameMessage
<1> QED BY <1>4, <1>5 DEF PConnect

\* CREATE_TOPIC is sent, or the bootstrap broker cannot be reached.
LEMMA PCreateInv ==
  ASSUME ClientsInv, PCreate
  PROVE  ClientsInv'
PROOF
<1>1. TypeOK /\ ProducerInv /\ prod.pc = "create" /\ prod \in ProducerState /\ late' = late
      /\ late \subseteq [to : Brokers, msg : 1..Messages, part : Parts] /\ Brokerless
  BY DEF ClientsInv, PCreate, TypeOK
<1>2. /\ prod.resp = None /\ faults \in 0..MaxFaults /\ prod.retries < 3 /\ prod.msg <= Messages
  BY <1>1, Zenon DEF TypeOK, RegistryType, ProducerState, ProducerInv
<1>3. faults' \in 0..MaxFaults
  BY <1>1, <1>2, FaultFacts DEF PCreate
<1>4. /\ prod' \in ProducerState /\ prod'.msg = prod.msg /\ prod'.resp = prod.resp
      /\ prod'.retries = prod.retries
  BY <1>1 DEF PCreate, ProducerState
<1> QED BY <1>1, <1>2, <1>3, <1>4, SameMessage

\* The answer to CREATE_TOPIC is read, whatever it says.
LEMMA PCreatedInv ==
  ASSUME ClientsInv, PCreated
  PROVE  ClientsInv'
PROOF
<1>1. TypeOK /\ ProducerInv /\ prod.pc = "create_topic" /\ prod \in ProducerState /\ late' = late
      /\ late \subseteq [to : Brokers, msg : 1..Messages, part : Parts] /\ Brokerless
  BY DEF ClientsInv, PCreated, TypeOK
<1>2. /\ faults \in 0..MaxFaults /\ faults' = faults /\ prod.retries < 3 /\ prod.msg <= Messages
  BY <1>1 DEF TypeOK, RegistryType, ProducerInv, PCreated
<1>3. /\ prod' \in ProducerState /\ prod'.msg = prod.msg /\ prod'.resp = None
      /\ prod'.retries = prod.retries
  BY <1>1, Zenon DEF PCreated, ProducerState, Codes
<1> QED BY <1>1, <1>2, <1>3, SameMessage

\* A connection fails; the publish may still be on its way.
LEMMA PLostInv ==
  ASSUME ClientsInv, PLost
  PROVE  ClientsInv'
PROOF
<1>1. TypeOK /\ ProducerInv /\ prod.pc \in {"create_topic", "publish"} /\ prod \in ProducerState
      /\ late \subseteq [to : Brokers, msg : 1..Messages, part : Parts] /\ Brokerless
  BY DEF ClientsInv, PLost, TypeOK
<1>2. prod.retries < 3 /\ prod.msg <= Messages /\ faults' \in 0..MaxFaults
  BY <1>1, FaultFacts DEF ProducerInv, PLost
<1>3. /\ prod' \in ProducerState /\ prod'.msg = prod.msg /\ prod'.resp = None
      /\ prod'.retries = prod.retries
  BY <1>1, Zenon DEF PLost, ProducerState, Codes
<1>4. [to |-> prod.to, msg |-> prod.msg, part |-> prod.part]
        \in [to : Brokers, msg : 1..Messages, part : Parts]
  BY <1>1, <1>2, ClientsAssumption DEF ProducerState
<1>5. late' \subseteq [to : Brokers, msg : 1..Messages, part : Parts]
  BY <1>1, <1>4 DEF PLost
<1> QED BY <1>1, <1>2, <1>3, <1>5, SameMessage

\* A response is read.  Only an ACK moves the producer to the next message.
LEMMA PResponseInv ==
  ASSUME ClientsInv, PResponse
  PROVE  ClientsInv'
PROOF
<1>1. TypeOK /\ ProducerInv /\ prod.pc = "publish" /\ prod \in ProducerState /\ late' = late
      /\ late \subseteq [to : Brokers, msg : 1..Messages, part : Parts] /\ Brokerless
      /\ prod' = After(prod.resp)
  BY Zenon DEF ClientsInv, PResponse, TypeOK
<1>2. /\ faults \in 0..MaxFaults /\ faults' = faults /\ prod.retries < 3 /\ prod.msg <= Messages
      /\ None \in Codes
  BY <1>1, Zenon DEF TypeOK, RegistryType, ProducerInv, PResponse, Codes
<1>3. CASE prod.resp # "ACK"
  <2>1. \/ prod' = [prod EXCEPT !.resp = None, !.pc = "meta"]
        \/ prod' = [prod EXCEPT !.resp = None]
        \/ prod' = [prod EXCEPT !.resp = None, !.pc = "failed"]
    BY <1>1, <1>3 DEF After
  <2>2. /\ prod' \in ProducerState /\ prod'.msg = prod.msg /\ prod'.resp = None
        /\ prod'.retries = prod.retries
    BY <1>1, <1>2, <2>1, ZenonT(30) DEF ProducerState
  <2> QED BY <1>1, <1>2, <2>2, SameMessage
<1>4. CASE prod.resp = "ACK"
  <2>1. prod' = [prod EXCEPT !.resp = None, !.retries = 0, !.msg = prod.msg + 1,
                             !.pc = IF prod.msg < Messages THEN "meta" ELSE "done"]
    BY <1>1, <1>4 DEF After
  <2>2. prod.msg \in 1..Messages /\ prod.msg + 1 \in 1..(Messages + 1)
    BY <1>1, <1>2, ClientsAssumption DEF ProducerState
  <2>3. /\ prod' \in ProducerState /\ prod'.msg = prod.msg + 1 /\ prod'.resp = None
        /\ prod'.retries = 0 /\ (prod'.pc # "done" => prod.msg < Messages)
    <3>0. 0 \in 0..3
      OBVIOUS
    <3>1. CASE prod.msg < Messages
      BY <1>1, <1>2, <2>1, <2>2, <3>0, <3>1, ZenonT(30) DEF ProducerState
    <3>2. CASE ~(prod.msg < Messages)
      <4>1. prod' = [prod EXCEPT !.resp = None, !.retries = 0, !.msg = prod.msg + 1,
                                 !.pc = "done"]
        BY <2>1, <3>2
      <4> QED BY <1>1, <1>2, <2>2, <3>0, <4>1, ZenonT(30) DEF ProducerState
    <3> QED BY <3>1, <3>2
  <2>4. /\ UNCHANGED <<registry, options, logs>> /\ cons' = cons /\ seen' = seen
    BY <1>1 DEF Brokerless
  <2>5. LogKept /\ RegistryInv' /\ HomeInv' /\ KeyedTogether'
    BY <2>4, ClientStep
  <2>6. ConsumerInv' /\ ReadInOrder'
    BY <2>4, <2>5, ConsumerKept DEF ClientsInv
  <2>7. ReportedIsLogged'
    <3>1. \A m \in 1..(prod.msg - 1) : Logged(m)
      BY DEF ClientsInv, ReportedIsLogged, Logged
    <3>2. Logged(prod.msg)
      BY <1>1, <1>4 DEF ProducerInv
    <3>3. \A m \in 1..prod.msg : Logged(m)
      BY <2>2, <3>1, <3>2
    <3>4. \A m \in 1..(prod'.msg - 1) : Logged(m)'
      BY <1>1, <2>2, <2>3, <2>5, <3>3, LoggedKept
    <3> QED BY <3>4 DEF ReportedIsLogged, Logged
  <2>8. ProducerInv'
    BY <2>2, <2>3, ClientsAssumption DEF ProducerInv, None
  <2>9. TypeOK'
    BY <1>1, <1>2, <2>3, <2>4, Zenon DEF TypeOK, RegistryType, registry, options, logs
  <2> QED BY <2>5, <2>6, <2>7, <2>8, <2>9 DEF ClientsInv
<1> QED BY <1>3, <1>4

-----------------------------------------------------------------------------
(* The steps of the consumer *)

\* A step of the consumer that goes on from the same offset.
LEMMA SameOffset ==
  ASSUME ClientsInv, ConsumerOnly, faults' \in 0..MaxFaults, seen' = seen,
         cons' \in ConsumerState, cons'.offset = cons.offset,
         cons'.pc = "fetch" => cons.pc = "fetch", cons'.resp = NoAnswer
  PROVE  ClientsInv'
PROOF
<1> /\ UNCHANGED <<registry, options, logs>> /\ prod' = prod /\ late' = late
  BY DEF ConsumerOnly
<1>1. LogKept /\ RegistryInv' /\ HomeInv' /\ KeyedTogether'
  BY ClientStep
<1>2. ConsumerInv' /\ ReadInOrder'
  BY <1>1, ConsumerKept DEF ClientsInv
<1>3. ReportedIsLogged' /\ (Logged(prod.msg) => Logged(prod.msg)')
  BY <1>1, ReportedKept, Zenon DEF ClientsInv
<1>4. ProducerInv'
  BY <1>3, Zenon DEF ClientsInv, ProducerInv, Logged
<1>5. TypeOK'
  BY Zenon DEF ClientsInv, TypeOK, RegistryType, registry, options, logs
<1> QED BY <1>1, <1>2, <1>3, <1>4, <1>5, Zenon DEF ClientsInv

\* connect_to_leader, and a connection that fails.
LEMMA CResolveInv ==
  ASSUME ClientsInv, CResolve
  PROVE  ClientsInv'
PROOF
<1>1. /\ cons \in ConsumerState /\ faults' \in 0..MaxFaults /\ seen' = seen /\ ConsumerOnly
  BY DEF ClientsInv, TypeOK, RegistryType, CResolve
<1>2. cons.resp = NoAnswer
  BY DEF ClientsInv, ConsumerInv, CResolve
<1>3. /\ cons' \in ConsumerState /\ cons'.offset = cons.offset /\ cons'.pc # "fetch"
      /\ cons'.resp = cons.resp
  BY <1>1, Zenon DEF CResolve, ConsumerState
<1> QED BY <1>1, <1>2, <1>3, SameOffset

\* The consumer's connection fails; it resolves the leader again.
LEMMA CLostInv ==
  ASSUME ClientsInv, CLost
  PROVE  ClientsInv'
PROOF
<1>1. /\ cons \in ConsumerState /\ faults' \in 0..MaxFaults /\ seen' = seen /\ ConsumerOnly
  BY FaultFacts DEF ClientsInv, TypeOK, CLost
<1>2. NoAnswer \in [op : Codes, offset : Nat, msg : 0..Messages]
  BY ClientsAssumption DEF NoAnswer, Answer, Codes
<1>3. /\ cons' \in ConsumerState /\ cons'.offset = cons.offset /\ cons'.pc # "fetch"
      /\ cons'.resp = NoAnswer
  BY <1>1, <1>2, Zenon DEF CLost, ConsumerState
<1> QED BY <1>1, <1>3, SameOffset

\* The answer to SUBSCRIBE.  Only a consumer that has printed nothing takes its offset
\* from it.
LEMMA CSubscribedInv ==
  ASSUME ClientsInv, CSubscribed
  PROVE  ClientsInv'
PROOF
<1>1. /\ cons \in ConsumerState /\ faults' \in 0..MaxFaults /\ seen' = seen /\ ConsumerOnly
      /\ cons.pc = "subscribe" /\ faults' = faults
      /\ seen \in Seq([offset : Nat, msg : 1..Messages])
  BY DEF ClientsInv, TypeOK, RegistryType, CSubscribed
<1>2. NoAnswer \in [op : Codes, offset : Nat, msg : 0..Messages]
  BY ClientsAssumption DEF NoAnswer, Answer, Codes
<1>3. CASE cons.resp.op # "ACK"
  <2>1. \/ cons' = [cons EXCEPT !.pc = "resolve", !.resp = NoAnswer]
        \/ cons' = [cons EXCEPT !.pc = "exit", !.resp = NoAnswer]
    BY <1>3 DEF CSubscribed
  <2>2. /\ cons' \in ConsumerState /\ cons'.offset = cons.offset /\ cons'.pc # "fetch"
        /\ cons'.resp = NoAnswer
    BY <1>1, <1>2, <2>1, Zenon DEF ConsumerState
  <2> QED BY <1>1, <2>2, SameOffset
<1>4. CASE cons.resp.op = "ACK"
  <2>1. cons' = [cons EXCEPT !.pc = "fetch", !.resp = NoAnswer,
                             !.offset = IF cons.offset = Latest THEN cons.resp.offset
                                        ELSE cons.offset]
    BY <1>4 DEF CSubscribed
  <2>2. /\ cons' \in ConsumerState /\ cons'.resp = NoAnswer
        /\ (cons.offset # Latest => cons'.offset = cons.offset) /\ cons'.offset \in Nat
    BY <1>1, <1>2, <2>1, Zenon DEF ConsumerState
  <2>3. cons.offset = Latest => seen = <<>>
    <3>1. seen # <<>> => Len(seen) \in 1..Len(seen)
      BY <1>1
    <3>2. seen # <<>> => seen[Len(seen)] \in [offset : Nat, msg : 1..Messages]
      BY <1>1, <3>1, ElementOf, Zenon
    <3>3. seen # <<>> => seen[Len(seen)].offset + 1 # Latest
      BY <3>2, ClientsAssumption
    <3>4. seen # <<>> => cons.offset = seen[Len(seen)].offset + 1
      BY Zenon DEF ClientsInv, ReadInOrder
    <3> QED BY <3>3, <3>4, Zenon
  <2>4. /\ UNCHANGED <<registry, options, logs>> /\ prod' = prod /\ late' = late
    BY <1>1 DEF ConsumerOnly
  <2>5. LogKept /\ RegistryInv' /\ HomeInv' /\ KeyedTogether'
    BY <2>4, ClientStep
  <2>6. ReadInOrder'
    BY <1>1, <2>2, <2>3, <2>4, Zenon DEF ClientsInv, ReadInOrder, logs
  <2>7. ConsumerInv'
    BY <2>2, <2>1, <1>1 DEF ConsumerInv, NoAnswer, Answer, None, ConsumerState
  <2>8. ReportedIsLogged' /\ (Logged(prod.msg) => Logged(prod.msg)')
    BY <2>4, <2>5, ReportedKept DEF ClientsInv
  <2>9. ProducerInv'
    BY <2>4, <2>8, Zenon DEF ClientsInv, ProducerInv, Logged
  <2>10. TypeOK'
    BY <1>1, <2>2, <2>4, Zenon DEF ClientsInv, TypeOK, RegistryType, registry, options, logs
  <2> QED BY <2>5, <2>6, <2>7, <2>8, <2>9, <2>10 DEF ClientsInv
<1> QED BY <1>3, <1>4

\* The answer to FETCH.  A record is printed and the offset after it is next.
LEMMA CFetchedInv ==
  ASSUME ClientsInv, CFetched
  PROVE  ClientsInv'
PROOF
<1>1. /\ cons \in ConsumerState /\ faults' \in 0..MaxFaults /\ ConsumerOnly
      /\ cons.pc = "fetch" /\ faults' = faults
      /\ seen \in Seq([offset : Nat, msg : 1..Messages])
  BY DEF ClientsInv, TypeOK, RegistryType, CFetched
<1>2. NoAnswer \in [op : Codes, offset : Nat, msg : 0..Messages]
  BY ClientsAssumption DEF NoAnswer, Answer, Codes
<1>3. CASE cons.resp.op # "FETCH_RESPONSE"
  <2>1. \/ cons' = [cons EXCEPT !.resp = NoAnswer]
        \/ cons' = [cons EXCEPT !.pc = "resolve", !.resp = NoAnswer]
        \/ cons' = [cons EXCEPT !.pc = "exit", !.resp = NoAnswer]
    BY <1>3 DEF CFetched
  <2>2. /\ cons' \in ConsumerState /\ cons'.offset = cons.offset
        /\ cons'.resp = NoAnswer
    BY <1>1, <1>2, <2>1, Zenon DEF ConsumerState
  <2>3. seen' = seen
    BY <1>3 DEF CFetched
  <2> QED BY <1>1, <2>2, <2>3, SameOffset
<1>4. CASE cons.resp.op = "FETCH_RESPONSE"
  <2> DEFINE r == [offset |-> cons.resp.offset, msg |-> cons.resp.msg]
  <2>1. /\ cons.offset \in Nat /\ cons.resp.offset = cons.offset
        /\ cons.offset < stored[Part] /\ cons.resp.msg = log[Part][cons.offset + 1]
    BY <1>1, <1>4, Zenon DEF ClientsInv, ConsumerInv
  <2>2. /\ cons' = [cons EXCEPT !.offset = cons.resp.offset + 1, !.resp = NoAnswer]
        /\ seen' = Append(seen, r)
    BY <1>4 DEF CFetched
  <2>3. /\ cons' \in ConsumerState /\ cons'.resp = NoAnswer /\ cons'.offset = cons.offset + 1
        /\ cons'.pc = "fetch"
    <3>1. cons.resp.offset + 1 = cons.offset + 1 /\ cons.offset + 1 \in Nat \cup {Latest}
      BY <2>1
    <3> QED BY <1>1, <1>2, <2>2, <3>1, Zenon DEF ConsumerState
  <2>4. /\ UNCHANGED <<registry, options, logs>> /\ prod' = prod /\ late' = late
    BY <1>1 DEF ConsumerOnly
  <2>5. LogKept /\ RegistryInv' /\ HomeInv' /\ KeyedTogether'
    BY <2>4, ClientStep
  <2>6. r \in [offset : Nat, msg : 1..Messages]
    <3>1. /\ log[Part] \in Seq(1..Messages) /\ stored[Part] \in Nat
          /\ stored[Part] <= Len(log[Part])
      BY ClientsAssumption DEF ClientsInv, TypeOK
    <3>2. cons.offset + 1 \in 1..Len(log[Part])
      BY <2>1, <3>1
    <3>3. log[Part][cons.offset + 1] \in 1..Messages
      BY <3>1, <3>2, ElementOf, Zenon
    <3> QED BY <2>1, <3>3, Zenon
  <2>7. ReadInOrder'
    <3> HIDE DEF r
    <3>1. /\ seen' \in Seq([offset : Nat, msg : 1..Messages]) /\ Len(seen') = Len(seen) + 1
          /\ \A i \in 1..Len(seen) : seen'[i] = seen[i]
          /\ seen'[Len(seen) + 1] = r /\ Len(seen) \in Nat /\ DOMAIN seen' = 1..(Len(seen) + 1)
          /\ DOMAIN seen = 1..Len(seen)
      BY <1>1, <2>2, <2>6
    <3>2. r.offset = cons.offset /\ r.msg = log[Part][cons.offset + 1]
      BY <2>1, Zenon DEF r
    <3>3. \A i \in DOMAIN seen' :
            seen'[i].offset < stored[Part] /\ seen'[i].msg = log[Part][seen'[i].offset + 1]
      <4> SUFFICES ASSUME NEW i \in 1..(Len(seen) + 1)
                   PROVE  /\ seen'[i].offset < stored[Part]
                          /\ seen'[i].msg = log[Part][seen'[i].offset + 1]
        BY <3>1, Zenon
      <4>1. CASE i \in 1..Len(seen)
        BY <3>1, <4>1, Zenon DEF ClientsInv, ReadInOrder
      <4>2. CASE i = Len(seen) + 1
        BY <2>1, <3>1, <3>2, <4>2, Zenon
      <4> QED BY <3>1, <4>1, <4>2
    <3>4. ASSUME NEW i \in 2..Len(seen')
          PROVE  seen'[i].offset = seen'[i - 1].offset + 1
      <4>1. CASE i \in 2..Len(seen)
        <5>1. i \in 1..Len(seen) /\ i - 1 \in 1..Len(seen)
          BY <3>1, <4>1
        <5> QED BY <3>1, <4>1, <5>1, Zenon DEF ClientsInv, ReadInOrder
      <4>2. CASE i = Len(seen) + 1
        <5>1. seen # <<>> /\ i - 1 = Len(seen) /\ Len(seen) \in 1..Len(seen)
          BY <3>1, <4>2
        <5>2. cons.offset = seen[Len(seen)].offset + 1
          BY <5>1 DEF ClientsInv, ReadInOrder
        <5> QED BY <3>1, <3>2, <4>2, <5>1, <5>2, Zenon
      <4> QED BY <3>1, <4>1, <4>2
    <3>5. cons'.offset = seen'[Len(seen')].offset + 1
      BY <2>3, <3>1, <3>2
    <3> QED BY <2>4, <3>3, <3>4, <3>5, Zenon DEF ReadInOrder, logs
  <2>8. ConsumerInv'
    <3>1. cons'.resp.op # "FETCH_RESPONSE" /\ cons'.offset \in Nat
      BY <2>1, <2>3 DEF NoAnswer, Answer, None
    <3> QED BY <2>3, <3>1 DEF ConsumerInv
  <2>9. ReportedIsLogged' /\ (Logged(prod.msg) => Logged(prod.msg)')
    BY <2>4, <2>5, ReportedKept DEF ClientsInv
  <2>10. ProducerInv'
    BY <2>4, <2>9 DEF ClientsInv, ProducerInv, Logged
  <2>11. TypeOK'
    <3>1. seen' \in Seq([offset : Nat, msg : 1..Messages])
      BY <1>1, <2>2, <2>6
    <3> QED BY <1>1, <2>3, <2>4, <3>1, Zenon DEF ClientsInv, TypeOK, RegistryType, registry, options, logs
  <2> QED BY <2>5, <2>7, <2>8, <2>9, <2>10, <2>11 DEF ClientsInv
<1> QED BY <1>3, <1>4, Zenon

-----------------------------------------------------------------------------
(* The invariant and what it gives *)

\* Every step of a client, a broker or an I/O thread keeps ClientsInv.
LEMMA NextInv == ClientsInv /\ [Next]_vars => ClientsInv'
PROOF
<1> SUFFICES ASSUME ClientsInv, [Next]_vars PROVE ClientsInv'
  OBVIOUS
<1>1. CASE Producer
  BY <1>1, PCreateInv, PCreatedInv, PMetaInv, PConnectInv, PResponseInv, PLostInv DEF Producer
<1>2. CASE Consumer
  BY <1>2, CResolveInv, CSubscribedInv, CFetchedInv, CLostInv DEF Consumer
<1>3. CASE \E b \in Brokers : Broker(b)
  <2>1. PICK b \in Brokers : Broker(b)
    BY <1>3
  <2>2. CASE HandlePublishV2(b) \/ HandleLate(b) \/ HandleConsumer(b) \/ Crash(b)
    BY <2>2, HandlePublishV2Inv, HandleLateInv, HandleConsumerInv, CrashInv
  <2>3. CASE HandleCreate(b) \/ OtherCreates(b) \/ Create(b)
    BY <2>3, HandleCreateInv, OtherCreatesInv, CreateInv
  <2>4. CASE RecoverAll(b) /\ Others
    BY <2>4, RecoverAllInv
  <2>5. CASE (\E p \in Parts : Adopt(b, p)) /\ Others
    BY <2>5, AdoptInv
  <2> QED BY <2>1, <2>2, <2>3, <2>4, <2>5 DEF Broker
<1>4. CASE \E p \in Parts : Store(p)
  BY <1>4, StoreInv
<1>5. CASE UNCHANGED vars
  <2>1. /\ UNCHANGED <<registry, options, logs, late, cons, seen>> /\ prod' = prod
        /\ faults' = faults
    BY <1>5 DEF vars
  <2>2. RegistryType' /\ RegistryInv' /\ HomeKept
    BY <2>1, Zenon DEF ClientsInv, TypeOK, RegistryType, RegistryInv, HomeKept, registry
  <2> QED BY <2>1, <2>2, RegistryStep, Zenon DEF ClientsInv, TypeOK
<1> QED BY <1>1, <1>2, <1>3, <1>4, <1>5 DEF Next

\* ClientsInv holds in every reachable state, for all values of the constants.
THEOREM ClientsInvariant == Spec => []ClientsInv
PROOF
<1>1. Init => ClientsInv
  BY InitInv
<1>2. ClientsInv /\ [Next]_vars => ClientsInv'
  BY NextInv
<1> QED BY <1>1, <1>2, PTL DEF Spec

\* Every variable of the clients and the brokers has its type.
THEOREM ClientsTyped == Spec => []TypeOK
PROOF
<1>1. ClientsInv => TypeOK
  BY DEF ClientsInv
<1> QED BY <1>1, ClientsInvariant, PTL

\* The consumer loop, through reconnects, crashes and elections, prints consecutive
\* offsets and only what the partition holds there.
THEOREM ReadsInOrder == Spec => []ReadInOrder
PROOF
<1>1. ClientsInv => ReadInOrder
  BY DEF ClientsInv
<1> QED BY <1>1, ClientsInvariant, PTL

\* A message the producer loop reports as published is in a partition, or was accepted by
\* handle_publish_v2 and not written when its broker ended.
THEOREM ReportedWasLogged == Spec => []ReportedIsLogged
PROOF
<1>1. ClientsInv => ReportedIsLogged
  BY DEF ClientsInv
<1> QED BY <1>1, ClientsInvariant, PTL

\* The partition that handle_publish_v2 computes for a key never changes.
THEOREM KeysStayTogether == Spec => []KeyedTogether
PROOF
<1>1. ClientsInv => KeyedTogether
  BY DEF ClientsInv
<1> QED BY <1>1, ClientsInvariant, PTL

\* recover_all finds exactly the partitions that an acknowledged create_topic made.
THEOREM CreatedTopicsComplete == Spec => []CreatedComplete
PROOF
<1>1. ClientsInv => CreatedComplete
  BY Zenon DEF ClientsInv, RegistryInv, CreatedComplete
<1> QED BY <1>1, ClientsInvariant, PTL

=============================================================================
