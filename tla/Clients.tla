------------------------------ MODULE Clients ------------------------------
(***************************************************************************)
(* The command-line producer and consumer against the brokers: the request *)
(* handlers, the metadata that routes the clients, and their loops through *)
(* lost connections, crashes, elections and full queues.                   *)
(*                                                                         *)
(* Requests are well formed and acks = 1.  A partition is what its store   *)
(* promises: records accepted, and a prefix of them written, which fetch   *)
(* returns and the end of the process keeps.                               *)
(***************************************************************************)
EXTENDS TopicRegistry, Sequences

CONSTANTS
  Messages,     \* --count of the producer; with 0 it sends nothing and is not modelled
  MaxQueued,    \* records the append queue of a partition holds
  Offsets,      \* --offset of the consumer; Latest is one of them
  Latest,       \* the offset 0xFFFFFFFFFFFFFFFF
  Keys,         \* --key of the producer, as its FNV-1a hash, or NoKey
  NoKey,
  Asked,        \* --partitions of the producer, or 0 without --create
  RetryOnBusy,  \* --retry-on-busy
  Bootstrap,    \* the broker that both clients ask for metadata
  Part          \* --partition of the consumer

ASSUME ClientsAssumption ==
  /\ Messages \in Nat \ {0} /\ MaxQueued \in Nat \ {0}
  /\ Latest \notin Nat /\ Offsets \subseteq Nat \cup {Latest} /\ RetryOnBusy \in BOOLEAN
  /\ Asked \subseteq 0..MaxParts /\ Bootstrap \in Brokers /\ Part \in Parts
  /\ NoKey \notin Nat /\ Keys \subseteq Nat \cup {NoKey}

VARIABLES
  key, asked,   \* the producer's options
  log, stored,  \* per partition: messages accepted, and how many are written
  lost,         \* messages accepted and not written when the broker ended
  prod,         \* the producer; pc is where it waits
  late,         \* publishes whose connection the producer has given up
  cons, seen    \* the consumer; what it has printed

options == <<key, asked>>
logs == <<log, stored, lost>>
vars == <<registry, faults, options, logs, prod, late, cons, seen>>

None == "none"
Answer(op, offset, msg) == [op |-> op, offset |-> offset, msg |-> msg]
NoAnswer == Answer(None, 0, 0)

Init ==
  /\ RegistryInit
  /\ key \in Keys /\ asked \in Asked
  /\ log = [p \in Parts |-> <<>>] /\ stored = [p \in Parts |-> 0] /\ lost = {}
  /\ prod = [pc |-> IF asked > 0 THEN "create" ELSE "meta", msg |-> 1, retries |-> 0, rr |-> 0,
             part |-> 0, to |-> Bootstrap, resp |-> None]
  /\ late = {}
  /\ cons \in [pc : {"resolve"}, offset : Offsets, to : {Bootstrap}, resp : {NoAnswer}]
  /\ seen = <<>>

-----------------------------------------------------------------------------
(* The brokers *)

\* handle_metadata_req on the bootstrap broker: the leader of each partition it knows.
Metadata == [p \in 0..(topics[Bootstrap] - 1) |-> leader_id[Bootstrap][p]]

\* The partition a publish is for: a key is hashed again, with this broker's count.
Routed(b, part) == IF key = NoKey THEN part ELSE key % topics[b]

\* Checks of handle_publish_v2, handle_subscribe and handle_fetch, in their order.
Refusal(b, p) ==
  CASE topics[b] = 0 -> "UNKNOWN_TOPIC"
    [] topics[b] # 0 /\ p >= topics[b] -> "UNKNOWN_PARTITION"
    [] p < topics[b] /\ p \notin led[b] -> "NOT_LEADER"
    [] OTHER -> None

\* handle_publish_v2 with the answer resp.
PublishV2(b, m, part, resp) ==
  LET p == IF topics[b] = 0 THEN part ELSE Routed(b, part)
  IN  /\ Serves(b)
      /\ \/ Refusal(b, p) # None /\ resp = Refusal(b, p) /\ UNCHANGED log
         \/ /\ Refusal(b, p) = None /\ Len(log[p]) - stored[p] >= MaxQueued
            /\ resp = "BUSY" /\ UNCHANGED log
         \/ /\ Refusal(b, p) = None /\ Len(log[p]) - stored[p] < MaxQueued
            /\ resp = "ACK" /\ log' = [log EXCEPT ![p] = Append(@, m)]

HandlePublishV2(b) ==
  /\ prod.pc = "publish" /\ prod.to = b /\ prod.resp = None
  /\ \E resp \in {"ACK", "BUSY", "UNKNOWN_TOPIC", "UNKNOWN_PARTITION", "NOT_LEADER"} :
       PublishV2(b, prod.msg, prod.part, resp) /\ prod' = [prod EXCEPT !.resp = resp]
  /\ UNCHANGED <<registry, faults, options, stored, lost, late, cons, seen>>

\* A publish that arrives although its sender has given the connection up.
HandleLate(b) ==
  \E r \in late :
    /\ r.to = b /\ late' = late \ {r}
    /\ \E resp \in {"ACK", "BUSY", "UNKNOWN_TOPIC", "UNKNOWN_PARTITION", "NOT_LEADER"} :
         PublishV2(b, r.msg, r.part, resp)
    /\ UNCHANGED <<registry, faults, options, stored, lost, prod, cons, seen>>

\* The I/O thread of the partition's store, on the broker that leads it.
Store(p) ==
  /\ p % NumBrokers \in Brokers /\ up[p % NumBrokers] /\ stored[p] < Len(log[p])
  /\ stored' = [stored EXCEPT ![p] = @ + 1]
  /\ UNCHANGED <<registry, faults, options, log, lost, prod, late, cons, seen>>

\* handle_create_topic for the producer.
HandleCreate(b) ==
  /\ prod.pc = "create_topic" /\ prod.to = b /\ prod.resp = None /\ Serves(b)
  /\ \/ /\ ~Creatable(b, asked) /\ prod' = [prod EXCEPT !.resp = "exists"]
        /\ UNCHANGED <<registry, faults>>
     \/ /\ CreateTopic(b, asked) /\ prod' = [prod EXCEPT !.resp = "creating"]
  /\ UNCHANGED <<options, logs, late, cons, seen>>

\* Somebody else creates the topic, here or on another broker.
OtherCreates(b) ==
  /\ \E n \in 1..MaxParts : CreateTopic(b, n)
  /\ UNCHANGED <<options, logs, prod, late, cons, seen>>

Create(b) ==
  /\ \/ CreateDirectory(b) /\ UNCHANGED prod
     \/ /\ CreateEnd(b)
        /\ prod' = IF prod.to = b /\ prod.resp = "creating" THEN [prod EXCEPT !.resp = "ACK"] ELSE prod
  /\ UNCHANGED <<options, logs, late, cons, seen>>

\* Mutant: records that are only queued are sent to consumers.
ReadableQueued(p) == Len(log[p])

\* Records that fetch returns and next_offset counts.
Readable(p) == stored[p]

\* handle_subscribe: the answer is the offset to fetch from.
Subscribed(b) ==
  LET at == IF cons.offset = Latest THEN Readable(Part) ELSE cons.offset
  IN  CASE Refusal(b, Part) # None -> Answer(Refusal(b, Part), 0, 0)
        [] Refusal(b, Part) = None /\ at > Readable(Part) -> Answer("INVALID_OFFSET", 0, 0)
        [] OTHER -> Answer("ACK", at, 0)

\* handle_fetch of one message: the record, or ACK(0) when there is none.
Fetched(b) ==
  CASE Refusal(b, Part) # None -> Answer(Refusal(b, Part), 0, 0)
    [] Refusal(b, Part) = None /\ cons.offset >= Readable(Part) -> Answer("ACK", 0, 0)
    [] OTHER -> Answer("FETCH_RESPONSE", cons.offset, log[Part][cons.offset + 1])

HandleConsumer(b) ==
  /\ cons.to = b /\ cons.resp = NoAnswer /\ Serves(b)
  /\ \/ cons.pc = "subscribe" /\ cons' = [cons EXCEPT !.resp = Subscribed(b)]
     \/ cons.pc = "fetch" /\ cons' = [cons EXCEPT !.resp = Fetched(b)]
  /\ UNCHANGED <<registry, faults, options, logs, prod, late, seen>>

\* The end of a process.  What is not written is gone, and its clients find their
\* connections closed (one that still reads an answer might as well have read it before).
Crash(b) ==
  /\ Stop(b)
  /\ log' = [p \in Parts |-> IF p % NumBrokers = b THEN SubSeq(log[p], 1, stored[p]) ELSE log[p]]
  /\ lost' = lost \cup UNION {{log[p][i] : i \in (stored[p] + 1)..Len(log[p])} :
                              p \in {q \in Parts : q % NumBrokers = b}}
  /\ prod' = IF prod.pc \in {"create_topic", "publish"} /\ prod.to = b
             THEN [prod EXCEPT !.pc = "meta", !.resp = None] ELSE prod
  /\ cons' = IF cons.pc \in {"subscribe", "fetch"} /\ cons.to = b
             THEN [cons EXCEPT !.pc = "resolve", !.resp = NoAnswer] ELSE cons
  /\ late' = {r \in late : r.to # b}
  /\ UNCHANGED <<options, stored, seen>>

Others == UNCHANGED <<options, logs, prod, late, cons, seen>>

Broker(b) ==
  \/ HandlePublishV2(b) \/ HandleLate(b) \/ HandleCreate(b) \/ OtherCreates(b) \/ Create(b)
  \/ HandleConsumer(b) \/ Crash(b)
  \/ RecoverAll(b) /\ Others
  \/ (\E p \in Parts : Adopt(b, p)) /\ Others

-----------------------------------------------------------------------------
(* The producer *)

Brokerless == UNCHANGED <<registry, options, logs, cons, seen>>

\* Mutant: the attempt is not counted.
RetryUncounted(rr) == prod' = [prod EXCEPT !.rr = rr, !.resp = None, !.pc = "meta"]

\* A failed attempt that counts; the third ends the producer.
Retry(rr) ==
  prod' = [prod EXCEPT !.retries = @ + 1, !.rr = rr, !.resp = None,
                       !.pc = IF prod.retries + 1 < 3 THEN "meta" ELSE "failed"]

\* --create: CREATE_TOPIC goes to the bootstrap broker only.
PCreate ==
  /\ prod.pc = "create"
  /\ \/ up[Bootstrap] /\ prod' = [prod EXCEPT !.pc = "create_topic"] /\ UNCHANGED faults
     \/ ~up[Bootstrap] /\ prod' = [prod EXCEPT !.pc = "failed"] /\ UNCHANGED faults
     \/ up[Bootstrap] /\ Fault /\ prod' = [prod EXCEPT !.pc = "failed"]
  /\ UNCHANGED late /\ Brokerless

\* A topic that already exists will do, whatever it was created with.
PCreated ==
  /\ prod.pc = "create_topic" /\ prod.resp \notin {None, "creating"}
  /\ prod' = [prod EXCEPT !.pc = "meta", !.resp = None]
  /\ UNCHANGED <<late, faults>> /\ Brokerless

\* fetch_metadata and the choice of a partition and its leader, who must be a broker the
\* metadata lists.  rr_counter is kept modulo the number of partitions.
PMeta ==
  LET n == topics[Bootstrap]
      rr == IF key = NoKey THEN (prod.rr + 1) % n ELSE prod.rr
      p == (IF key = NoKey THEN prod.rr ELSE key) % n
      routable == n > 0 /\ Metadata[p] \in Brokers
  IN  /\ prod.pc = "meta"
      /\ \/ ~up[Bootstrap] /\ Retry(prod.rr) /\ UNCHANGED faults
         \/ up[Bootstrap] /\ Fault /\ Retry(prod.rr)
         \/ /\ Serves(Bootstrap) /\ ~routable /\ UNCHANGED faults
            /\ Retry(IF n = 0 THEN prod.rr ELSE rr)
         \/ /\ Serves(Bootstrap) /\ routable /\ UNCHANGED faults
            /\ prod' = [prod EXCEPT !.pc = "connect", !.rr = rr, !.part = p, !.to = Metadata[p]]
      /\ UNCHANGED late /\ Brokerless

PConnect ==
  /\ prod.pc = "connect"
  /\ \/ up[prod.to] /\ prod' = [prod EXCEPT !.pc = "publish"] /\ UNCHANGED faults
     \/ ~up[prod.to] /\ Retry(prod.rr) /\ UNCHANGED faults
     \/ up[prod.to] /\ Fault /\ Retry(prod.rr)
  /\ UNCHANGED late /\ Brokerless

\* Mutant: leaving the inner loop counts as success.
AfterDone(resp) ==
  CASE resp \in {"ACK", "NOT_LEADER"} -> [prod EXCEPT !.resp = None, !.retries = 0, !.msg = @ + 1,
                           !.pc = IF prod.msg < Messages THEN "meta" ELSE "done"]
    [] resp = "BUSY" /\ RetryOnBusy -> [prod EXCEPT !.resp = None]
    [] OTHER -> [prod EXCEPT !.resp = None, !.pc = "failed"]

\* What the producer does with a response: the next message, metadata again, the same
\* request again, or the end.
After(resp) ==
  CASE resp = "ACK" -> [prod EXCEPT !.resp = None, !.retries = 0, !.msg = @ + 1,
                           !.pc = IF prod.msg < Messages THEN "meta" ELSE "done"]
    [] resp = "NOT_LEADER" -> [prod EXCEPT !.resp = None, !.pc = "meta"]
    [] resp = "BUSY" /\ RetryOnBusy -> [prod EXCEPT !.resp = None]
    [] OTHER -> [prod EXCEPT !.resp = None, !.pc = "failed"]

PResponse ==
  /\ prod.pc = "publish" /\ prod.resp # None /\ prod' = After(prod.resp)
  /\ UNCHANGED <<late, faults>> /\ Brokerless

\* A write or read fails.  The request may have been handled, never arrive, or arrive
\* later; a CREATE_TOPIC without an answer counts as done.
PLost ==
  /\ prod.pc \in {"create_topic", "publish"} /\ Fault
  /\ prod' = [prod EXCEPT !.pc = "meta", !.resp = None]
  /\ \/ UNCHANGED late
     \/ /\ prod.pc = "publish" /\ prod.resp = None
        /\ late' = late \cup {[to |-> prod.to, msg |-> prod.msg, part |-> prod.part]}
  /\ Brokerless

Producer == PCreate \/ PCreated \/ PMeta \/ PConnect \/ PResponse \/ PLost

-----------------------------------------------------------------------------
(* The consumer *)

ConsumerOnly == UNCHANGED <<registry, options, logs, prod, late>>

\* connect_to_leader; whatever fails, the consumer sleeps and starts over.
CResolve ==
  /\ UNCHANGED <<seen, faults>>
  /\ \/ /\ cons.pc = "resolve" /\ Serves(Bootstrap) /\ topics[Bootstrap] > Part
        /\ Metadata[Part] \in Brokers
        /\ cons' = [cons EXCEPT !.pc = "connect", !.to = Metadata[Part]]
     \/ /\ cons.pc = "connect"
        /\ cons' = [cons EXCEPT !.pc = IF up[cons.to] THEN "subscribe" ELSE "resolve"]
  /\ ConsumerOnly

CSubscribed ==
  /\ cons.pc = "subscribe" /\ cons.resp # NoAnswer
  /\ cons' = CASE cons.resp.op = "ACK" ->
                    [cons EXCEPT !.pc = "fetch", !.resp = NoAnswer,
                                 !.offset = IF @ = Latest THEN cons.resp.offset ELSE @]
               [] cons.resp.op = "NOT_LEADER" -> [cons EXCEPT !.pc = "resolve", !.resp = NoAnswer]
               [] OTHER -> [cons EXCEPT !.pc = "exit", !.resp = NoAnswer]
  /\ UNCHANGED <<seen, faults>> /\ ConsumerOnly

\* Mutant: the offset of the record is asked for again.
CFetchedStays ==
  /\ cons.pc = "fetch" /\ cons.resp # NoAnswer
  /\ cons' = CASE cons.resp.op \in {"FETCH_RESPONSE", "ACK"} -> [cons EXCEPT !.resp = NoAnswer]
               [] cons.resp.op = "NOT_LEADER" -> [cons EXCEPT !.pc = "resolve", !.resp = NoAnswer]
               [] OTHER -> [cons EXCEPT !.pc = "exit", !.resp = NoAnswer]
  /\ UNCHANGED <<seen, faults>> /\ ConsumerOnly

CFetched ==
  /\ cons.pc = "fetch" /\ cons.resp # NoAnswer
  /\ cons' = CASE cons.resp.op = "FETCH_RESPONSE" ->
                    [cons EXCEPT !.offset = cons.resp.offset + 1, !.resp = NoAnswer]
               [] cons.resp.op = "ACK" -> [cons EXCEPT !.resp = NoAnswer]
               [] cons.resp.op = "NOT_LEADER" -> [cons EXCEPT !.pc = "resolve", !.resp = NoAnswer]
               [] OTHER -> [cons EXCEPT !.pc = "exit", !.resp = NoAnswer]
  /\ seen' = IF cons.resp.op = "FETCH_RESPONSE"
             THEN Append(seen, [offset |-> cons.resp.offset, msg |-> cons.resp.msg]) ELSE seen
  /\ UNCHANGED faults /\ ConsumerOnly

CLost ==
  /\ cons.pc \in {"subscribe", "fetch"} /\ Fault
  /\ cons' = [cons EXCEPT !.pc = "resolve", !.resp = NoAnswer]
  /\ UNCHANGED seen /\ ConsumerOnly

Consumer == CResolve \/ CSubscribed \/ CFetched \/ CLost

Next ==
  \/ Producer \/ Consumer
  \/ (\E b \in Brokers : Broker(b)) \/ (\E p \in Parts : Store(p))

Spec == Init /\ [][Next]_vars

\* Clients, reactors and I/O threads run on; nobody need restart a broker, create a topic
\* in the producer's place, or deliver a publish that was given up.
Fairness ==
  /\ WF_vars(PCreate \/ PCreated \/ PMeta \/ PConnect \/ PResponse)
  /\ WF_vars(CResolve \/ CSubscribed \/ CFetched)
  /\ \A b \in Brokers : /\ WF_vars(HandlePublishV2(b)) /\ WF_vars(HandleCreate(b))
                        /\ WF_vars(Create(b)) /\ WF_vars(HandleConsumer(b))
  /\ \A p \in Parts : WF_vars(Store(p))

FairSpec == Spec /\ Fairness

-----------------------------------------------------------------------------
(* Properties *)

Codes == {None, "ACK", "BUSY", "UNKNOWN_TOPIC", "UNKNOWN_PARTITION", "NOT_LEADER",
          "exists", "creating", "INVALID_OFFSET", "FETCH_RESPONSE"}

ProducerState ==
  [pc : {"create", "create_topic", "meta", "connect", "publish", "done", "failed"},
   msg : 1..(Messages + 1), retries : 0..3, rr : Parts, part : Parts, to : Brokers, resp : Codes]

ConsumerState ==
  [pc : {"resolve", "connect", "subscribe", "fetch", "exit"}, offset : Nat \cup {Latest},
   to : Brokers, resp : [op : Codes, offset : Nat, msg : 0..Messages]]

\* Every variable has its type.
TypeOK ==
  /\ RegistryType /\ key \in Keys /\ asked \in Asked
  /\ log \in [Parts -> Seq(1..Messages)] /\ lost \subseteq 1..Messages
  /\ stored \in [Parts -> Nat] /\ \A p \in Parts : stored[p] <= Len(log[p])
  /\ prod \in ProducerState /\ late \subseteq [to : Brokers, msg : 1..Messages, part : Parts]
  /\ cons \in ConsumerState /\ seen \in Seq([offset : Nat, msg : 1..Messages])

\* Through reconnects, crashes and elections the consumer prints consecutive offsets, what
\* it has printed stays what the partition holds there, and its place stays one that
\* handle_subscribe accepts.
ReadInOrder ==
  /\ \A i \in DOMAIN seen :
       seen[i].offset < stored[Part] /\ seen[i].msg = log[Part][seen[i].offset + 1]
  /\ \A i \in 2..Len(seen) : seen[i].offset = seen[i - 1].offset + 1
  /\ seen # <<>> => cons.offset = seen[Len(seen)].offset + 1

\* A message the producer reports as published is in a partition, at least once, or was
\* accepted and not written when its broker ended.
ReportedIsLogged ==
  \A m \in 1..(prod.msg - 1) :
    m \in lost \/ \E p \in Parts : \E i \in DOMAIN log[p] : log[p][i] = m

\* The partition that a broker puts a key into never changes, through retries with other
\* metadata, an interrupted creation and restarts.
KeyedTogether ==
  key # NoKey =>
    \A p \in Parts : log[p] # <<>> => p = key % dirs[p % NumBrokers]

\* A topic whose creation was acknowledged keeps exactly the partitions asked for.
CreatedComplete ==
  \A b \in Brokers : created[b] > 0 => dirs[b] = created[b] /\ (up[b] => topics[b] = created[b])

\* An election has made a broker name another leader than assign_roles, or brokers have
\* created the topic with different numbers of partitions.
Misled ==
  \E b, c \in Brokers :
    /\ up[b] /\ up[c] /\ topics[b] > 0 /\ topics[c] > 0
    /\ topics[b] # topics[c] \/ \E p \in Parts : p < topics[b] /\ leader_id[b][p] # p % NumBrokers

\* The producer comes to an end, unless it is misled: then it may ask for metadata and be
\* answered NOT_LEADER for ever, which md_retries does not count.
ProducerEnds == <>(prod.pc \in {"done", "failed"} \/ Misled)

\* The consumer reads a record that is written, while the brokers it needs stay up.
ConsumerReads ==
  \A o \in 0..Messages :
    (cons.offset = o /\ stored[Part] > o) ~>
      (cons.offset # o \/ cons.pc = "exit" \/ Misled \/ ~up[Part % NumBrokers] \/ ~up[Bootstrap])

=============================================================================
