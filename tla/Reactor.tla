------------------------------ MODULE Reactor ------------------------------
(***************************************************************************)
(* fell::Broker's event loop with its connections, the queue of deferred   *)
(* responses that other threads fill, and the clients at the other end.    *)
(*                                                                         *)
(* A client stands for one TCP connection.  Requests, frames and responses *)
(* are whole: a request is answered at once ("now": its handler returns    *)
(* the response), by another thread later ("later": a publish with         *)
(* acks=-1), or it is a frame the decoder refuses ("bad").  outbound is    *)
(* the part of OutboundState::data behind write_offset.                    *)
(*                                                                         *)
(* loop.pc is the position of the event loop:                              *)
(*   wait      in poller_->wait                                            *)
(*   swap      about to call drain_response_queue;  drain  in it           *)
(*   dispatch  between two events                                          *)
(*   read      in on_readable;  write  in on_writable                      *)
(*   stale     about to call on_writable for a connection just removed     *)
(*   crashed   the process is gone                                         *)
(***************************************************************************)
EXTENDS Integers, Sequences, FiniteSets, FiniteSetsExt

CONSTANTS
  Clients,
  Fds,            \* descriptors, smallest free one first
  Kinds,          \* the kinds of requests clients send
  HighWater,      \* backpressure threshold (16 MB), in responses
  SocketBuffer,   \* capacity of the kernel's send buffer, in responses
  MaxRequests,    \* bound: requests of all clients
  Wakes,          \* possible values: does a byte sent to the notify pair arrive
  Unreliable      \* clients that may disconnect

ASSUME ReactorAssumption ==
  /\ Fds \subseteq Nat
  /\ Kinds \subseteq {"now", "later", "bad"}
  /\ HighWater \in Nat /\ SocketBuffer \in Nat \ {0} /\ MaxRequests \in Nat
  /\ Wakes \subseteq BOOLEAN /\ Unreliable \subseteq Clients

VARIABLES
  conns,           \* conns_: fd |-> [client, outbound, read_disabled]
  interest,        \* the poller's registration: fd |-> subset of {"read", "write"}
  loop,            \* [pc, fd]: where the event loop is
  events,          \* what wait returned and is not handled yet
  local,           \* drain_response_queue's local queue
  response_queue,  \* response_queue_, under response_mu_
  owed,            \* deferred responses that another thread has still to post
  notifying,       \* posters between the push and the notification
  notify, wakes,   \* a byte is in the notify pair; whether it can get there
  link,            \* each client's connection
  inbound,         \* requests that have arrived and are not read
  sent,            \* requests sent so far
  sockbuf,         \* responses in the kernel on their way to the client
  received         \* responses the client has read

loopVars   == <<loop, events, local>>
postVars   == <<response_queue, owed, notifying, notify, wakes>>
clientVars == <<link, inbound, sent, sockbuf, received>>
vars == <<conns, interest, loopVars, postVars, clientVars>>

Request    == [n : Nat, kind : {"now", "later", "bad"}]
Response   == [client : Clients, n : Nat, deferred : BOOLEAN]
Pending    == [fd : Fds, resp : Response]      \* PendingResponse
Connection == [client : Clients, outbound : Seq(Response), read_disabled : BOOLEAN]
Idle == [pc |-> "wait", fd |-> 0]
Free == Fds \ DOMAIN conns
Without(f, fd) == [x \in DOMAIN f \ {fd} |-> f[x]]

Init ==
  /\ conns = [fd \in {} |-> 0] /\ interest = [fd \in {} |-> {}]
  /\ loop = Idle /\ events = {} /\ local = <<>>
  /\ response_queue = <<>> /\ owed = {} /\ notifying = 0
  /\ notify = FALSE /\ wakes \in Wakes
  /\ link = [c \in Clients |-> "new"]
  /\ inbound = [c \in Clients |-> <<>>] /\ sent = [c \in Clients |-> 0]
  /\ sockbuf = [c \in Clients |-> <<>>] /\ received = [c \in Clients |-> <<>>]

-----------------------------------------------------------------------------
(* The clients and their connections (external) *)

Connect(c) ==
  /\ link[c] = "new"
  /\ link' = [link EXCEPT ![c] = "pending"]
  /\ UNCHANGED <<conns, interest, loopVars, postVars, inbound, sent, sockbuf, received>>

TotalSent == MapThenSumSet(LAMBDA c : sent[c], Clients)

Send(c, k) ==
  /\ link[c] \in {"pending", "open"} /\ TotalSent < MaxRequests
  /\ sent' = [sent EXCEPT ![c] = @ + 1]
  /\ inbound' = [inbound EXCEPT ![c] = Append(@, [n |-> sent[c] + 1, kind |-> k])]
  /\ UNCHANGED <<conns, interest, loopVars, postVars, link, sockbuf, received>>

Receive(c) ==
  /\ sockbuf[c] # <<>>
  /\ received' = [received EXCEPT ![c] = Append(@, Head(sockbuf[c]))]
  /\ sockbuf' = [sockbuf EXCEPT ![c] = Tail(@)]
  /\ UNCHANGED <<conns, interest, loopVars, postVars, link, inbound, sent>>

\* The client has closed its end: the broker reads what is there, then 0.
Close(c) ==
  /\ c \in Unreliable /\ link[c] = "open"
  /\ link' = [link EXCEPT ![c] = "closed"]
  /\ UNCHANGED <<conns, interest, loopVars, postVars, inbound, sent, sockbuf, received>>

\* The connection is reset: the poller reports a hang-up, reads and writes fail.
Reset(c) ==
  /\ c \in Unreliable /\ link[c] \in {"open", "closed"}
  /\ link' = [link EXCEPT ![c] = "reset"]
  /\ UNCHANGED <<conns, interest, loopVars, postVars, inbound, sent, sockbuf, received>>

-----------------------------------------------------------------------------
(* Other threads: post_response *)

PostPush(d) ==
  /\ d \in owed /\ loop.pc # "crashed"
  /\ owed' = owed \ {d}
  /\ response_queue' = Append(response_queue, d)
  /\ notifying' = notifying + 1
  /\ UNCHANGED <<conns, interest, loopVars, notify, wakes, clientVars>>

\* The byte for the notify pair.  On POSIX the pair is a pipe and send() fails
\* on it; on Windows it is a pair of sockets.
PostNotify ==
  /\ notifying > 0 /\ loop.pc # "crashed"
  /\ notifying' = notifying - 1
  /\ notify' = (notify \/ wakes)
  /\ UNCHANGED <<conns, interest, loopVars, response_queue, owed, wakes, clientVars>>

-----------------------------------------------------------------------------
(* The event loop: waiting and deferred responses *)

Readable(c) == inbound[c] # <<>> \/ link[c] \in {"closed", "reset"}
Writable(c) == Len(sockbuf[c]) < SocketBuffer \/ link[c] \in {"closed", "reset"}

\* What the poller reports for a registered descriptor.
Flags(fd) ==
  LET c == conns[fd].client
  IN  {f \in {"read", "write", "hup"} :
         \/ f = "read" /\ f \in interest[fd] /\ Readable(c)
         \/ f = "write" /\ f \in interest[fd] /\ Writable(c)
         \/ f = "hup" /\ link[c] = "reset"}

NotifyEvent == [from |-> "notify", fd |-> 0, flags |-> {}]
AcceptEvent == [from |-> "acceptor", fd |-> 0, flags |-> {}]

Ready ==
  {[from |-> "conn", fd |-> fd, flags |-> Flags(fd)] : fd \in {x \in DOMAIN conns : Flags(x) # {}}}
    \cup (IF notify THEN {NotifyEvent} ELSE {})
    \cup (IF \E c \in Clients : link[c] = "pending" THEN {AcceptEvent} ELSE {})

\* wait returns at the latest after 100 ms, with or without an event.
Wait ==
  /\ loop.pc = "wait"
  /\ loop' = [loop EXCEPT !.pc = "swap"]
  /\ events' = Ready
  /\ UNCHANGED <<conns, interest, local, postVars, clientVars>>

DrainSwap ==
  /\ loop.pc = "swap"
  /\ loop' = [loop EXCEPT !.pc = "drain"]
  /\ local' = response_queue /\ response_queue' = <<>>
  /\ UNCHANGED <<conns, interest, events, owed, notifying, notify, wakes, clientVars>>

\* Mutant: the interest in reading is set whatever read_disabled says.
DrainRereads ==
  /\ loop.pc = "drain" /\ local # <<>>
  /\ local' = Tail(local)
  /\ LET fd == Head(local).fd
     IN  IF fd \in DOMAIN conns
         THEN /\ conns' = [conns EXCEPT ![fd].outbound = Append(@, Head(local).resp)]
              /\ interest' = [interest EXCEPT ![fd] = {"read", "write"}]
         ELSE UNCHANGED <<conns, interest>>
  /\ UNCHANGED <<loop, events, postVars, clientVars>>

\* Mutant: the poller is not told.
DrainUnpolled ==
  /\ loop.pc = "drain" /\ local # <<>>
  /\ local' = Tail(local)
  /\ LET fd == Head(local).fd
     IN  conns' = IF fd \in DOMAIN conns
                  THEN [conns EXCEPT ![fd].outbound = Append(@, Head(local).resp)] ELSE conns
  /\ UNCHANGED <<interest, loop, events, postVars, clientVars>>

\* One response of the local queue: dropped if its descriptor has no connection.
DrainResponse ==
  /\ loop.pc = "drain" /\ local # <<>>
  /\ local' = Tail(local)
  /\ LET fd == Head(local).fd
     IN  IF fd \in DOMAIN conns
         THEN /\ conns' = [conns EXCEPT ![fd].outbound = Append(@, Head(local).resp)]
              /\ interest' = [interest EXCEPT ![fd] =
                                {"write"} \cup (IF conns[fd].read_disabled THEN {} ELSE {"read"})]
         ELSE UNCHANGED <<conns, interest>>
  /\ UNCHANGED <<loop, events, postVars, clientVars>>

DrainDone ==
  /\ loop.pc = "drain" /\ local = <<>>
  /\ loop' = [loop EXCEPT !.pc = "dispatch"]
  /\ UNCHANGED <<conns, interest, events, local, postVars, clientVars>>

-----------------------------------------------------------------------------
(* The event loop: dispatch *)

NextTurn ==
  /\ loop.pc = "dispatch" /\ events = {}
  /\ loop' = Idle
  /\ UNCHANGED <<conns, interest, events, local, postVars, clientVars>>

ReadNotify ==
  /\ loop.pc = "dispatch"
  /\ NotifyEvent \in events /\ events' = events \ {NotifyEvent}
  /\ notify' = FALSE
  /\ UNCHANGED <<conns, interest, loop, local, response_queue, owed, notifying, wakes, clientVars>>

\* One turn of accept_all: ConnectionManager::add with a new ConnectionState.
Accept(c) ==
  /\ loop.pc = "dispatch" /\ AcceptEvent \in events
  /\ link[c] = "pending"
  /\ \E fd \in Free :
       /\ \A x \in Free : fd <= x
       /\ conns' = [x \in DOMAIN conns \cup {fd} |->
                      IF x = fd THEN [client |-> c, outbound |-> <<>>, read_disabled |-> FALSE]
                      ELSE conns[x]]
       /\ interest' = [x \in DOMAIN interest \cup {fd} |->
                         IF x = fd THEN {"read"} ELSE interest[x]]
  /\ link' = [link EXCEPT ![c] = "open"]
  /\ UNCHANGED <<loopVars, postVars, inbound, sent, sockbuf, received>>

\* accept() has no more connections, or no descriptor for one.
AcceptDone ==
  /\ loop.pc = "dispatch"
  /\ Free = {} \/ \A c \in Clients : link[c] # "pending"
  /\ AcceptEvent \in events /\ events' = events \ {AcceptEvent}
  /\ UNCHANGED <<conns, interest, loop, local, postVars, clientVars>>

\* on_hangup: ConnectionManager::remove.
Hangup(fd) ==
  /\ conns' = Without(conns, fd)
  /\ interest' = Without(interest, fd)
  /\ link' = [link EXCEPT ![conns[fd].client] = "gone"]
  /\ sockbuf' = [sockbuf EXCEPT ![conns[fd].client] = <<>>]

\* The next event of a connection: hang-up, or read first and then write.
Dispatch ==
  /\ loop.pc = "dispatch"
  /\ \E e \in events :
       /\ e.from = "conn"
       /\ IF "hup" \in e.flags
          THEN /\ Hangup(e.fd)
               /\ events' = events \ {e}
               /\ UNCHANGED loop
          ELSE /\ loop' = [pc |-> IF "read" \in e.flags THEN "read" ELSE "write", fd |-> e.fd]
               /\ events' = events
               /\ UNCHANGED <<conns, interest, link, sockbuf>>
  /\ UNCHANGED <<local, postVars, inbound, sent, received>>

\* The event being handled, and whether its write part is still to come.
Current == CHOOSE e \in events : e.from = "conn" /\ e.fd = loop.fd
EventDone == events' = events \ {Current} /\ loop' = [pc |-> "dispatch", fd |-> 0]

\* The connection was removed inside on_readable.
HangupInRead ==
  /\ Hangup(loop.fd)
  /\ IF "write" \in Current.flags
     THEN loop' = [loop EXCEPT !.pc = "stale"] /\ UNCHANGED events
     ELSE EventDone

-----------------------------------------------------------------------------
(* The event loop: on_readable *)

\* The connection after a response was appended to it and the backpressure test.
Backpressured(conn) ==
  [conn EXCEPT !.read_disabled = @ \/ Len(conn.outbound) > HighWater]

\* One good frame: its response goes to outbound or is left to another thread.
\* A recv with several frames has the effect of one recv for each of them,
\* because outbound only grows and the interest is the one set last.
ReadRequest ==
  /\ loop.pc = "read"
  /\ LET fd   == loop.fd
         conn == conns[fd]
         c    == conn.client
         req  == Head(inbound[c])
         resp == [client |-> c, n |-> req.n, deferred |-> req.kind = "later"]
         new  == Backpressured(IF req.kind = "now"
                               THEN [conn EXCEPT !.outbound = Append(@, resp)] ELSE conn)
     IN  /\ inbound[c] # <<>> /\ req.kind # "bad"
         /\ inbound' = [inbound EXCEPT ![c] = Tail(@)]
         /\ owed' = IF req.kind = "later" THEN owed \cup {[fd |-> fd, resp |-> resp]} ELSE owed
         /\ conns' = [conns EXCEPT ![fd] = new]
         /\ interest' = [interest EXCEPT ![fd] =
              IF new.read_disabled /\ ~conn.read_disabled THEN {"write"}
              ELSE IF req.kind = "now"
              THEN {"write"} \cup (IF conn.read_disabled THEN {} ELSE {"read"})
              ELSE @]
  /\ UNCHANGED <<loopVars, response_queue, notifying, notify, wakes, link, sent, sockbuf, received>>

\* A frame the decoder refuses: the connection is closed, and the good frames
\* that came with the same recv are not handled.
ReadBadFrame ==
  /\ loop.pc = "read"
  /\ LET c == conns[loop.fd].client
     IN  \E j \in DOMAIN inbound[c] :
           /\ inbound[c][j].kind = "bad"
           /\ inbound' = [inbound EXCEPT ![c] = SubSeq(@, j + 1, Len(@))]
  /\ HangupInRead
  /\ UNCHANGED <<local, postVars, sent, received>>

\* recv returns 0 or an error.
ReadEnd ==
  /\ loop.pc = "read"
  /\ LET c == conns[loop.fd].client
     IN  link[c] = "reset" \/ (inbound[c] = <<>> /\ link[c] = "closed")
  /\ HangupInRead
  /\ UNCHANGED <<local, postVars, inbound, sent, received>>

\* recv would block.
ReadBlocked ==
  /\ loop.pc = "read"
  /\ LET c == conns[loop.fd].client
     IN  inbound[c] = <<>> /\ link[c] = "open"
  /\ IF "write" \in Current.flags
     THEN loop' = [loop EXCEPT !.pc = "write"] /\ UNCHANGED events
     ELSE EventDone
  /\ UNCHANGED <<conns, interest, local, postVars, clientVars>>

\* on_writable through a dangling reference: the freed memory is intact and the
\* send fails on the closed descriptor, or the process dies.
WriteStale ==
  /\ loop.pc = "stale"
  /\ \/ EventDone
     \/ loop' = [loop EXCEPT !.pc = "crashed"] /\ UNCHANGED events
  /\ UNCHANGED <<conns, interest, local, postVars, clientVars>>

-----------------------------------------------------------------------------
(* The event loop: on_writable *)

\* Mutant: a partial send is taken for a whole one.
SentAll(fd, k) ==
  /\ conns' = [conns EXCEPT ![fd].outbound = <<>>, ![fd].read_disabled = FALSE]
  /\ interest' = [interest EXCEPT ![fd] = {"read"}]

\* Mutant: write_offset is not advanced by a partial send.
SentAgain(fd, k) ==
  LET rest == IF k < Len(conns[fd].outbound) THEN conns[fd].outbound ELSE <<>>
  IN  /\ conns' = [conns EXCEPT ![fd].outbound = rest,
                                ![fd].read_disabled = @ /\ rest # <<>>]
      /\ interest' = [interest EXCEPT ![fd] = IF rest = <<>> THEN {"read"} ELSE @]

\* Mutant: read_disabled is not reset.
SentStaysDisabled(fd, k) ==
  LET rest == SubSeq(conns[fd].outbound, k + 1, Len(conns[fd].outbound))
  IN  /\ conns' = [conns EXCEPT ![fd].outbound = rest]
      /\ interest' = [interest EXCEPT ![fd] = IF rest = <<>> THEN {"read"} ELSE @]

\* send takes k responses; a drained connection is read again.
Sent(fd, k) ==
  LET out  == conns[fd].outbound
      rest == SubSeq(out, k + 1, Len(out))
  IN  /\ conns' = [conns EXCEPT ![fd].outbound = rest,
                                ![fd].read_disabled = @ /\ rest # <<>>]
      /\ interest' = [interest EXCEPT ![fd] = IF rest = <<>> THEN {"read"} ELSE @]

WriteSome ==
  /\ loop.pc = "write"
  /\ LET c   == conns[loop.fd].client
         out == conns[loop.fd].outbound
     IN  \E k \in 0..Len(out) :
           /\ k = 0 => out = <<>> \/ Len(sockbuf[c]) >= SocketBuffer
           /\ link[c] = "open" => Len(sockbuf[c]) + k <= SocketBuffer
           /\ link[c] # "reset" \/ out = <<>>
           /\ sockbuf' = IF link[c] = "open"
                         THEN [sockbuf EXCEPT ![c] = @ \o SubSeq(out, 1, k)] ELSE sockbuf
           /\ Sent(loop.fd, k)
  /\ EventDone
  /\ UNCHANGED <<local, postVars, link, inbound, sent, received>>

\* send fails: close the connection; on POSIX SIGPIPE may end the process.
WriteFails ==
  /\ loop.pc = "write"
  /\ conns[loop.fd].outbound # <<>>
  /\ link[conns[loop.fd].client] \in {"closed", "reset"}
  /\ \/ Hangup(loop.fd) /\ EventDone
     \/ /\ loop' = [loop EXCEPT !.pc = "crashed"]
        /\ UNCHANGED <<conns, interest, events, link, sockbuf>>
  /\ UNCHANGED <<local, postVars, inbound, sent, received>>

-----------------------------------------------------------------------------
LoopStep ==
  \/ Wait \/ DrainSwap \/ DrainResponse \/ DrainDone \/ NextTurn
  \/ ReadNotify \/ AcceptDone \/ (\E c \in Clients : Accept(c))
  \/ Dispatch \/ ReadRequest \/ ReadBadFrame \/ ReadEnd \/ ReadBlocked
  \/ WriteStale \/ WriteSome \/ WriteFails

PosterStep == PostNotify \/ \E d \in owed : PostPush(d)

ClientStep ==
  \E c \in Clients : Connect(c) \/ Receive(c) \/ Close(c) \/ Reset(c) \/ \E k \in Kinds : Send(c, k)

Next == LoopStep \/ PosterStep \/ ClientStep

Spec == Init /\ [][Next]_vars

\* The loop and the posters run, and a client reads what reaches it; no client
\* is obliged to send, and none is prevented from leaving.
FairSpec == Spec /\ WF_vars(LoopStep) /\ WF_vars(PosterStep)
                 /\ \A c \in Clients : WF_vars(Receive(c))

-----------------------------------------------------------------------------
(* Properties *)

ConnType ==
  /\ DOMAIN conns \subseteq Fds
  /\ conns \in [DOMAIN conns -> Connection]
  /\ interest \in [DOMAIN conns -> SUBSET {"read", "write"}]

LoopType ==
  /\ loop \in [pc : {"wait", "swap", "drain", "dispatch", "read", "write", "stale", "crashed"},
               fd : Fds \cup {0}]
  /\ loop.pc \in {"read", "write"} => loop.fd \in DOMAIN conns
  /\ events \subseteq [from : {"conn", "notify", "acceptor"}, fd : Fds \cup {0},
                       flags : SUBSET {"read", "write", "hup"}]

PostType ==
  /\ local \in Seq(Pending) /\ response_queue \in Seq(Pending) /\ owed \subseteq Pending
  /\ notifying \in Nat

ClientType ==
  /\ link \in [Clients -> {"new", "pending", "open", "closed", "reset", "gone"}]
  /\ inbound \in [Clients -> Seq(Request)] /\ sent \in [Clients -> Nat]
  /\ sockbuf \in [Clients -> Seq(Response)] /\ received \in [Clients -> Seq(Response)]

\* Every variable has its type; conns_ and the poller know the same
\* descriptors, and the loop works on one of them.
TypeOK ==
  /\ ConnType /\ LoopType /\ PostType /\ ClientType
  /\ notify \in BOOLEAN /\ wakes \in BOOLEAN

\* What the poller watches is what the connection needs: it waits for room
\* exactly while there is something to send, and for requests exactly unless
\* backpressure holds them back, which it does only while there is something to
\* send.  Otherwise a response or a client would be forgotten for good.
InterestExact ==
  \A fd \in DOMAIN conns :
    /\ "write" \in interest[fd] <=> conns[fd].outbound # <<>>
    /\ "read" \in interest[fd] <=> ~conns[fd].read_disabled
    /\ conns[fd].read_disabled => conns[fd].outbound # <<>>

\* The events still to be handled: at most one for a descriptor, and only for
\* connections that exist, except the one removed while its event is handled.
EventsInv ==
  /\ \A e \in events : e.from = "conn" =>
       e.fd \in DOMAIN conns \/ (loop.pc \in {"stale", "crashed"} /\ e.fd = loop.fd)
  /\ \A e, f \in events : e.from = "conn" /\ f.from = "conn" /\ e.fd = f.fd => e = f
  /\ loop.pc \in {"read", "write", "stale"} => \E e \in events : e.from = "conn" /\ e.fd = loop.fd

\* The inductive invariant.
ReactorInv == TypeOK /\ EventsInv /\ InterestExact

Connected(c) == link[c] = "open" /\ \E fd \in DOMAIN conns : conns[fd].client = c
FdOf(c) == CHOOSE fd \in DOMAIN conns : conns[fd].client = c
Handled(c) == sent[c] - Len(inbound[c])

Occurrences(seq, c, n) == Cardinality({i \in DOMAIN seq : seq[i].client = c /\ seq[i].n = n})
Queued(seq, c, n) ==
  Cardinality({i \in DOMAIN seq : seq[i].resp.client = c /\ seq[i].resp.n = n})

\* Every request that was read from a connection that still exists has exactly
\* one response, which is in exactly one place on its way to that client; the
\* event loop, the posting threads and partial sends neither lose nor repeat it.
AnsweredOnce ==
  \A c \in Clients : Connected(c) => \A n \in 1..Handled(c) :
    Cardinality({d \in owed : d.resp.client = c /\ d.resp.n = n})
      + Queued(response_queue, c, n) + Queued(local, c, n)
      + Occurrences(conns[FdOf(c)].outbound, c, n)
      + Occurrences(sockbuf[c], c, n) + Occurrences(received[c], c, n) = 1

\* Responses that handlers return reach the client in the order of its requests.
ImmediateInOrder ==
  \A c \in Clients : Connected(c) =>
    LET all == received[c] \o sockbuf[c] \o conns[FdOf(c)].outbound
    IN  \A i, j \in DOMAIN all :
          i < j /\ all[i].client = c /\ all[j].client = c /\ ~all[i].deferred /\ ~all[j].deferred
            => all[i].n < all[j].n

\* Under fair threads a request that was read is answered, deferred or not, and
\* whether or not the notification arrives, unless the client leaves.
EventuallyAnswered ==
  \A c \in Clients : \A n \in 1..MaxRequests :
    (Connected(c) /\ Handled(c) >= n)
      ~> (\/ Occurrences(received[c], c, n) = 1
          \/ link[c] # "open" \/ loop.pc = "crashed")

\* Backpressure ends: on_writable drains the buffer of a client that reads, and
\* the client is read again, although deferred responses keep arriving.
ReadAgain ==
  \A fd \in Fds :
    (fd \in DOMAIN conns /\ conns[fd].read_disabled)
      ~> (fd \notin DOMAIN conns \/ ~conns[fd].read_disabled \/ loop.pc = "crashed")

=============================================================================
