---------------------------- MODULE ReactorProofs ----------------------------
(***************************************************************************)
(* Proofs about Reactor, for any number of clients, descriptors and         *)
(* requests and any thresholds.  ReactorInv is an inductive invariant and   *)
(* gives InterestExact.  FlowInv, inductive together with it, says where a  *)
(* response is between its handler and its client; it gives AnsweredOnce    *)
(* and ImmediateInOrder.                                                    *)
(***************************************************************************)
EXTENDS Reactor, FiniteSetTheorems, TLAPS

\* What is left of a sequence when k elements are taken from its front.
LEMMA RestFacts ==
  ASSUME NEW S, NEW s \in Seq(S), NEW k \in 0..Len(s)
  PROVE  /\ SubSeq(s, k + 1, Len(s)) \in Seq(S)
         /\ SubSeq(s, 1, k) \in Seq(S)
         /\ SubSeq(s, k + 1, Len(s)) # <<>> => s # <<>>
OBVIOUS

\* The parts of a non-empty sequence.
LEMMA HeadTailFacts ==
  ASSUME NEW S, NEW s \in Seq(S), s # <<>>
  PROVE  Head(s) \in S /\ Tail(s) \in Seq(S)
OBVIOUS

\* Concatenation and Append, element by element.
LEMMA ConcatFacts ==
  ASSUME NEW S, NEW s \in Seq(S), NEW t \in Seq(S)
  PROVE  /\ s \o t \in Seq(S) /\ Len(s \o t) = Len(s) + Len(t)
         /\ \A i \in 1..Len(s) : (s \o t)[i] = s[i]
         /\ \A i \in 1..Len(t) : (s \o t)[Len(s) + i] = t[i]
OBVIOUS

\* A response appended to the last of three queues is appended to their line.
LEMMA LineAppend ==
  ASSUME NEW S, NEW s \in Seq(S), NEW t \in Seq(S), NEW e \in S
  PROVE  s \o Append(t, e) = Append(s \o t, e)
OBVIOUS

\* Moving the first element of t to the end of s keeps the line.
LEMMA LineReceive ==
  ASSUME NEW S, NEW s \in Seq(S), NEW t \in Seq(S), t # <<>>
  PROVE  Append(s, Head(t)) \o Tail(t) = s \o t
OBVIOUS

\* The same for the responses of a client.
LEMMA ResponseReceived ==
  ASSUME NEW s \in Seq(Response), NEW t \in Seq(Response), t # <<>>
  PROVE  Append(s, Head(t)) \o Tail(t) = s \o t
  BY LineReceive

\* What is left behind the first k elements.
LEMMA DropFacts ==
  ASSUME NEW S, NEW s \in Seq(S), NEW k \in 1..Len(s)
  PROVE  /\ Len(SubSeq(s, k + 1, Len(s))) = Len(s) - k
         /\ \A i \in 1..(Len(s) - k) : SubSeq(s, k + 1, Len(s))[i] = s[k + i]
OBVIOUS

\* The first element is dropped.
LEMMA TailFacts ==
  ASSUME NEW S, NEW s \in Seq(S), s # <<>>
  PROVE  Tail(s) = SubSeq(s, 1 + 1, Len(s))
OBVIOUS

\* Sequences with the same elements are equal.
LEMMA EqualSeqs ==
  ASSUME NEW S, NEW s \in Seq(S), NEW t \in Seq(S), Len(s) = Len(t),
         \A i \in 1..Len(t) : s[i] = t[i]
  PROVE  s = t
OBVIOUS

\* A sequence is its first k elements and the others.
LEMMA JoinFacts ==
  ASSUME NEW S, NEW s \in Seq(S), NEW k \in 0..Len(s), NEW a \in Seq(S), NEW b \in Seq(S),
         Len(a) = k, Len(b) = Len(s) - k,
         \A i \in 1..k : a[i] = s[i], \A i \in 1..(Len(s) - k) : b[i] = s[k + i]
  PROVE  a \o b = s
<1>1. /\ a \o b \in Seq(S) /\ Len(a \o b) = Len(a) + Len(b)
      /\ \A i \in 1..Len(a) : (a \o b)[i] = a[i]
      /\ \A i \in 1..Len(b) : (a \o b)[Len(a) + i] = b[i]
  BY ConcatFacts
<1>2. Len(s) \in Nat /\ k \in Nat /\ k <= Len(s)
  OBVIOUS
<1>3. Len(a \o b) = Len(s)
  <2>1. Len(a \o b) = k + (Len(s) - k)
    BY <1>1, Zenon
  <2>2. k + (Len(s) - k) = Len(s)
    BY <1>2
  <2> QED
    BY <2>1, <2>2, Zenon
<1>4. ASSUME NEW i \in 1..Len(s) PROVE (a \o b)[i] = s[i]
  <2>1. CASE i <= k
    BY <1>1, <1>2, <2>1
  <2>2. CASE i > k
    <3>1. i - k \in 1..(Len(s) - k) /\ k + (i - k) = i
      BY <1>2, <2>2
    <3>2. (a \o b)[k + (i - k)] = b[i - k] /\ b[i - k] = s[k + (i - k)]
      BY <1>1, <3>1, Zenon
    <3> QED
      BY <3>1, <3>2, Zenon
  <2> QED
    BY <1>2, <2>1, <2>2
<1> QED
  BY <1>1, <1>3, <1>4, EqualSeqs, Zenon

\* A sequence is its first elements followed by the rest.
LEMMA SplitFacts ==
  ASSUME NEW S, NEW s \in Seq(S), NEW k \in 0..Len(s)
  PROVE  /\ SubSeq(s, 1, k) \in Seq(S) /\ SubSeq(s, k + 1, Len(s)) \in Seq(S)
         /\ SubSeq(s, 1, k) \o SubSeq(s, k + 1, Len(s)) = s
<1>1. /\ SubSeq(s, 1, k) \in Seq(S) /\ Len(SubSeq(s, 1, k)) = k
      /\ \A i \in 1..k : SubSeq(s, 1, k)[i] = s[i]
  OBVIOUS
<1>2. /\ SubSeq(s, k + 1, Len(s)) \in Seq(S) /\ Len(SubSeq(s, k + 1, Len(s))) = Len(s) - k
      /\ \A i \in 1..(Len(s) - k) : SubSeq(s, k + 1, Len(s))[i] = s[k + i]
  OBVIOUS
<1> QED
  BY <1>1, <1>2, JoinFacts, Zenon

\* Three lines may be put together from either end.
Assoc(s, t, o) == (s \o t) \o o = s \o (t \o o)

\* Responses of any three lines keep their order, however the lines are joined.
LEMMA LineAssoc ==
  ASSUME NEW s \in Seq(Response), NEW t \in Seq(Response), NEW o \in Seq(Response)
  PROVE  Assoc(s, t, o)
BY DEF Assoc

\* The first k elements of o moved forward in a line.
LEMMA LineSend ==
  ASSUME NEW s \in Seq(Response), NEW t \in Seq(Response), NEW o \in Seq(Response), NEW k \in 0..Len(o)
  PROVE  (s \o (t \o SubSeq(o, 1, k))) \o SubSeq(o, k + 1, Len(o)) = (s \o t) \o o
<1>0. /\ SubSeq(o, 1, k) \in Seq(Response) /\ SubSeq(o, k + 1, Len(o)) \in Seq(Response)
      /\ SubSeq(o, 1, k) \o SubSeq(o, k + 1, Len(o)) = o
  BY SplitFacts, Zenon
<1>1. PICK a \in Seq(Response), b \in Seq(Response) :
        a = SubSeq(o, 1, k) /\ b = SubSeq(o, k + 1, Len(o)) /\ a \o b = o
  BY <1>0, Zenon
<1>2. t \o a \in Seq(Response)
  OBVIOUS
<1>3. PICK u \in Seq(Response) : u = t \o a
  BY <1>2, Zenon
<1>4. Assoc(s, u, b) /\ Assoc(s, t, o) /\ Assoc(t, a, b)
  BY LineAssoc, Zenon
<1>5. (s \o u) \o b = (s \o t) \o o
  BY <1>1, <1>3, <1>4, Zenon DEF Assoc
<1> QED
  BY <1>1, <1>3, <1>5, Zenon

-----------------------------------------------------------------------------
(* Counting the elements of a sequence that lie in a set E *)

Hits(s, E) == Cardinality({i \in DOMAIN s : s[i] \in E})

\* The places counted are finitely many.
LEMMA HitsType ==
  ASSUME NEW S, NEW s \in Seq(S), NEW E
  PROVE  /\ IsFiniteSet({i \in DOMAIN s : s[i] \in E})
         /\ Hits(s, E) \in Nat
<1>1. IsFiniteSet(1..Len(s))
  BY FS_Interval
<1>2. {i \in DOMAIN s : s[i] \in E} \in SUBSET (1..Len(s))
  OBVIOUS
<1>3. IsFiniteSet({i \in DOMAIN s : s[i] \in E})
  BY <1>1, <1>2, FS_Subset
<1> QED
  BY <1>3, FS_CardinalityType DEF Hits

\* Nothing is counted in an empty sequence.
LEMMA HitsEmpty ==
  ASSUME NEW E PROVE Hits(<<>>, E) = 0
BY FS_EmptySet DEF Hits

\* Moving every place by d keeps their number.
LEMMA ShiftCard ==
  ASSUME NEW A, IsFiniteSet(A), A \subseteq Int, NEW d \in Int, NEW B,
         B = {i + d : i \in A}
  PROVE  IsFiniteSet(B) /\ Cardinality(B) = Cardinality(A)
<1> DEFINE f == [i \in A |-> i + d]
<1>1. f \in Bijection(A, B)
  BY DEF Bijection, Injection, Surjection, IsInjective
<1>2. ExistsBijection(A, B)
  BY <1>1 DEF ExistsBijection
<1> QED
  BY <1>2, FS_Bijection

\* The count of a concatenation.
LEMMA HitsConcat ==
  ASSUME NEW S, NEW s \in Seq(S), NEW t \in Seq(S), NEW E
  PROVE  Hits(s \o t, E) = Hits(s, E) + Hits(t, E)
<1> DEFINE A == {i \in DOMAIN s : s[i] \in E}
           B == {i \in DOMAIN t : t[i] \in E}
           C == {i + Len(s) : i \in B}
           D == {i \in DOMAIN (s \o t) : (s \o t)[i] \in E}
<1>1. IsFiniteSet(A) /\ IsFiniteSet(B) /\ Cardinality(A) \in Nat /\ Cardinality(B) \in Nat
  BY HitsType, Zenon DEF Hits
<1>2. B \subseteq Int /\ Len(s) \in Int
  OBVIOUS
<1>3. IsFiniteSet(C) /\ Cardinality(C) = Cardinality(B)
  BY <1>1, <1>2, ShiftCard, ZenonT(30)
<1>4. A \cap C = {}
  OBVIOUS
<1>5. D = A \cup C
  <2>1. ASSUME NEW i \in D PROVE i \in A \cup C
    <3>1. i \in 1..(Len(s) + Len(t)) /\ (s \o t)[i] \in E
      BY ConcatFacts
    <3>2. CASE i <= Len(s)
      BY <3>1, <3>2, ConcatFacts
    <3>3. CASE i > Len(s)
      <4>1. i - Len(s) \in 1..Len(t) /\ i = (i - Len(s)) + Len(s)
        BY <3>1, <3>3
      <4>2. t[i - Len(s)] \in E
        BY <3>1, <4>1, ConcatFacts
      <4> QED
        BY <4>1, <4>2
    <3> QED
      BY <3>1, <3>2, <3>3
  <2>2. A \cup C \subseteq D
    BY ConcatFacts
  <2> QED
    BY <2>1, <2>2
<1>6. Cardinality(A \cup C) = Cardinality(A) + Cardinality(C) - Cardinality(A \cap C)
  BY <1>1, <1>3, FS_Union, Zenon
<1>7. Cardinality(A \cap C) = 0
  BY <1>4, FS_EmptySet, Zenon
<1>8. Cardinality(D) = Cardinality(A) + Cardinality(B)
  <2> HIDE DEF A, B, C, D
  <2> QED
    BY <1>1, <1>3, <1>5, <1>6, <1>7
<1> QED
  BY <1>8, Zenon DEF Hits

\* One more element.
LEMMA HitsAppend ==
  ASSUME NEW S, NEW s \in Seq(S), NEW e \in S, NEW E
  PROVE  Hits(Append(s, e), E) = Hits(s, E) + (IF e \in E THEN 1 ELSE 0)
<1> DEFINE A == {i \in DOMAIN s : s[i] \in E}
           D == {i \in DOMAIN Append(s, e) : Append(s, e)[i] \in E}
<1>1. IsFiniteSet(A) /\ Cardinality(A) \in Nat
  BY HitsType, Zenon DEF Hits
<1>2. Len(s) + 1 \notin A
  OBVIOUS
<1>3. CASE e \in E
  <2>1. D = A \cup {Len(s) + 1}
    BY <1>3
  <2>2. Cardinality(A \cup {Len(s) + 1}) = Cardinality(A) + 1
    BY <1>1, <1>2, FS_AddElement, Zenon
  <2> QED
    BY <1>3, <2>1, <2>2, Zenon DEF Hits
<1>4. CASE e \notin E
  <2>1. D = A
    BY <1>4
  <2>2. Hits(Append(s, e), E) = Hits(s, E)
    BY <2>1, Zenon DEF Hits
  <2> QED
    BY <1>1, <1>4, <2>2, HitsType
<1> QED
  BY <1>3, <1>4

\* The first element and the others.
LEMMA HitsHead ==
  ASSUME NEW S, NEW s \in Seq(S), s # <<>>, NEW E
  PROVE  Hits(s, E) = (IF Head(s) \in E THEN 1 ELSE 0) + Hits(Tail(s), E)
<1>1. <<>> \in Seq(S) /\ Head(s) \in S /\ Tail(s) \in Seq(S)
  OBVIOUS
<1>2. Append(<<>>, Head(s)) \in Seq(S)
  BY <1>1
<1>3. s = Append(<<>>, Head(s)) \o Tail(s)
  OBVIOUS
<1>4. Hits(Append(<<>>, Head(s)), E) = Hits(<<>>, E) + (IF Head(s) \in E THEN 1 ELSE 0)
  BY <1>1, HitsAppend, Zenon
<1>6. Hits(Append(<<>>, Head(s)) \o Tail(s), E) = Hits(Append(<<>>, Head(s)), E) + Hits(Tail(s), E)
  BY <1>1, <1>2, HitsConcat, Zenon
<1>5. Hits(s, E) = Hits(Append(<<>>, Head(s)), E) + Hits(Tail(s), E)
  BY <1>3, <1>6, Zenon
<1> QED
  BY <1>4, <1>5, HitsEmpty

-----------------------------------------------------------------------------
(* ReactorInv *)

\* on_hangup of a registered descriptor keeps the types and the interest of the
\* other connections.
LEMMA HangupInv ==
  ASSUME TypeOK, InterestExact, NEW fd \in DOMAIN conns, Hangup(fd)
  PROVE  /\ DOMAIN conns' = DOMAIN conns \ {fd}
         /\ conns' \in [DOMAIN conns' -> Connection]
         /\ interest' \in [DOMAIN conns' -> SUBSET {"read", "write"}]
         /\ link' \in [Clients -> {"new", "pending", "open", "closed", "reset", "gone"}]
         /\ sockbuf' \in [Clients -> Seq(Response)]
         /\ InterestExact'
<1>1. conns[fd].client \in Clients
  BY DEF TypeOK, ConnType, Connection
<1>2. /\ DOMAIN conns' = DOMAIN conns \ {fd}
      /\ \A x \in DOMAIN conns' : conns'[x] = conns[x] /\ interest'[x] = interest[x]
      /\ conns' \in [DOMAIN conns' -> Connection]
      /\ interest' \in [DOMAIN conns' -> SUBSET {"read", "write"}]
  BY DEF TypeOK, ConnType, Hangup, Without
<1>3. InterestExact'
  BY <1>2 DEF InterestExact
<1>4. link' \in [Clients -> {"new", "pending", "open", "closed", "reset", "gone"}]
  BY ZenonT(30) DEF TypeOK, ClientType, Hangup
<1>5. sockbuf' \in [Clients -> Seq(Response)]
  <2>1. <<>> \in Seq(Response)
    OBVIOUS
  <2> QED
    BY <1>1, <2>1 DEF TypeOK, ClientType, Hangup
<1> QED
  BY <1>2, <1>3, <1>4, <1>5

\* The event that on_readable or on_writable is called for.
LEMMA CurrentFacts ==
  ASSUME TypeOK, EventsInv, loop.pc \in {"read", "write", "stale"}
  PROVE  /\ Current \in events /\ Current.from = "conn" /\ Current.fd = loop.fd
         /\ \A e \in events \ {Current} : e.from = "conn" => e.fd # loop.fd
<1>1. PICK e \in events : e.from = "conn" /\ e.fd = loop.fd
  BY DEF EventsInv
<1>2. Current \in events /\ Current.from = "conn" /\ Current.fd = loop.fd
  BY <1>1 DEF Current
<1> QED
  BY <1>2 DEF EventsInv

\* Finishing an event whose connection is removed or kept.
LEMMA EventDoneInv ==
  ASSUME TypeOK, EventsInv, loop.pc \in {"read", "write", "stale"}, EventDone,
         DOMAIN conns \ {loop.fd} \subseteq DOMAIN conns'
  PROVE  /\ EventsInv'
         /\ loop' = [pc |-> "dispatch", fd |-> 0]
         /\ events' \subseteq events
<1>1. loop' = [pc |-> "dispatch", fd |-> 0] /\ events' = events \ {Current}
  BY DEF EventDone
<1>2. \A e \in events' : e \in events /\ (e.from = "conn" => e.fd # loop.fd)
  BY <1>1, CurrentFacts
<1>3. \A e \in events' : e.from = "conn" => e.fd \in DOMAIN conns'
  BY <1>2 DEF EventsInv
<1>4. loop'.pc = "dispatch"
  BY <1>1
<1> QED
  BY <1>1, <1>2, <1>3, <1>4 DEF EventsInv

\* The initial state.
LEMMA InitInv == Init => ReactorInv
<1> SUFFICES ASSUME Init PROVE ReactorInv
  OBVIOUS
<1>1. TypeOK
  <2>1. ConnType /\ LoopType
    BY Zenon DEF Init, ConnType, LoopType, Idle
  <2>2. PostType
    BY DEF Init, PostType
  <2>3. ClientType
    BY DEF Init, ClientType
  <2>4. notify \in BOOLEAN /\ wakes \in BOOLEAN
    BY ReactorAssumption, ZenonT(30) DEF Init
  <2> QED
    BY <2>1, <2>2, <2>3, <2>4 DEF TypeOK
<1>2. EventsInv /\ InterestExact
  BY DEF Init, EventsInv, InterestExact, Idle
<1> QED
  BY <1>1, <1>2 DEF ReactorInv

\* The clients change neither connections nor the loop.
LEMMA ClientInv ==
  ASSUME ReactorInv, ClientStep
  PROVE  ReactorInv'
<1>0. TypeOK /\ EventsInv /\ InterestExact
  BY DEF ReactorInv
<1>1. PICK c \in Clients : Connect(c) \/ Receive(c) \/ Close(c) \/ Reset(c)
                             \/ \E k \in Kinds : Send(c, k)
  BY DEF ClientStep
<1>2. UNCHANGED <<conns, interest, loop, events, local, response_queue, owed, notifying, notify, wakes>>
  BY <1>1, ZenonT(30) DEF Connect, Receive, Close, Reset, Send, loopVars, postVars
<1>3. EventsInv' /\ InterestExact'
  BY <1>0, <1>2 DEF EventsInv, InterestExact
<1>4. /\ link' \in [Clients -> {"new", "pending", "open", "closed", "reset", "gone"}]
      /\ inbound' \in [Clients -> Seq(Request)] /\ sent' \in [Clients -> Nat]
      /\ sockbuf' \in [Clients -> Seq(Response)] /\ received' \in [Clients -> Seq(Response)]
  <2>1. CASE Connect(c) \/ Close(c) \/ Reset(c)
    BY <1>0, <2>1, ZenonT(30) DEF Connect, Close, Reset, TypeOK, ClientType
  <2>2. CASE Receive(c)
    <3>1. Head(sockbuf[c]) \in Response /\ Tail(sockbuf[c]) \in Seq(Response)
      BY <1>0, <2>2 DEF Receive, TypeOK, ClientType
    <3>2. Append(received[c], Head(sockbuf[c])) \in Seq(Response)
      BY <1>0, <3>1 DEF TypeOK, ClientType
    <3> QED
      BY <1>0, <2>2, <3>1, <3>2, Zenon DEF Receive, TypeOK, ClientType
  <2>3. CASE \E k \in Kinds : Send(c, k)
    <3>0. PICK k \in Kinds : Send(c, k)
      BY <2>3
    <3>1. sent[c] \in Nat /\ inbound[c] \in Seq(Request)
      BY <1>0 DEF TypeOK, ClientType
    <3>2. [n |-> sent[c] + 1, kind |-> k] \in Request
      BY <3>1, ReactorAssumption DEF Request
    <3>3. Append(inbound[c], [n |-> sent[c] + 1, kind |-> k]) \in Seq(Request)
      BY <3>1, <3>2
    <3> QED
      BY <1>0, <3>0, <3>1, <3>3 DEF Send, TypeOK, ClientType
  <2> QED
    BY <1>1, <2>1, <2>2, <2>3
<1>5. TypeOK'
  <2>1. ConnType' /\ LoopType' /\ PostType' /\ notify' \in BOOLEAN /\ wakes' \in BOOLEAN
    BY <1>0, <1>2 DEF TypeOK, ConnType, LoopType, PostType
  <2> QED
    BY <1>4, <2>1 DEF TypeOK, ClientType
<1> QED
  BY <1>3, <1>5 DEF ReactorInv

\* post_response changes the queue only.
LEMMA PosterInv ==
  ASSUME ReactorInv, PosterStep
  PROVE  ReactorInv'
<1>0. TypeOK /\ EventsInv /\ InterestExact
  BY DEF ReactorInv
<1>1. UNCHANGED <<conns, interest, loop, events, local, wakes, link, inbound, sent, sockbuf, received>>
  BY DEF PosterStep, PostNotify, PostPush, loopVars, clientVars
<1>2. EventsInv' /\ InterestExact'
  BY <1>0, <1>1 DEF EventsInv, InterestExact
<1>3. /\ response_queue' \in Seq(Pending) /\ owed' \subseteq Pending
      /\ notifying' \in Nat /\ notify' \in BOOLEAN
  <2>1. CASE PostNotify
    <3>1. (notify \/ wakes) \in BOOLEAN
      OBVIOUS
    <3> QED
      BY <1>0, <2>1, <3>1 DEF PostNotify, TypeOK, PostType
  <2>2. CASE \E d \in owed : PostPush(d)
    <3>0. PICK d \in owed : PostPush(d)
      BY <2>2
    <3>1. d \in Pending
      BY <1>0 DEF TypeOK, PostType
    <3> QED
      BY <1>0, <3>0, <3>1 DEF PostPush, TypeOK, PostType
  <2> QED
    BY <2>1, <2>2 DEF PosterStep
<1>4. TypeOK'
  <2>1. ConnType' /\ LoopType' /\ ClientType' /\ wakes' \in BOOLEAN
    BY <1>0, <1>1 DEF TypeOK, ConnType, LoopType, ClientType
  <2>2. local' \in Seq(Pending)
    BY <1>0, <1>1 DEF TypeOK, PostType
  <2> QED
    BY <1>3, <2>1, <2>2 DEF TypeOK, PostType
<1> QED
  BY <1>2, <1>4 DEF ReactorInv

-----------------------------------------------------------------------------
(* The event loop *)

\* The steps of the loop that leave the connections and the clients alone.
LEMMA TurnInv ==
  ASSUME ReactorInv,
         Wait \/ DrainSwap \/ DrainDone \/ NextTurn \/ ReadNotify \/ AcceptDone
  PROVE  ReactorInv'
<1>0. /\ ConnType /\ LoopType /\ PostType /\ ClientType
      /\ notify \in BOOLEAN /\ wakes \in BOOLEAN
      /\ EventsInv /\ InterestExact
  BY Zenon DEF ReactorInv, TypeOK
<1>1. UNCHANGED <<conns, interest, owed, notifying, wakes, link, inbound, sent, sockbuf, received>>
  BY DEF Wait, DrainSwap, DrainDone, NextTurn, ReadNotify, AcceptDone, postVars, clientVars
<1>2. ConnType' /\ ClientType' /\ InterestExact'
  BY <1>0, <1>1 DEF ConnType, ClientType, InterestExact
<1>3. PostType'
  <2>1. <<>> \in Seq(Pending)
    OBVIOUS
  <2>2. /\ local' \in {local, response_queue}
        /\ response_queue' \in {response_queue, <<>>}
    BY DEF Wait, DrainSwap, DrainDone, NextTurn, ReadNotify, AcceptDone, postVars
  <2> QED
    BY <1>0, <1>1, <2>1, <2>2, ZenonT(30) DEF PostType
<1>4. notify' \in BOOLEAN /\ wakes' \in BOOLEAN
  BY <1>0, <1>1, ZenonT(30) DEF Wait, DrainSwap, DrainDone, NextTurn, ReadNotify, AcceptDone, postVars
<1>5. LoopType' /\ EventsInv'
  <2>1. CASE Wait
    <3>1. events' = Ready /\ loop' = [loop EXCEPT !.pc = "swap"]
      BY <2>1 DEF Wait
    <3>2. \A e \in Ready : e.from = "conn" =>
             e.fd \in DOMAIN conns /\ e = [from |-> "conn", fd |-> e.fd, flags |-> Flags(e.fd)]
      BY DEF Ready, NotifyEvent, AcceptEvent
    <3>3. Ready \subseteq [from : {"conn", "notify", "acceptor"}, fd : Fds \cup {0},
                           flags : SUBSET {"read", "write", "hup"}]
      <4>1. \A fd \in DOMAIN conns : fd \in Fds /\ Flags(fd) \subseteq {"read", "write", "hup"}
        BY <1>0 DEF ConnType, Flags
      <4> QED
        BY <4>1 DEF Ready, NotifyEvent, AcceptEvent
    <3>4. loop'.pc = "swap" /\ loop'.fd = loop.fd
      BY <1>0, <3>1 DEF LoopType
    <3>5. LoopType'
      BY <1>0, <3>1, <3>3, <3>4 DEF LoopType
    <3>6. \A e, f \in Ready : e.from = "conn" /\ f.from = "conn" /\ e.fd = f.fd => e = f
      BY <3>2
    <3> QED
      BY <1>1, <3>1, <3>2, <3>4, <3>5, <3>6 DEF EventsInv
  <2>2. CASE DrainSwap \/ DrainDone \/ NextTurn
    <3>1. events' = events /\ loop.pc \in {"swap", "drain", "dispatch"}
      BY <2>2 DEF DrainSwap, DrainDone, NextTurn
    <3>2. loop' \in [pc : {"drain", "dispatch", "wait"}, fd : Fds \cup {0}]
      BY <1>0, <2>2 DEF DrainSwap, DrainDone, NextTurn, LoopType, Idle
    <3> QED
      BY <1>0, <1>1, <3>1, <3>2 DEF LoopType, EventsInv
  <2>3. CASE ReadNotify \/ AcceptDone
    <3>1. loop' = loop /\ events' \subseteq events /\ loop.pc = "dispatch"
      BY <2>3 DEF ReadNotify, AcceptDone
    <3> QED
      BY <1>0, <1>1, <3>1, Zenon DEF LoopType, EventsInv
  <2> QED
    BY <2>1, <2>2, <2>3
<1> QED
  BY <1>2, <1>3, <1>4, <1>5, Zenon DEF ReactorInv, TypeOK

\* A response put behind the others leaves the connection with something to send.
LEMMA EnqueueFacts ==
  ASSUME NEW cn \in Connection, NEW r \in Response
  PROVE  /\ [cn EXCEPT !.outbound = Append(@, r)] \in Connection
         /\ [cn EXCEPT !.outbound = Append(@, r)].outbound # <<>>
         /\ [cn EXCEPT !.outbound = Append(@, r)].read_disabled = cn.read_disabled
<1> DEFINE q == Append(cn.outbound, r)
<1>1. q \in Seq(Response) /\ q # <<>>
  BY DEF Connection
<1> HIDE DEF q
<1>2. /\ [cn EXCEPT !.outbound = q] \in Connection
      /\ [cn EXCEPT !.outbound = q].outbound = q
      /\ [cn EXCEPT !.outbound = q].read_disabled = cn.read_disabled
  BY <1>1, Zenon DEF Connection
<1> QED
  BY <1>1, <1>2 DEF q

\* A deferred response is appended to its connection, which is then polled for
\* writing and, unless reading is disabled, for reading.
LEMMA DrainInv ==
  ASSUME ReactorInv, DrainResponse
  PROVE  ReactorInv'
<1>0. /\ ConnType /\ LoopType /\ PostType /\ ClientType
      /\ notify \in BOOLEAN /\ wakes \in BOOLEAN
      /\ EventsInv /\ InterestExact
  BY Zenon DEF ReactorInv, TypeOK
<1>1. UNCHANGED <<loop, events, response_queue, owed, notifying, notify, wakes,
                  link, inbound, sent, sockbuf, received>>
  BY DEF DrainResponse, postVars, clientVars
<1>2. Head(local) \in Pending /\ Tail(local) \in Seq(Pending)
  BY <1>0 DEF DrainResponse, PostType
<1>3. PostType' /\ ClientType' /\ notify' \in BOOLEAN /\ wakes' \in BOOLEAN
  BY <1>0, <1>1, <1>2, Zenon DEF DrainResponse, PostType, ClientType
<1>4. ConnType' /\ InterestExact' /\ DOMAIN conns' = DOMAIN conns
  <2> DEFINE fd == Head(local).fd
             new == [conns[fd] EXCEPT !.outbound = Append(@, Head(local).resp)]
             polled == {"write"} \cup (IF conns[fd].read_disabled THEN {} ELSE {"read"})
  <2>1. CASE fd \notin DOMAIN conns
    BY <1>0, <2>1 DEF DrainResponse, ConnType, InterestExact
  <2>2. CASE fd \in DOMAIN conns
    <3>1. conns[fd] \in Connection /\ Head(local).resp \in Response
      BY <1>0, <1>2, <2>2 DEF ConnType, Pending
    <3>2. /\ new \in Connection /\ new.outbound # <<>>
          /\ new.read_disabled = conns[fd].read_disabled
      BY <3>1, EnqueueFacts, Zenon
    <3>3. conns' = [conns EXCEPT ![fd] = new] /\ interest' = [interest EXCEPT ![fd] = polled]
      BY <2>2 DEF DrainResponse
    <3>4. /\ polled \subseteq {"read", "write"} /\ "write" \in polled
          /\ "read" \in polled <=> ~conns[fd].read_disabled
      OBVIOUS
    <3> HIDE DEF new, polled
    <3>5. ConnType' /\ DOMAIN conns' = DOMAIN conns
      BY <1>0, <2>2, <3>2, <3>3, <3>4 DEF ConnType
    <3>6. \A x \in DOMAIN conns :
            /\ conns'[x] = IF x = fd THEN new ELSE conns[x]
            /\ interest'[x] = IF x = fd THEN polled ELSE interest[x]
      BY <1>0, <2>2, <3>3 DEF ConnType
    <3>7. InterestExact'
      BY <1>0, <3>2, <3>4, <3>5, <3>6, Zenon DEF InterestExact
    <3> QED
      BY <3>5, <3>7
  <2> QED
    BY <2>1, <2>2
<1>5. LoopType' /\ EventsInv'
  BY <1>0, <1>1, <1>4, Zenon DEF LoopType, EventsInv
<1> QED
  BY <1>3, <1>4, <1>5 DEF ReactorInv, TypeOK

\* A new connection has nothing to send and is polled for reading.
LEMMA AcceptInv ==
  ASSUME ReactorInv, NEW c \in Clients, Accept(c)
  PROVE  ReactorInv'
<1>0. /\ ConnType /\ LoopType /\ PostType /\ ClientType
      /\ notify \in BOOLEAN /\ wakes \in BOOLEAN
      /\ EventsInv /\ InterestExact
  BY SMTT(30) DEF ReactorInv, TypeOK
<1>1. UNCHANGED <<loop, events, local, response_queue, owed, notifying, notify, wakes,
                  inbound, sent, sockbuf, received>>
  BY DEF Accept, loopVars, postVars
<1>2. PostType' /\ ClientType' /\ notify' \in BOOLEAN /\ wakes' \in BOOLEAN
  <2>1. link' \in [Clients -> {"new", "pending", "open", "closed", "reset", "gone"}]
    BY <1>0, Zenon DEF Accept, ClientType
  <2> QED
    BY <1>0, <1>1, <2>1 DEF PostType, ClientType
<1> DEFINE fresh == [client |-> c, outbound |-> <<>>, read_disabled |-> FALSE]
<1>3. PICK fd \in Free :
        /\ conns' = [x \in DOMAIN conns \cup {fd} |-> IF x = fd THEN fresh ELSE conns[x]]
        /\ interest' = [x \in DOMAIN interest \cup {fd} |->
                          IF x = fd THEN {"read"} ELSE interest[x]]
  BY DEF Accept
<1>4. fresh \in Connection
  BY DEF Connection
<1>5. fd \in Fds /\ fd \notin DOMAIN conns
  BY <1>3 DEF Free
<1>6. /\ DOMAIN conns' = DOMAIN conns \cup {fd} /\ DOMAIN interest = DOMAIN conns
      /\ \A x \in DOMAIN conns' :
           /\ conns'[x] = IF x = fd THEN fresh ELSE conns[x]
           /\ interest'[x] = IF x = fd THEN {"read"} ELSE interest[x]
  BY <1>0, <1>3 DEF ConnType
<1>7. ConnType'
  BY <1>0, <1>3, <1>4, <1>5, <1>6, Zenon DEF ConnType
<1>8. InterestExact'
  BY <1>0, <1>6 DEF InterestExact
<1>9. LoopType' /\ EventsInv'
  BY <1>0, <1>1, <1>6, Zenon DEF LoopType, EventsInv
<1> QED
  BY <1>2, <1>7, <1>8, <1>9 DEF ReactorInv, TypeOK

\* An event of a connection: a hang-up removes it, otherwise its handler starts.
LEMMA DispatchInv ==
  ASSUME ReactorInv, Dispatch
  PROVE  ReactorInv'
<1>0. /\ TypeOK /\ ConnType /\ LoopType /\ PostType /\ ClientType
      /\ notify \in BOOLEAN /\ wakes \in BOOLEAN
      /\ EventsInv /\ InterestExact
  BY SMTT(30) DEF ReactorInv, TypeOK
<1>1. UNCHANGED <<local, response_queue, owed, notifying, notify, wakes, inbound, sent, received>>
  BY DEF Dispatch, postVars
<1>2. PostType' /\ notify' \in BOOLEAN /\ wakes' \in BOOLEAN
  BY <1>0, <1>1 DEF PostType
<1>3. PICK e \in events :
        /\ e.from = "conn"
        /\ IF "hup" \in e.flags
           THEN Hangup(e.fd) /\ events' = events \ {e} /\ UNCHANGED loop
           ELSE /\ loop' = [pc |-> IF "read" \in e.flags THEN "read" ELSE "write", fd |-> e.fd]
                /\ events' = events
                /\ UNCHANGED <<conns, interest, link, sockbuf>>
  BY Zenon DEF Dispatch
<1>4. loop.pc = "dispatch" /\ e.fd \in DOMAIN conns
  BY <1>0, <1>3, Zenon DEF Dispatch, EventsInv
<1>5. CASE "hup" \in e.flags
  <2>1. Hangup(e.fd) /\ events' = events \ {e} /\ loop' = loop
    BY <1>3, <1>5, Zenon
  <2>2. /\ DOMAIN conns' = DOMAIN conns \ {e.fd}
        /\ conns' \in [DOMAIN conns' -> Connection]
        /\ interest' \in [DOMAIN conns' -> SUBSET {"read", "write"}]
        /\ link' \in [Clients -> {"new", "pending", "open", "closed", "reset", "gone"}]
        /\ sockbuf' \in [Clients -> Seq(Response)]
        /\ InterestExact'
    BY <1>0, <1>4, <2>1, HangupInv, ZenonT(30)
  <2>3. ConnType' /\ ClientType'
    BY <1>0, <1>1, <2>2, Zenon DEF ConnType, ClientType
  <2>4. LoopType' /\ EventsInv'
    BY <1>0, <1>3, <1>4, <2>1, <2>2 DEF LoopType, EventsInv
  <2> QED
    BY <1>2, <2>2, <2>3, <2>4 DEF ReactorInv, TypeOK
<1>6. CASE "hup" \notin e.flags
  <2>1. /\ loop' = [pc |-> IF "read" \in e.flags THEN "read" ELSE "write", fd |-> e.fd]
        /\ UNCHANGED <<events, conns, interest, link, sockbuf>>
    BY <1>3, <1>6, Zenon
  <2>2. ConnType' /\ ClientType' /\ InterestExact'
    BY <1>0, <1>1, <2>1, Zenon DEF ConnType, ClientType, InterestExact
  <2>3. loop'.pc \in {"read", "write"} /\ loop'.fd = e.fd
    BY <2>1, Zenon
  <2>4. LoopType' /\ EventsInv'
    BY <1>0, <1>3, <1>4, <2>1, <2>3 DEF LoopType, EventsInv, ConnType
  <2> QED
    BY <1>2, <2>2, <2>4 DEF ReactorInv, TypeOK
<1> QED
  BY <1>5, <1>6

\* A request is read: whatever it adds to outbound, whether or not it switches
\* backpressure on, the interest is what the new connection needs.
LEMMA ReadRequestInv ==
  ASSUME ReactorInv, ReadRequest
  PROVE  ReactorInv'
<1>0. /\ ConnType /\ LoopType /\ PostType /\ ClientType
      /\ notify \in BOOLEAN /\ wakes \in BOOLEAN
      /\ EventsInv /\ InterestExact
  BY SMTT(30) DEF ReactorInv, TypeOK
<1>1. UNCHANGED <<loop, events, local, response_queue, notifying, notify, wakes,
                  link, sent, sockbuf, received>>
  BY ZenonT(30) DEF ReadRequest, loopVars
<1> DEFINE fd    == loop.fd
           conn  == conns[fd]
           c     == conn.client
           req   == Head(inbound[c])
           resp  == [client |-> c, n |-> req.n, deferred |-> req.kind = "later"]
           added == IF req.kind = "now"
                    THEN [conn EXCEPT !.outbound = Append(@, resp)] ELSE conn
           new   == Backpressured(added)
           polled == IF new.read_disabled /\ ~conn.read_disabled THEN {"write"}
                     ELSE IF req.kind = "now"
                     THEN {"write"} \cup (IF conn.read_disabled THEN {} ELSE {"read"})
                     ELSE interest[fd]
<1>2. /\ inbound[c] # <<>>
      /\ inbound' = [inbound EXCEPT ![c] = Tail(@)]
      /\ owed' = IF req.kind = "later" THEN owed \cup {[fd |-> fd, resp |-> resp]} ELSE owed
      /\ conns' = [conns EXCEPT ![fd] = new]
      /\ interest' = [interest EXCEPT ![fd] = polled]
  BY ZenonT(30) DEF ReadRequest
<1>3. fd \in DOMAIN conns /\ fd \in Fds
  BY <1>0, ZenonT(30) DEF ReadRequest, LoopType, ConnType
<1>4. conn \in Connection /\ c \in Clients
  BY <1>0, <1>3 DEF ConnType, Connection
<1>5. inbound[c] \in Seq(Request)
  BY <1>0, <1>4 DEF ClientType
<1>6. req \in Request /\ Tail(inbound[c]) \in Seq(Request)
  <2> HIDE DEF c
  <2> QED
    BY <1>2, <1>5, HeadTailFacts, Zenon
<1>7. resp \in Response
  BY <1>4, <1>6, Zenon DEF Response, Request
<1>8. PostType' /\ ClientType' /\ notify' \in BOOLEAN /\ wakes' \in BOOLEAN
  <2>1. [fd |-> fd, resp |-> resp] \in Pending
    BY <1>3, <1>7, Zenon DEF Pending
  <2>2. owed \subseteq Pending /\ inbound \in [Clients -> Seq(Request)]
    BY <1>0 DEF PostType, ClientType
  <2> HIDE DEF fd, conn, c, req, resp, added, new, polled
  <2>3. owed' = owed \/ owed' = owed \cup {[fd |-> fd, resp |-> resp]}
    BY <1>2, ZenonT(30)
  <2>4. owed' \subseteq Pending
    BY <2>1, <2>2, <2>3, ZenonT(30)
  <2>5. inbound' = [inbound EXCEPT ![c] = Tail(@)]
    BY <1>2
  <2>6. inbound' \in [Clients -> Seq(Request)]
    BY <1>6, <2>2, <2>5, Zenon
  <2> QED
    BY <1>0, <1>1, <2>4, <2>6, SMTT(30) DEF PostType, ClientType
<1>9. /\ added \in Connection /\ added.read_disabled = conn.read_disabled
      /\ req.kind = "now" => added.outbound # <<>>
      /\ req.kind # "now" => added = conn
  <2> HIDE DEF resp, conn, req
  <2>1. conn.outbound \in Seq(Response)
    BY <1>4, Zenon DEF Connection
  <2>2. Append(conn.outbound, resp) \in Seq(Response) /\ Append(conn.outbound, resp) # <<>>
    BY <1>7, <2>1
  <2> QED
    BY <1>4, <2>2, ZenonT(30) DEF Connection
<1>10. /\ new \in Connection /\ new.outbound = added.outbound
       /\ new.read_disabled = (added.read_disabled \/ Len(added.outbound) > HighWater)
  <2> HIDE DEF added
  <2>1. (added.read_disabled \/ Len(added.outbound) > HighWater) \in BOOLEAN
    OBVIOUS
  <2> QED
    BY <1>9, <2>1, ZenonT(30) DEF Backpressured, Connection
<1>11. new.read_disabled /\ ~conn.read_disabled => new.outbound # <<>>
  <2> HIDE DEF added, new
  <2>1. added.outbound = <<>> => ~(Len(added.outbound) > HighWater)
    BY ReactorAssumption
  <2>2. new.read_disabled /\ ~added.read_disabled => Len(added.outbound) > HighWater
    BY <1>10, ZenonT(30)
  <2> HIDE DEF conn
  <2> QED
    BY <1>9, <1>10, <2>1, <2>2
<1>12. /\ "write" \in interest[fd] <=> conn.outbound # <<>>
       /\ "read" \in interest[fd] <=> ~conn.read_disabled
       /\ conn.read_disabled => conn.outbound # <<>>
       /\ interest[fd] \subseteq {"read", "write"}
  BY <1>0, <1>3, Zenon DEF InterestExact, ConnType
<1>13. conn.read_disabled => new.read_disabled
  BY <1>9, <1>10, ZenonT(30)
<1>14. /\ "write" \in polled <=> new.outbound # <<>>
       /\ "read" \in polled <=> ~new.read_disabled
       /\ new.read_disabled => new.outbound # <<>>
       /\ polled \subseteq {"read", "write"}
  <2>1. CASE new.read_disabled /\ ~conn.read_disabled
    <3>1. polled = {"write"}
      BY <2>1, Zenon
    <3> HIDE DEF polled, new
    <3> QED
      BY <1>11, <2>1, <3>1, Zenon
  <2>2. CASE ~(new.read_disabled /\ ~conn.read_disabled) /\ req.kind = "now"
    <3>1. polled = {"write"} \cup (IF conn.read_disabled THEN {} ELSE {"read"})
      BY <2>2, ZenonT(30)
    <3>2. new.outbound # <<>>
      BY <1>9, <1>10, <2>2, ZenonT(30)
    <3> HIDE DEF polled, new, conn
    <3> QED
      BY <1>13, <2>2, <3>1, <3>2, SMTT(30)
  <2>3. CASE ~(new.read_disabled /\ ~conn.read_disabled) /\ req.kind # "now"
    <3>1. polled = interest[fd]
      BY <2>3, Zenon
    <3>2. new.outbound = conn.outbound
      BY <1>9, <1>10, <2>3, ZenonT(30)
    <3> HIDE DEF polled, new, conn
    <3> QED
      BY <1>12, <1>13, <2>3, <3>1, <3>2, Zenon
  <2> QED
    BY <2>1, <2>2, <2>3, ZenonT(30)
<1> HIDE DEF new, polled, conn
<1>15. ConnType' /\ DOMAIN conns' = DOMAIN conns
  BY <1>0, <1>2, <1>3, <1>10, <1>14, Zenon DEF ConnType
<1>16. \A x \in DOMAIN conns : /\ conns'[x] = IF x = fd THEN new ELSE conns[x]
                               /\ interest'[x] = IF x = fd THEN polled ELSE interest[x]
  BY <1>0, <1>2, <1>3, Zenon DEF ConnType
<1>17. InterestExact'
  BY <1>0, <1>14, <1>15, <1>16, Zenon DEF InterestExact
<1>18. LoopType' /\ EventsInv'
  BY <1>0, <1>1, <1>15, Zenon DEF LoopType, EventsInv
<1> QED
  BY <1>8, <1>15, <1>17, <1>18, Zenon DEF ReactorInv, TypeOK

\* The connection is removed inside on_readable.
LEMMA HangupInReadInv ==
  ASSUME ReactorInv, ReadBadFrame \/ ReadEnd
  PROVE  ReactorInv'
<1>0. /\ TypeOK /\ ConnType /\ LoopType /\ PostType /\ ClientType
      /\ notify \in BOOLEAN /\ wakes \in BOOLEAN
      /\ EventsInv /\ InterestExact
  BY SMTT(30) DEF ReactorInv, TypeOK
<1>1. UNCHANGED <<local, response_queue, owed, notifying, notify, wakes, sent, received>>
  BY ZenonT(30) DEF ReadBadFrame, ReadEnd, postVars
<1>2. PostType' /\ notify' \in BOOLEAN /\ wakes' \in BOOLEAN
  BY <1>0, <1>1, SMTT(30) DEF PostType
<1>3. loop.pc = "read" /\ HangupInRead /\ Hangup(loop.fd)
  BY ZenonT(30) DEF ReadBadFrame, ReadEnd, HangupInRead
<1>4. loop.fd \in DOMAIN conns
  BY <1>0, <1>3 DEF LoopType
<1>5. /\ DOMAIN conns' = DOMAIN conns \ {loop.fd}
      /\ conns' \in [DOMAIN conns' -> Connection]
      /\ interest' \in [DOMAIN conns' -> SUBSET {"read", "write"}]
      /\ link' \in [Clients -> {"new", "pending", "open", "closed", "reset", "gone"}]
      /\ sockbuf' \in [Clients -> Seq(Response)]
      /\ InterestExact'
  BY <1>0, <1>3, <1>4, HangupInv, ZenonT(30)
<1>6. inbound' \in [Clients -> Seq(Request)]
  <2>1. CASE ReadEnd
    BY <1>0, <2>1, Zenon DEF ReadEnd, ClientType
  <2>2. CASE ReadBadFrame
    <3> DEFINE c == conns[loop.fd].client
    <3>1. c \in Clients
      BY <1>0, <1>4 DEF ConnType, Connection
    <3>2. PICK j \in DOMAIN inbound[c] :
            inbound' = [inbound EXCEPT ![c] = SubSeq(@, j + 1, Len(@))]
      BY <2>2, ZenonT(30) DEF ReadBadFrame
    <3> HIDE DEF c
    <3>3. inbound[c] \in Seq(Request) /\ j \in 0..Len(inbound[c])
      BY <1>0, <3>1, <3>2 DEF ClientType
    <3>4. SubSeq(inbound[c], j + 1, Len(inbound[c])) \in Seq(Request)
      BY <3>3, RestFacts, Zenon
    <3> QED
      BY <1>0, <3>1, <3>2, <3>4, Zenon DEF ClientType
  <2> QED
    BY <2>1, <2>2
<1>7. ConnType' /\ ClientType'
  BY <1>0, <1>1, <1>5, <1>6, Zenon DEF ConnType, ClientType
<1>8. LoopType' /\ EventsInv'
  <2>1. CASE EventDone
    <3>1. /\ EventsInv' /\ loop' = [pc |-> "dispatch", fd |-> 0]
          /\ events' \subseteq events
      BY <1>0, <1>3, <1>5, <2>1, EventDoneInv
    <3> QED
      BY <1>0, <3>1, Zenon DEF LoopType
  <2>2. CASE loop' = [loop EXCEPT !.pc = "stale"] /\ UNCHANGED events
    <3>1. loop'.pc = "stale" /\ loop'.fd = loop.fd
      BY <1>0, <2>2, Zenon DEF LoopType
    <3>2. LoopType'
      BY <1>0, <2>2, <3>1 DEF LoopType
    <3> QED
      BY <1>0, <1>3, <1>5, <2>2, <3>1, <3>2 DEF EventsInv
  <2> QED
    BY <1>3, <2>1, <2>2 DEF HangupInRead
<1> QED
  BY <1>2, <1>5, <1>7, <1>8 DEF ReactorInv, TypeOK

\* The steps that end an event or the process and leave the connections alone.
LEMMA EndEventInv ==
  ASSUME ReactorInv, ReadBlocked \/ WriteStale
  PROVE  ReactorInv'
<1>0. /\ TypeOK /\ ConnType /\ LoopType /\ PostType /\ ClientType
      /\ notify \in BOOLEAN /\ wakes \in BOOLEAN
      /\ EventsInv /\ InterestExact
  BY SMTT(30) DEF ReactorInv, TypeOK
<1>1. UNCHANGED <<conns, interest, local, response_queue, owed, notifying, notify, wakes,
                  link, inbound, sent, sockbuf, received>>
  BY DEF ReadBlocked, WriteStale, postVars, clientVars
<1>2. /\ ConnType' /\ PostType' /\ ClientType' /\ InterestExact'
      /\ notify' \in BOOLEAN /\ wakes' \in BOOLEAN
  BY <1>0, <1>1 DEF ConnType, PostType, ClientType, InterestExact
<1>3. /\ loop.pc \in {"read", "stale"}
      /\ \/ EventDone
         \/ loop.pc = "read" /\ loop' = [loop EXCEPT !.pc = "write"] /\ UNCHANGED events
         \/ loop.pc = "stale" /\ loop' = [loop EXCEPT !.pc = "crashed"] /\ UNCHANGED events
  BY DEF ReadBlocked, WriteStale
<1>4. LoopType' /\ EventsInv'
  <2>1. CASE EventDone
    <3>1. /\ EventsInv' /\ loop' = [pc |-> "dispatch", fd |-> 0]
          /\ events' \subseteq events
      BY <1>0, <1>1, <1>3, <2>1, EventDoneInv
    <3> QED
      BY <1>0, <3>1 DEF LoopType
  <2>2. CASE loop.pc = "read" /\ loop' = [loop EXCEPT !.pc = "write"] /\ UNCHANGED events
    <3>1. loop'.pc = "write" /\ loop'.fd = loop.fd
      BY <1>0, <2>2, Zenon DEF LoopType
    <3> QED
      BY <1>0, <1>1, <2>2, <3>1, Zenon DEF LoopType, EventsInv
  <2>3. CASE loop.pc = "stale" /\ loop' = [loop EXCEPT !.pc = "crashed"] /\ UNCHANGED events
    <3>1. loop'.pc = "crashed" /\ loop'.fd = loop.fd
      BY <1>0, <2>3, Zenon DEF LoopType
    <3> QED
      BY <1>0, <1>1, <2>3, <3>1 DEF LoopType, EventsInv
  <2> QED
    BY <1>3, <2>1, <2>2, <2>3
<1> QED
  BY <1>2, <1>4 DEF ReactorInv, TypeOK

\* send takes a part of the buffer: interest in writing ends, and reading is
\* enabled, exactly when nothing is left.
LEMMA SentInv ==
  ASSUME ConnType, InterestExact, NEW fd \in DOMAIN conns,
         NEW k \in 0..Len(conns[fd].outbound), Sent(fd, k)
  PROVE  ConnType' /\ InterestExact' /\ DOMAIN conns' = DOMAIN conns
<1> DEFINE out    == conns[fd].outbound
           rest   == SubSeq(out, k + 1, Len(out))
           held   == conns[fd].read_disabled /\ rest # <<>>
           new    == [conns[fd] EXCEPT !.outbound = rest, !.read_disabled = held]
           polled == IF rest = <<>> THEN {"read"} ELSE interest[fd]
<1>1. conns[fd] \in Connection /\ out \in Seq(Response) /\ interest[fd] \subseteq {"read", "write"}
  BY DEF ConnType, Connection
<1>2. rest \in Seq(Response) /\ (rest # <<>> => out # <<>>)
  BY <1>1, RestFacts, SMTT(30)
<1>3. conns' = [conns EXCEPT ![fd] = new] /\ interest' = [interest EXCEPT ![fd] = polled]
  BY ZenonT(30) DEF Sent
<1>4. new \in Connection /\ new.outbound = rest /\ new.read_disabled = held
  <2> HIDE DEF rest
  <2>1. held \in BOOLEAN
    OBVIOUS
  <2> HIDE DEF held
  <2> QED
    BY <1>1, <1>2, <2>1, ZenonT(30) DEF Connection
<1>5. /\ "write" \in interest[fd] <=> out # <<>>
      /\ "read" \in interest[fd] <=> ~conns[fd].read_disabled
  BY DEF InterestExact
<1> HIDE DEF rest, out, new
<1>6. /\ "write" \in polled <=> rest # <<>>
      /\ "read" \in polled <=> ~held
      /\ held => rest # <<>>
      /\ polled \subseteq {"read", "write"}
  BY <1>1, <1>2, <1>5, Zenon
<1> HIDE DEF polled, held
<1>7. ConnType' /\ DOMAIN conns' = DOMAIN conns
  BY <1>3, <1>4, <1>6 DEF ConnType
<1>8. \A x \in DOMAIN conns : /\ conns'[x] = IF x = fd THEN new ELSE conns[x]
                              /\ interest'[x] = IF x = fd THEN polled ELSE interest[x]
  BY <1>3 DEF ConnType
<1>9. InterestExact'
  BY <1>4, <1>6, <1>7, <1>8, Zenon DEF InterestExact
<1> QED
  BY <1>7, <1>9

\* on_writable keeps the invariant, whether send takes something or fails.
LEMMA WriteInv ==
  ASSUME ReactorInv, WriteSome \/ WriteFails
  PROVE  ReactorInv'
<1>0. /\ TypeOK /\ ConnType /\ LoopType /\ PostType /\ ClientType
      /\ notify \in BOOLEAN /\ wakes \in BOOLEAN
      /\ EventsInv /\ InterestExact
  BY SMTT(30) DEF ReactorInv, TypeOK
<1>1. /\ UNCHANGED <<local, response_queue, owed, notifying, notify, wakes,
                     inbound, sent, received>>
      /\ loop.pc = "write"
  BY ZenonT(30) DEF WriteSome, WriteFails, postVars
<1>2. PostType' /\ notify' \in BOOLEAN /\ wakes' \in BOOLEAN
  BY <1>0, <1>1 DEF PostType
<1>3. loop.fd \in DOMAIN conns
  BY <1>0, <1>1, Zenon DEF LoopType
<1>4. ASSUME EventDone, DOMAIN conns \ {loop.fd} \subseteq DOMAIN conns'
      PROVE  LoopType' /\ EventsInv'
  <2>1. /\ EventsInv' /\ loop' = [pc |-> "dispatch", fd |-> 0]
        /\ events' \subseteq events
    BY <1>0, <1>1, <1>4, EventDoneInv, Zenon
  <2> QED
    BY <1>0, <2>1 DEF LoopType
<1>5. CASE WriteSome
  <2> DEFINE c   == conns[loop.fd].client
             out == conns[loop.fd].outbound
  <2>1. PICK k \in 0..Len(out) :
          /\ sockbuf' = IF link[c] = "open"
                        THEN [sockbuf EXCEPT ![c] = @ \o SubSeq(out, 1, k)] ELSE sockbuf
          /\ Sent(loop.fd, k)
    BY <1>5, ZenonT(30) DEF WriteSome
  <2>2. EventDone /\ UNCHANGED link
    BY <1>5, ZenonT(30) DEF WriteSome
  <2>3. c \in Clients /\ out \in Seq(Response)
    BY <1>0, <1>3, Zenon DEF ConnType, Connection
  <2>4. ConnType' /\ InterestExact' /\ DOMAIN conns' = DOMAIN conns
    BY <1>0, <1>3, <2>1, SentInv, Zenon
  <2> HIDE DEF c, out
  <2>5. ClientType'
    <3>1. sockbuf[c] \in Seq(Response) /\ SubSeq(out, 1, k) \in Seq(Response)
      BY <1>0, <2>1, <2>3, RestFacts DEF ClientType
    <3>2. sockbuf[c] \o SubSeq(out, 1, k) \in Seq(Response)
      BY <3>1
    <3>3. sockbuf' \in [Clients -> Seq(Response)]
      BY <1>0, <2>1, <2>3, <3>2, Zenon DEF ClientType
    <3> QED
      BY <1>0, <1>1, <2>2, <3>3 DEF ClientType
  <2> QED
    BY <1>2, <1>4, <2>2, <2>4, <2>5, Zenon DEF ReactorInv, TypeOK
<1>6. CASE WriteFails
  <2>1. CASE Hangup(loop.fd) /\ EventDone
    <3>1. /\ DOMAIN conns' = DOMAIN conns \ {loop.fd}
          /\ conns' \in [DOMAIN conns' -> Connection]
          /\ interest' \in [DOMAIN conns' -> SUBSET {"read", "write"}]
          /\ link' \in [Clients -> {"new", "pending", "open", "closed", "reset", "gone"}]
          /\ sockbuf' \in [Clients -> Seq(Response)]
          /\ InterestExact'
      BY <1>0, <1>3, <2>1, HangupInv, ZenonT(30)
    <3>2. ConnType' /\ ClientType'
      BY <1>0, <1>1, <3>1, Zenon DEF ConnType, ClientType
    <3> QED
      BY <1>2, <1>4, <2>1, <3>1, <3>2, Zenon DEF ReactorInv, TypeOK
  <2>2. CASE /\ loop' = [loop EXCEPT !.pc = "crashed"]
             /\ UNCHANGED <<conns, interest, events, link, sockbuf>>
    <3>1. loop'.pc = "crashed" /\ loop'.fd = loop.fd
      BY <1>0, <2>2 DEF LoopType
    <3>2. ConnType' /\ ClientType' /\ InterestExact'
      BY <1>0, <1>1, <2>2 DEF ConnType, ClientType, InterestExact
    <3>3. LoopType' /\ EventsInv'
      BY <1>0, <1>1, <2>2, <3>1 DEF LoopType, EventsInv
    <3> QED
      BY <1>2, <3>2, <3>3, Zenon DEF ReactorInv, TypeOK
  <2> QED
    BY <1>6, <2>1, <2>2 DEF WriteFails
<1> QED
  BY <1>5, <1>6, Zenon

-----------------------------------------------------------------------------
\* ReactorInv is inductive: it holds initially and every step of the loop, of a
\* posting thread and of a client keeps it.
THEOREM ReactorInvariant == Spec => []ReactorInv
<1>1. Init => ReactorInv
  BY InitInv
<1>2. ReactorInv /\ [Next]_vars => ReactorInv'
  <2> SUFFICES ASSUME ReactorInv, [Next]_vars PROVE ReactorInv'
    OBVIOUS
  <2>1. CASE LoopStep
    <3>1. CASE \E c \in Clients : Accept(c)
      BY <3>1, AcceptInv, Zenon
    <3> QED
      BY <2>1, <3>1, TurnInv, DrainInv, DispatchInv, ReadRequestInv, HangupInReadInv,
         EndEventInv, WriteInv DEF LoopStep
  <2>2. CASE PosterStep
    BY <2>2, PosterInv
  <2>3. CASE ClientStep
    BY <2>3, ClientInv
  <2>4. CASE UNCHANGED vars
    <3>1. /\ UNCHANGED <<conns, interest, loop, events, local, response_queue, owed, notifying>>
          /\ UNCHANGED <<notify, wakes, link, inbound, sent, sockbuf, received>>
      BY <2>4, Zenon DEF vars, loopVars, postVars, clientVars
    <3>2. ConnType' /\ LoopType' /\ PostType' /\ ClientType'
      BY <3>1, Zenon DEF ReactorInv, TypeOK, ConnType, LoopType, PostType, ClientType
    <3>3. EventsInv' /\ InterestExact'
      BY <3>1, Zenon DEF ReactorInv, EventsInv, InterestExact
    <3>4. notify' \in BOOLEAN /\ wakes' \in BOOLEAN
      BY <3>1 DEF ReactorInv, TypeOK
    <3> QED
      BY <3>2, <3>3, <3>4 DEF ReactorInv, TypeOK
  <2> QED
    BY <2>1, <2>2, <2>3, <2>4 DEF Next
<1> QED
  BY <1>1, <1>2, PTL DEF Spec

\* Every variable keeps its type; conns_ and the poller agree on the descriptors.
THEOREM TypeCorrect == Spec => []TypeOK
<1>1. ReactorInv => TypeOK
  BY DEF ReactorInv
<1> QED
  BY <1>1, ReactorInvariant, PTL

\* The poller always watches exactly what a connection needs, so that neither a
\* buffered response nor a client held back by backpressure is forgotten.
THEOREM InterestIsExact == Spec => []InterestExact
<1>1. ReactorInv => InterestExact
  BY DEF ReactorInv
<1> QED
  BY <1>1, ReactorInvariant, PTL

-----------------------------------------------------------------------------
(* Where responses are: the inductive invariant behind AnsweredOnce and
   ImmediateInOrder *)

\* The responses to request n of client c, bare and in a PendingResponse.
Of(c, n)  == {r \in Response : r.client = c /\ r.n = n}
For(c, n) == {d \in Pending : d.resp \in Of(c, n)}

\* The responses that were posted, and those on their way to c, out being its
\* outbound, in order.
Posted == local \o response_queue
Line(c, out) == received[c] \o sockbuf[c] \o out

\* How many responses to request n of c there are.
Total(c, n, out) ==
  Cardinality(owed \cap For(c, n)) + Hits(Posted, For(c, n)) + Hits(Line(c, out), Of(c, n))

\* The immediate responses of c in s are in the order of their requests, and none
\* is to a request behind the first h.
Sorted(c, s, h) ==
  /\ \A i, j \in DOMAIN s :
       i < j /\ s[i].client = c /\ s[j].client = c /\ ~s[i].deferred /\ ~s[j].deferred
         => s[i].n < s[j].n
  /\ \A i \in DOMAIN s : s[i].client = c /\ ~s[i].deferred => s[i].n <= h

\* One response for each request that was read, none for the others, in order.
Answers(c, out) ==
  /\ \A n \in Nat : Total(c, n, out) = IF n \in 1..Handled(c) THEN 1 ELSE 0
  /\ Sorted(c, Line(c, out), Handled(c))

AnswerInv ==
  \A fd \in DOMAIN conns :
    link[conns[fd].client] = "open" => Answers(conns[fd].client, conns[fd].outbound)

\* A client has one connection, from accept to hang-up, and nothing comes to it before.
LinkInv ==
  /\ \A fd, gd \in DOMAIN conns : conns[fd].client = conns[gd].client => fd = gd
  /\ \A fd \in DOMAIN conns : link[conns[fd].client] \in {"open", "closed", "reset"}
  /\ \A c \in Clients : link[c] \in {"new", "pending"} =>
       received[c] = <<>> /\ sockbuf[c] = <<>> /\ Handled(c) = 0

\* The requests that wait to be read are numbered on from those that were read.
InboundInv ==
  \A c \in Clients : /\ Handled(c) \in Nat
                     /\ \A i \in 1..Len(inbound[c]) : inbound[c][i].n = Handled(c) + i

\* A deferred response is for a client that was accepted, and carries the
\* descriptor of that client's connection if there is one.
Deferred(d) ==
  /\ d.resp.deferred /\ link[d.resp.client] \notin {"new", "pending"}
  /\ \A fd \in DOMAIN conns : conns[fd].client = d.resp.client => d.fd = fd

OwedInv ==
  /\ IsFiniteSet(owed) /\ \A d \in owed : Deferred(d)
  /\ \A i \in 1..Len(Posted) : Deferred(Posted[i])

\* The local queue of drain_response_queue is empty outside it.
LocalInv == loop.pc # "drain" => local = <<>>

FlowInv == LinkInv /\ InboundInv /\ OwedInv /\ LocalInv /\ AnswerInv

\* Adding a response to the line of a client: a deferred one, or the next.
LEMMA SortedAppend ==
  ASSUME NEW c \in Clients, NEW s \in Seq(Response), NEW h \in Nat, NEW r \in Response,
         NEW k \in Nat, Sorted(c, s, h), h <= k,
         r.deferred \/ r.client # c \/ (h < r.n /\ r.n <= k)
  PROVE  Sorted(c, Append(s, r), k)
<1> DEFINE t == Append(s, r)
<1>1. /\ Len(t) = Len(s) + 1 /\ DOMAIN t = 1..(Len(s) + 1) /\ t[Len(s) + 1] = r
      /\ \A i \in 1..Len(s) : t[i] = s[i]
  OBVIOUS
<1>2. \A i \in 1..Len(s) : s[i] \in Response
  OBVIOUS
<1> HIDE DEF t
<1>3. \A i \in 1..Len(s) : t[i].client = c /\ ~t[i].deferred => t[i].n \in Nat /\ t[i].n <= h
  BY <1>1, <1>2 DEF Sorted, Response
<1>4. ASSUME NEW i \in DOMAIN t, t[i].client = c, ~t[i].deferred
      PROVE  t[i].n <= k
  <2>1. CASE i \in 1..Len(s)
    <3>1. PICK n \in Nat : n = t[i].n /\ n <= h
      BY <1>3, <1>4, <2>1, Zenon
    <3>2. n <= k
      BY <3>1
    <3> QED
      BY <3>1, <3>2, Zenon
  <2>2. CASE i = Len(s) + 1
    BY <1>1, <1>4, <2>2, Zenon
  <2>3. i \in 1..Len(s) \/ i = Len(s) + 1
    BY <1>1
  <2> QED
    BY <2>1, <2>2, <2>3, Zenon
<1>5. ASSUME NEW i \in DOMAIN t, NEW j \in DOMAIN t, i < j, t[i].client = c, t[j].client = c,
             ~t[i].deferred, ~t[j].deferred
      PROVE  t[i].n < t[j].n
  <2>1. i \in 1..Len(s)
    BY <1>1, <1>5
  <2>2. CASE j \in 1..Len(s)
    BY <1>1, <1>5, <2>1, <2>2 DEF Sorted
  <2>3. CASE j = Len(s) + 1
    BY <1>1, <1>3, <1>5, <2>1, <2>3 DEF Response
  <2> QED
    BY <1>1, <2>2, <2>3
<1>6. Sorted(c, t, k)
  BY <1>4, <1>5, Zenon DEF Sorted
<1> QED
  BY <1>6 DEF t

\* What concerns c is unchanged.
LEMMA AnswersSame ==
  ASSUME NEW c \in Clients, NEW out, NEW new, Answers(c, out), owed' = owed, Posted' = Posted,
         Line(c, new)' = Line(c, out), Handled(c)' = Handled(c)
  PROVE  Answers(c, new)'
<1>1. \A n \in Nat : Total(c, n, new)' = Total(c, n, out)
  BY Zenon DEF Total
<1> QED
  BY <1>1, Zenon DEF Answers

\* Connections and deferred responses belong to clients.
LEMMA Owners ==
  ASSUME TypeOK
  PROVE  /\ \A fd \in DOMAIN conns :
              conns[fd].client \in Clients /\ conns[fd].outbound \in Seq(Response)
         /\ \A d \in Pending : d.resp \in Response /\ d.resp.client \in Clients
         /\ owed \subseteq Pending /\ Posted \in Seq(Pending)
         /\ response_queue \in Seq(Pending) /\ local \in Seq(Pending)
         /\ \A i \in 1..Len(Posted) : Posted[i] \in Pending
         /\ \A c \in Clients : \A out \in Seq(Response) : Line(c, out) \in Seq(Response)
<1>1. \A fd \in DOMAIN conns :
        conns[fd].client \in Clients /\ conns[fd].outbound \in Seq(Response)
  BY Zenon DEF TypeOK, ConnType, Connection
<1>2. \A d \in Pending : d.resp \in Response /\ d.resp.client \in Clients
  BY Zenon DEF Pending, Response
<1>3. owed \subseteq Pending /\ response_queue \in Seq(Pending) /\ local \in Seq(Pending)
  BY Zenon DEF TypeOK, PostType
<1>4. Posted \in Seq(Pending)
  BY <1>3 DEF Posted
<1>5. \A i \in 1..Len(Posted) : Posted[i] \in Pending
  BY <1>4
<1>6. \A c \in Clients : \A out \in Seq(Response) : Line(c, out) \in Seq(Response)
  BY DEF Line, TypeOK, ClientType
<1> QED
  BY <1>1, <1>2, <1>3, <1>4, <1>5, <1>6, Zenon

\* The lines of the connections that stay open are unchanged.
LEMMA LinesKept ==
  ASSUME TypeOK, AnswerInv, owed' = owed, Posted' = Posted,
         \A fd \in DOMAIN conns' : link'[conns'[fd].client] = "open" =>
            /\ fd \in DOMAIN conns /\ conns'[fd].client = conns[fd].client
            /\ link[conns[fd].client] = "open"
            /\ received'[conns[fd].client] \o sockbuf'[conns[fd].client] \o conns'[fd].outbound
                 = Line(conns[fd].client, conns[fd].outbound)
            /\ Handled(conns[fd].client)' = Handled(conns[fd].client)
  PROVE  AnswerInv'
<1> SUFFICES ASSUME NEW fd \in DOMAIN conns', link'[conns'[fd].client] = "open"
             PROVE  Answers(conns[fd].client, conns[fd].outbound)'
  BY Zenon DEF AnswerInv
<1>1. PICK c \in Clients : c = conns[fd].client /\ c = conns'[fd].client
  BY Owners, Zenon
<1>2. PICK out, new : out = conns[fd].outbound /\ new = conns'[fd].outbound
  BY Zenon
<1>3. fd \in DOMAIN conns /\ link[c] = "open"
  BY <1>1, Zenon
<1>4. Answers(c, out)
  BY <1>1, <1>2, <1>3, Zenon DEF AnswerInv
<1>5. Handled(c)' = Handled(c)
  BY <1>1, Zenon DEF Handled
<1>6. Line(c, new)' = Line(c, out)
  BY <1>1, <1>2, Zenon DEF Line
<1>7. Answers(c, new)'
  BY <1>4, <1>5, <1>6, AnswersSame, Zenon
<1> QED
  BY <1>1, <1>2, <1>7, Zenon

\* Nothing is moved and no connection comes or goes.
LEMMA QuietStep ==
  ASSUME TypeOK, LinkInv, InboundInv, OwedInv, AnswerInv,
         UNCHANGED <<conns, owed, response_queue, local, inbound, sent, sockbuf, received>>,
         \A c \in Clients :
            /\ link'[c] = "open" => link[c] = "open"
            /\ link[c] \in {"open", "closed", "reset"} => link'[c] \in {"open", "closed", "reset"}
            /\ link'[c] \in {"new", "pending"} <=> link[c] \in {"new", "pending"}
  PROVE  LinkInv' /\ InboundInv' /\ OwedInv' /\ AnswerInv'
<1>0. /\ \A fd \in DOMAIN conns : conns[fd].client \in Clients
      /\ \A d \in Pending : d.resp.client \in Clients
      /\ owed \subseteq Pending /\ \A i \in 1..Len(Posted) : Posted[i] \in Pending
  BY Owners, Zenon
<1>1. \A c \in Clients : Handled(c)' = Handled(c)
  BY Zenon DEF Handled
<1>7. Posted' = Posted
  BY Zenon DEF Posted
<1>2. LinkInv'
  BY <1>0, <1>1, Zenon DEF LinkInv
<1>3. InboundInv'
  BY <1>1, Zenon DEF InboundInv
<1>4. \A d \in Pending : Deferred(d) => Deferred(d)'
  BY <1>0, Zenon DEF Deferred
<1>5. OwedInv'
  BY <1>0, <1>4, <1>7, Zenon DEF OwedInv
<1>6. AnswerInv'
  <2>1. \A fd \in DOMAIN conns' :
          /\ fd \in DOMAIN conns /\ conns'[fd] = conns[fd] /\ conns[fd].client \in Clients
          /\ received'[conns[fd].client] \o sockbuf'[conns[fd].client] \o conns'[fd].outbound
               = Line(conns[fd].client, conns[fd].outbound)
    BY <1>0, Zenon DEF Line
  <2> QED
    BY <1>1, <1>7, <2>1, LinesKept, Zenon
<1> QED
  BY <1>2, <1>3, <1>5, <1>6, Zenon

\* on_hangup forgets one client; the others' responses stay where they are.
LEMMA HangupStep ==
  ASSUME TypeOK, LinkInv, OwedInv, AnswerInv, NEW fd \in DOMAIN conns, Hangup(fd),
         UNCHANGED <<owed, response_queue, local, sent, received>>,
         \A c \in Clients : c # conns[fd].client => inbound'[c] = inbound[c]
  PROVE  LinkInv' /\ OwedInv' /\ AnswerInv'
<1> DEFINE h == conns[fd].client
<1>0. /\ \A x \in DOMAIN conns : conns[x].client \in Clients
      /\ \A d \in Pending : d.resp.client \in Clients
      /\ owed \subseteq Pending /\ \A i \in 1..Len(Posted) : Posted[i] \in Pending
  BY Owners, Zenon
<1>1. /\ DOMAIN conns' = DOMAIN conns \ {fd}
      /\ \A x \in DOMAIN conns' : conns'[x] = conns[x]
  BY Zenon DEF Hangup, Without
<1>2. \A x \in DOMAIN conns' : x \in DOMAIN conns /\ conns[x].client # h
  BY <1>1, Zenon DEF LinkInv
<1>3. link'[h] = "gone" /\ \A c \in Clients : c # h => link'[c] = link[c] /\ sockbuf'[c] = sockbuf[c]
  BY <1>0, Zenon DEF TypeOK, ClientType, Hangup
<1>4. \A c \in Clients : c # h => Handled(c)' = Handled(c)
  BY Zenon DEF Handled
<1>8. Posted' = Posted
  BY Zenon DEF Posted
<1> HIDE DEF h
<1>5. LinkInv'
  <2>1. \A x, y \in DOMAIN conns' : conns'[x].client = conns'[y].client => x = y
    BY <1>1, <1>2, Zenon DEF LinkInv
  <2>2. \A x \in DOMAIN conns' : link'[conns'[x].client] \in {"open", "closed", "reset"}
    BY <1>0, <1>1, <1>2, <1>3, Zenon DEF LinkInv
  <2>3. \A c \in Clients : link'[c] \in {"new", "pending"} =>
          received'[c] = <<>> /\ sockbuf'[c] = <<>> /\ Handled(c)' = 0
    <3> TAKE c \in Clients
    <3>1. CASE c = h
      BY <1>3, <3>1, Zenon
    <3>2. CASE c # h
      BY <1>3, <1>4, <3>2 DEF LinkInv
    <3> QED
      BY <3>1, <3>2, Zenon
  <2> QED
    BY <2>1, <2>2, <2>3, Zenon DEF LinkInv
<1>6. OwedInv'
  <2>1. \A c \in Clients : link[c] \notin {"new", "pending"} => link'[c] \notin {"new", "pending"}
    BY <1>3, Zenon
  <2>2. \A d \in Pending : Deferred(d) => Deferred(d)'
    BY <1>0, <1>1, <1>2, <2>1, Zenon DEF Deferred
  <2> QED
    BY <1>0, <1>8, <2>2, Zenon DEF OwedInv
<1>7. AnswerInv'
  <2>1. ASSUME NEW x \in DOMAIN conns'
        PROVE  /\ x \in DOMAIN conns /\ conns'[x] = conns[x] /\ conns[x].client \in Clients
               /\ conns[x].client # h
               /\ received'[conns[x].client] \o sockbuf'[conns[x].client] \o conns'[x].outbound
                    = Line(conns[x].client, conns[x].outbound)
    <3>1. x \in DOMAIN conns /\ conns'[x] = conns[x] /\ conns[x].client \in Clients
            /\ conns[x].client # h
      BY <1>0, <1>1, <1>2, Zenon
    <3>2. sockbuf'[conns[x].client] = sockbuf[conns[x].client]
      BY <1>3, <3>1, Zenon
    <3> QED
      BY <3>1, <3>2, Zenon DEF Line
  <2>2. ASSUME NEW x \in DOMAIN conns', link'[conns'[x].client] = "open"
        PROVE  /\ x \in DOMAIN conns /\ conns'[x].client = conns[x].client
               /\ link[conns[x].client] = "open"
               /\ received'[conns[x].client] \o sockbuf'[conns[x].client] \o conns'[x].outbound
                    = Line(conns[x].client, conns[x].outbound)
               /\ Handled(conns[x].client)' = Handled(conns[x].client)
    BY <1>3, <1>4, <2>1, <2>2, Zenon
  <2> QED
    BY <1>8, <2>2, LinesKept, Zenon
<1> QED
  BY <1>5, <1>6, <1>7, Zenon

\* The counts are numbers.
LEMMA TotalType ==
  ASSUME TypeOK, IsFiniteSet(owed), NEW c \in Clients, NEW n \in Nat, NEW out \in Seq(Response)
  PROVE  /\ IsFiniteSet(owed \cap For(c, n)) /\ Cardinality(owed \cap For(c, n)) \in Nat
         /\ Hits(Posted, For(c, n)) \in Nat /\ Hits(Line(c, out), Of(c, n)) \in Nat
<1>1. owed \cap For(c, n) \in SUBSET owed
  BY Zenon
<1>2. IsFiniteSet(owed \cap For(c, n))
  BY <1>1, FS_Subset
<1>3. Cardinality(owed \cap For(c, n)) \in Nat
  BY <1>2, FS_CardinalityType, Zenon
<1>4. Posted \in Seq(Pending) /\ Line(c, out) \in Seq(Response)
  BY Owners, Zenon
<1>5. Hits(Posted, For(c, n)) \in Nat /\ Hits(Line(c, out), Of(c, n)) \in Nat
  BY <1>4, HitsType, Zenon
<1> QED
  BY <1>2, <1>3, <1>5, Zenon

\* A client sends: the request is numbered on from the last.
LEMMA SendFlow ==
  ASSUME TypeOK, LinkInv, InboundInv, OwedInv, AnswerInv, NEW c \in Clients, NEW k \in Kinds,
         Send(c, k)
  PROVE  LinkInv' /\ InboundInv' /\ OwedInv' /\ AnswerInv'
<1>0. /\ UNCHANGED <<conns, local, response_queue, owed, link, sockbuf, received>>
      /\ sent' = [sent EXCEPT ![c] = @ + 1]
      /\ inbound' = [inbound EXCEPT ![c] = Append(@, [n |-> sent[c] + 1, kind |-> k])]
  BY Zenon DEF Send, loopVars, postVars
<1>1. inbound \in [Clients -> Seq(Request)] /\ sent \in [Clients -> Nat]
  BY DEF TypeOK, ClientType
<1>2. [n |-> sent[c] + 1, kind |-> k] \in Request
  BY <1>1, ReactorAssumption DEF Request
<1>3. /\ inbound'[c] = Append(inbound[c], [n |-> sent[c] + 1, kind |-> k])
      /\ sent'[c] = sent[c] + 1 /\ sent[c] \in Nat /\ inbound[c] \in Seq(Request)
      /\ \A x \in Clients : x # c => inbound'[x] = inbound[x] /\ sent'[x] = sent[x]
  BY <1>0, <1>1, Zenon
<1>4. \A x \in Clients : Handled(x)' = Handled(x)
  <2>1. Len(inbound'[c]) = Len(inbound[c]) + 1
    BY <1>2, <1>3, SMTT(30)
  <2>2. Handled(c)' = Handled(c)
    BY <1>3, <2>1 DEF Handled
  <2>3. \A x \in Clients : x # c => Handled(x)' = Handled(x)
    BY <1>3, Zenon DEF Handled
  <2> QED
    BY <2>2, <2>3
<1>5. InboundInv'
  <2>1. Len(inbound'[c]) = Len(inbound[c]) + 1 /\ Len(inbound[c]) \in Nat
    BY <1>2, <1>3
  <2>2. /\ \A i \in 1..Len(inbound[c]) : inbound'[c][i] = inbound[c][i]
        /\ inbound'[c][Len(inbound[c]) + 1].n = sent[c] + 1
    BY <1>2, <1>3
  <2>3. sent[c] + 1 = Handled(c) + (Len(inbound[c]) + 1)
    BY <1>3, <2>1 DEF Handled
  <2>4. ASSUME NEW i \in 1..Len(inbound'[c]) PROVE inbound'[c][i].n = Handled(c) + i
    <3>1. CASE i \in 1..Len(inbound[c])
      BY <2>2, <3>1, Zenon DEF InboundInv
    <3>2. CASE i = Len(inbound[c]) + 1
      BY <2>2, <2>3, <3>2, Zenon
    <3> QED
      BY <2>1, <3>1, <3>2
  <2>5. ASSUME NEW x \in Clients, x # c, NEW i \in 1..Len(inbound'[x])
        PROVE  inbound'[x][i].n = Handled(x) + i
    BY <1>3, <2>5, ZenonT(30) DEF InboundInv
  <2> QED
    BY <1>4, <2>4, <2>5, Zenon DEF InboundInv
<1>6. LinkInv'
  BY <1>0, <1>4, Zenon DEF LinkInv
<1>9. Posted' = Posted
  BY <1>0, Zenon DEF Posted
<1>7. OwedInv'
  <2>1. \A d : Deferred(d) => Deferred(d)'
    BY <1>0, Zenon DEF Deferred
  <2> QED
    BY <1>0, <1>9, <2>1, Zenon DEF OwedInv
<1>8. AnswerInv'
  <2>1. \A fd \in DOMAIN conns :
          received'[conns[fd].client] \o sockbuf'[conns[fd].client] \o conns'[fd].outbound
            = Line(conns[fd].client, conns[fd].outbound)
    BY <1>0, Zenon DEF Line
  <2> QED
    BY <1>0, <1>4, <1>9, <2>1, Owners, LinesKept, Zenon
<1> QED
  BY <1>5, <1>6, <1>7, <1>8, Zenon

\* A client reads the first response in its socket.
LEMMA ReceiveFlow ==
  ASSUME TypeOK, LinkInv, InboundInv, OwedInv, AnswerInv, NEW c \in Clients, Receive(c)
  PROVE  LinkInv' /\ InboundInv' /\ OwedInv' /\ AnswerInv'
<1>0. /\ UNCHANGED <<conns, local, response_queue, owed, link, inbound, sent>>
      /\ sockbuf[c] # <<>>
      /\ received' = [received EXCEPT ![c] = Append(@, Head(sockbuf[c]))]
      /\ sockbuf' = [sockbuf EXCEPT ![c] = Tail(@)]
  BY Zenon DEF Receive, loopVars, postVars
<1>1. sockbuf \in [Clients -> Seq(Response)] /\ received \in [Clients -> Seq(Response)]
  BY DEF TypeOK, ClientType
<1>2. /\ received'[c] = Append(received[c], Head(sockbuf[c])) /\ sockbuf'[c] = Tail(sockbuf[c])
      /\ sockbuf[c] \in Seq(Response) /\ received[c] \in Seq(Response)
      /\ \A x \in Clients : x # c => received'[x] = received[x] /\ sockbuf'[x] = sockbuf[x]
  BY <1>0, <1>1
<1>3. \A x \in Clients : Handled(x)' = Handled(x)
  BY <1>0, Zenon DEF Handled
<1>4. InboundInv'
  BY <1>0, <1>3, Zenon DEF InboundInv
<1>5. LinkInv'
  <2>1. link[c] \notin {"new", "pending"}
    BY <1>0, Zenon DEF LinkInv
  <2> QED
    BY <1>0, <1>2, <1>3, <2>1, Zenon DEF LinkInv
<1>9. Posted' = Posted
  BY <1>0, Zenon DEF Posted
<1>6. OwedInv'
  <2>1. \A d : Deferred(d) => Deferred(d)'
    BY <1>0, Zenon DEF Deferred
  <2> QED
    BY <1>0, <1>9, <2>1, Zenon DEF OwedInv
<1>8. AnswerInv'
  <2>1. \A x \in Clients : received'[x] \o sockbuf'[x] = received[x] \o sockbuf[x]
    <3>1. received'[c] \o sockbuf'[c] = received[c] \o sockbuf[c]
      BY <1>0, <1>2, ResponseReceived, Zenon
    <3> QED
      BY <1>2, <3>1, Zenon
  <2>2. \A fd \in DOMAIN conns :
          received'[conns[fd].client] \o sockbuf'[conns[fd].client] \o conns'[fd].outbound
            = Line(conns[fd].client, conns[fd].outbound)
    BY <1>0, <2>1, Owners, Zenon DEF Line
  <2> QED
    BY <1>0, <1>3, <1>9, <2>2, Owners, LinesKept, Zenon
<1> QED
  BY <1>4, <1>5, <1>6, <1>8, Zenon

\* post_response moves a response from the thread that owes it to the queue.
LEMMA PostPushFlow ==
  ASSUME TypeOK, LinkInv, InboundInv, OwedInv, AnswerInv, NEW d \in owed, PostPush(d)
  PROVE  LinkInv' /\ InboundInv' /\ OwedInv' /\ AnswerInv'
<1>0. /\ UNCHANGED <<conns, local, link, inbound, sent, sockbuf, received>>
      /\ owed' = owed \ {d} /\ response_queue' = Append(response_queue, d)
  BY Zenon DEF PostPush, loopVars, clientVars
<1>1. d \in Pending /\ Posted \in Seq(Pending)
  BY Owners, Zenon
<1>2. Posted' = Append(Posted, d)
  BY <1>0, <1>1, LineAppend, Owners DEF Posted
<1>3. \A c \in Clients : Handled(c)' = Handled(c)
  BY <1>0, Zenon DEF Handled
<1>4. LinkInv' /\ InboundInv'
  BY <1>0, <1>3, Zenon DEF LinkInv, InboundInv
<1>5. OwedInv'
  <2>1. \A x : Deferred(x) => Deferred(x)'
    BY <1>0, Zenon DEF Deferred
  <2>2. IsFiniteSet(owed')
    BY <1>0, FS_RemoveElement, Zenon DEF OwedInv
  <2>3. \A i \in 1..Len(Posted') : Posted'[i] = d \/ (i \in 1..Len(Posted) /\ Posted'[i] = Posted[i])
    BY <1>1, <1>2
  <2> QED
    BY <1>0, <2>1, <2>2, <2>3, Zenon DEF OwedInv
<1>6. ASSUME NEW c \in Clients, NEW out \in Seq(Response), Answers(c, out) PROVE Answers(c, out)'
  <2>1. Line(c, out)' = Line(c, out)
    BY <1>0, Zenon DEF Line
  <2>2. ASSUME NEW n \in Nat PROVE Total(c, n, out)' = Total(c, n, out)
    <3>1. Hits(Append(Posted, d), For(c, n)) =
            Hits(Posted, For(c, n)) + (IF d \in For(c, n) THEN 1 ELSE 0)
      BY <1>1, HitsAppend, ZenonT(30)
    <3>2. /\ IsFiniteSet(owed \cap For(c, n)) /\ Cardinality(owed \cap For(c, n)) \in Nat
          /\ Hits(Posted, For(c, n)) \in Nat /\ Hits(Line(c, out), Of(c, n)) \in Nat
      BY TotalType, Zenon DEF OwedInv
    <3>3. Cardinality((owed \ {d}) \cap For(c, n)) =
            Cardinality(owed \cap For(c, n)) - (IF d \in For(c, n) THEN 1 ELSE 0)
      <4>1. (owed \ {d}) \cap For(c, n) = (owed \cap For(c, n)) \ {d}
        BY Zenon
      <4>2. Cardinality((owed \cap For(c, n)) \ {d}) =
              IF d \in owed \cap For(c, n) THEN Cardinality(owed \cap For(c, n)) - 1
              ELSE Cardinality(owed \cap For(c, n))
        BY <3>2, FS_RemoveElement, Zenon
      <4>3. d \in owed \cap For(c, n) <=> d \in For(c, n)
        BY Zenon
      <4> HIDE DEF For
      <4>4. CASE d \in For(c, n)
        BY <4>1, <4>2, <4>3, <4>4, Zenon
      <4>5. CASE d \notin For(c, n)
        <5>1. Cardinality((owed \ {d}) \cap For(c, n)) = Cardinality(owed \cap For(c, n))
          BY <4>1, <4>2, <4>3, <4>5, Zenon
        <5> QED
          BY <3>2, <4>5, <5>1
      <4> QED
        BY <4>4, <4>5, Zenon
    <3>4. Total(c, n, out)' = Cardinality((owed \ {d}) \cap For(c, n))
                              + Hits(Append(Posted, d), For(c, n)) + Hits(Line(c, out), Of(c, n))
      BY <1>0, <1>2, <2>1, Zenon DEF Total
    <3> QED
      BY <3>1, <3>2, <3>3, <3>4 DEF Total
  <2> QED
    BY <1>3, <1>6, <2>1, <2>2, Zenon DEF Answers
<1>7. AnswerInv'
  BY <1>0, <1>6, Owners, Zenon DEF AnswerInv
<1> QED
  BY <1>4, <1>5, <1>7, Zenon

\* drain_response_queue takes the whole queue; its local queue was empty.
LEMMA DrainSwapFlow ==
  ASSUME TypeOK, LinkInv, InboundInv, OwedInv, LocalInv, AnswerInv, DrainSwap
  PROVE  LinkInv' /\ InboundInv' /\ OwedInv' /\ AnswerInv'
<1>0. /\ UNCHANGED <<conns, owed, link, inbound, sent, sockbuf, received>>
      /\ local' = response_queue /\ response_queue' = <<>> /\ local = <<>>
  BY Zenon DEF DrainSwap, LocalInv, clientVars
<1>1. Posted' = Posted
  <2>1. response_queue \o <<>> = <<>> \o response_queue
    BY Owners
  <2> QED
    BY <1>0, <2>1, Zenon DEF Posted
<1>2. \A c \in Clients : Handled(c)' = Handled(c)
  BY <1>0, Zenon DEF Handled
<1>3. LinkInv' /\ InboundInv'
  BY <1>0, <1>2, Zenon DEF LinkInv, InboundInv
<1>4. OwedInv'
  <2>1. \A x : Deferred(x) => Deferred(x)'
    BY <1>0, Zenon DEF Deferred
  <2> QED
    BY <1>0, <1>1, <2>1, Zenon DEF OwedInv
<1>5. AnswerInv'
  <2>1. \A fd \in DOMAIN conns :
          received'[conns[fd].client] \o sockbuf'[conns[fd].client] \o conns'[fd].outbound
            = Line(conns[fd].client, conns[fd].outbound)
    BY <1>0, Zenon DEF Line
  <2> QED
    BY <1>0, <1>1, <1>2, <2>1, Owners, LinesKept, Zenon
<1> QED
  BY <1>3, <1>4, <1>5, Zenon

\* A connection whose outbound changed.
LEMMA OutboundFacts ==
  ASSUME TypeOK, NEW fd \in DOMAIN conns, NEW new \in Connection,
         conns' = [conns EXCEPT ![fd] = new], new.client = conns[fd].client
  PROVE  /\ DOMAIN conns' = DOMAIN conns /\ conns'[fd] = new
         /\ \A x \in DOMAIN conns : x # fd => conns'[x] = conns[x]
         /\ \A x \in DOMAIN conns : conns'[x].client = conns[x].client
BY Zenon DEF TypeOK, ConnType

\* on_writable hands a part of outbound to the socket, or to nobody once the
\* client has closed its end.
LEMMA WriteSomeFlow ==
  ASSUME TypeOK, LinkInv, InboundInv, OwedInv, AnswerInv, WriteSome
  PROVE  LinkInv' /\ InboundInv' /\ OwedInv' /\ AnswerInv'
<1> DEFINE fd == loop.fd
           c == conns[fd].client
           out == conns[fd].outbound
<1>0. /\ UNCHANGED <<local, response_queue, owed, link, inbound, sent, received>>
      /\ fd \in DOMAIN conns
  BY Zenon DEF WriteSome, postVars, TypeOK, LoopType
<1>1. PICK k \in 0..Len(out) :
        /\ Sent(fd, k)
        /\ sockbuf' = IF link[c] = "open" THEN [sockbuf EXCEPT ![c] = @ \o SubSeq(out, 1, k)] ELSE sockbuf
  BY Zenon DEF WriteSome
<1> DEFINE rest == SubSeq(out, k + 1, Len(out))
<1>2. c \in Clients /\ out \in Seq(Response) /\ conns[fd] \in Connection
  BY <1>0, Owners, Zenon DEF TypeOK, ConnType
<1>3. /\ SubSeq(out, 1, k) \in Seq(Response) /\ rest \in Seq(Response)
      /\ SubSeq(out, 1, k) \o rest = out
  BY <1>2, SplitFacts, Zenon
<1>13. ASSUME NEW r \in Seq(Response), NEW q \in Seq(Response)
       PROVE  (r \o (q \o SubSeq(out, 1, k))) \o rest = (r \o q) \o out
  <2>1. \A o \in Seq(Response) : \A j \in 0..Len(o) :
          (r \o (q \o SubSeq(o, 1, j))) \o SubSeq(o, j + 1, Len(o)) = (r \o q) \o o
    BY LineSend, Zenon
  <2> QED
    BY <1>2, <2>1, Zenon
<1> HIDE DEF rest
<1>4. /\ DOMAIN conns' = DOMAIN conns /\ conns'[fd].outbound = rest
      /\ \A x \in DOMAIN conns : x # fd => conns'[x] = conns[x]
      /\ \A x \in DOMAIN conns : conns'[x].client = conns[x].client
  <2>1. conns' = [conns EXCEPT ![fd].outbound = rest, ![fd].read_disabled = @ /\ rest # <<>>]
    BY <1>1, Zenon DEF Sent, rest
  <2> QED
    BY <1>0, <1>2, <2>1, Zenon DEF TypeOK, ConnType, Connection
<1>5. \A x \in Clients : Handled(x)' = Handled(x)
  BY <1>0, Zenon DEF Handled
<1>6. Posted' = Posted
  BY <1>0, Zenon DEF Posted
<1>7. sockbuf \in [Clients -> Seq(Response)] /\ received \in [Clients -> Seq(Response)]
  BY DEF TypeOK, ClientType
<1> HIDE DEF fd, c, out
<1>8. \A x \in Clients : x # c => sockbuf'[x] = sockbuf[x]
  BY <1>1, <1>7
<1>9. link[c] = "open" => sockbuf'[c] = sockbuf[c] \o SubSeq(out, 1, k)
  BY <1>1, <1>2, <1>7, Zenon
<1>10. LinkInv' /\ InboundInv'
  <2>1. link[c] \notin {"new", "pending"}
    BY <1>0, Zenon DEF LinkInv, c
  <2>2. \A x \in Clients : link'[x] \in {"new", "pending"} =>
          received'[x] = <<>> /\ sockbuf'[x] = <<>> /\ Handled(x)' = 0
    BY <1>0, <1>5, <1>8, <2>1, Zenon DEF LinkInv
  <2>3. /\ \A x, y \in DOMAIN conns' : conns'[x].client = conns'[y].client => x = y
        /\ \A x \in DOMAIN conns' : link'[conns'[x].client] \in {"open", "closed", "reset"}
    BY <1>0, <1>4, Zenon DEF LinkInv
  <2>4. InboundInv'
    BY <1>0, <1>5, Zenon DEF InboundInv
  <2> QED
    BY <2>2, <2>3, <2>4, Zenon DEF LinkInv
<1>11. OwedInv'
  <2>1. \A x : Deferred(x) => Deferred(x)'
    BY <1>0, <1>4, Zenon DEF Deferred
  <2> QED
    BY <1>0, <1>6, <2>1, Zenon DEF OwedInv
<1>12. AnswerInv'
  <2>1. ASSUME link[c] = "open"
        PROVE  received'[c] \o sockbuf'[c] \o rest = Line(c, out)
    <3>1. sockbuf[c] \in Seq(Response) /\ received[c] \in Seq(Response)
      BY <1>2, <1>7, Zenon
    <3>3. (received[c] \o (sockbuf[c] \o SubSeq(out, 1, k))) \o rest = (received[c] \o sockbuf[c]) \o out
      BY <1>13, <3>1, Zenon
    <3> QED
      BY <1>0, <1>9, <2>1, <3>3, Zenon DEF Line
  <2>2. ASSUME NEW x \in DOMAIN conns', link'[conns'[x].client] = "open"
        PROVE  /\ x \in DOMAIN conns /\ conns'[x].client = conns[x].client
               /\ link[conns[x].client] = "open" /\ conns[x].client \in Clients
               /\ received'[conns[x].client] \o sockbuf'[conns[x].client] \o conns'[x].outbound
                    = Line(conns[x].client, conns[x].outbound)
    <3>1. /\ x \in DOMAIN conns /\ conns'[x].client = conns[x].client
          /\ link[conns[x].client] = "open" /\ conns[x].client \in Clients
      BY <1>0, <1>4, <2>2, Owners, Zenon
    <3>2. CASE x = fd
      BY <1>4, <2>1, <3>1, <3>2, Zenon DEF c, out
    <3>3. CASE x # fd
      <4>1. conns[x].client # c /\ conns'[x] = conns[x]
        BY <1>0, <1>4, <3>1, <3>3, Zenon DEF LinkInv, c
      <4> QED
        BY <1>0, <1>8, <3>1, <4>1, Zenon DEF Line
    <3> QED
      BY <3>1, <3>2, <3>3, Zenon
  <2> QED
    BY <1>0, <1>5, <1>6, <2>2, LinesKept, Zenon
<1> QED
  BY <1>10, <1>11, <1>12

\* A response is added at the end of a client's outbound.
LEMMA LineGrows ==
  ASSUME TypeOK, NEW c \in Clients, NEW out \in Seq(Response), NEW r \in Response
  PROVE  Line(c, Append(out, r)) = Append(Line(c, out), r)
<1>1. received[c] \o sockbuf[c] \in Seq(Response)
  BY DEF TypeOK, ClientType
<1>2. PICK s \in Seq(Response) : s = received[c] \o sockbuf[c]
  BY <1>1, Zenon
<1>3. s \o Append(out, r) = Append(s \o out, r)
  BY LineAppend
<1> QED
  BY <1>2, <1>3, Zenon DEF Line

\* The first posted response is taken, and goes to the client if it is its own.
LEMMA DrainCount ==
  ASSUME TypeOK, OwedInv, NEW c \in Clients, NEW n \in Nat, NEW out \in Seq(Response),
         Posted # <<>>, NEW new \in Seq(Response), NEW d \in Pending, d = Head(Posted),
         \/ new = Append(Line(c, out), d.resp)
         \/ new = Line(c, out) /\ d.resp.client # c
  PROVE  Cardinality(owed \cap For(c, n)) + Hits(Tail(Posted), For(c, n)) + Hits(new, Of(c, n))
           = Total(c, n, out)
<1> DEFINE one == IF d \in For(c, n) THEN 1 ELSE 0
<1>1. /\ Cardinality(owed \cap For(c, n)) \in Nat
      /\ Hits(Posted, For(c, n)) \in Nat /\ Hits(Line(c, out), Of(c, n)) \in Nat
  BY TotalType, Zenon DEF OwedInv
<1>2. /\ Posted \in Seq(Pending) /\ Tail(Posted) \in Seq(Pending) /\ d.resp \in Response
      /\ Line(c, out) \in Seq(Response)
  BY Owners, HeadTailFacts, Zenon
<1>3. Hits(Posted, For(c, n)) = (IF Head(Posted) \in For(c, n) THEN 1 ELSE 0) + Hits(Tail(Posted), For(c, n))
  BY <1>2, HitsHead, Zenon
<1>4. Hits(Tail(Posted), For(c, n)) \in Nat
  BY <1>2, HitsType, Zenon
<1>5. d \in For(c, n) <=> d.resp \in Of(c, n)
  BY Zenon DEF For
<1>6. Hits(new, Of(c, n)) = Hits(Line(c, out), Of(c, n)) + (IF d.resp \in Of(c, n) THEN 1 ELSE 0)
  <2>1. CASE new = Append(Line(c, out), d.resp)
    <3>1. Hits(Append(Line(c, out), d.resp), Of(c, n))
            = Hits(Line(c, out), Of(c, n)) + (IF d.resp \in Of(c, n) THEN 1 ELSE 0)
      BY <1>2, HitsAppend
    <3> QED
      BY <2>1, <3>1, Zenon
  <2>2. CASE new = Line(c, out) /\ d.resp.client # c
    <3>1. d.resp \notin Of(c, n)
      BY <2>2, Zenon DEF Of
    <3> QED
      BY <1>1, <2>2, <3>1
  <2> QED
    BY <2>1, <2>2, Zenon
<1>7. CASE d \in For(c, n)
  <2>1. /\ Hits(Posted, For(c, n)) = 1 + Hits(Tail(Posted), For(c, n))
        /\ Hits(new, Of(c, n)) = Hits(Line(c, out), Of(c, n)) + 1
    BY <1>3, <1>5, <1>6, <1>7, Zenon
  <2> QED
    BY <1>1, <1>4, <2>1 DEF Total
<1>8. CASE d \notin For(c, n)
  <2>1. /\ Hits(Posted, For(c, n)) = 0 + Hits(Tail(Posted), For(c, n))
        /\ Hits(new, Of(c, n)) = Hits(Line(c, out), Of(c, n)) + 0
    BY <1>3, <1>5, <1>6, <1>8, Zenon
  <2> QED
    BY <1>1, <1>4, <2>1 DEF Total
<1> QED
  BY <1>7, <1>8, Zenon

\* One response of the local queue goes to the connection with its descriptor:
\* its own client's, or one that has the descriptor after it.
LEMMA DrainFlow ==
  ASSUME TypeOK, LinkInv, InboundInv, OwedInv, AnswerInv, DrainResponse
  PROVE  LinkInv' /\ InboundInv' /\ OwedInv' /\ AnswerInv'
<1> DEFINE d == Head(local)
<1>0. /\ UNCHANGED <<response_queue, owed, link, inbound, sent, sockbuf, received>>
      /\ local # <<>> /\ local' = Tail(local)
  BY Zenon DEF DrainResponse, postVars, clientVars
<1>1. d \in Pending /\ d.resp \in Response /\ local \in Seq(Pending) /\ response_queue \in Seq(Pending)
  BY <1>0, Owners, HeadTailFacts, Zenon
<1>2. Posted # <<>> /\ Head(Posted) = d /\ Posted' = Tail(Posted) /\ Posted \in Seq(Pending)
  BY <1>0, <1>1 DEF Posted
<1>3. Deferred(d)
  <2>1. 1 \in 1..Len(Posted) /\ Posted[1] = d
    BY <1>2
  <2> QED
    BY <2>1, Zenon DEF OwedInv
<1>4. /\ DOMAIN conns' = DOMAIN conns
      /\ \A x \in DOMAIN conns : conns'[x].client = conns[x].client
      /\ \A x \in DOMAIN conns : x # d.fd => conns'[x] = conns[x]
      /\ d.fd \in DOMAIN conns => conns'[d.fd].outbound = Append(conns[d.fd].outbound, d.resp)
  <2>1. CASE d.fd \in DOMAIN conns
    <3>1. conns' = [conns EXCEPT ![d.fd].outbound = Append(@, d.resp)]
      BY <2>1, Zenon DEF DrainResponse
    <3> HIDE DEF d
    <3> QED
      BY <2>1, <3>1, Zenon DEF TypeOK, ConnType, Connection
  <2>2. CASE d.fd \notin DOMAIN conns
    BY <2>2, Zenon DEF DrainResponse
  <2> QED
    BY <2>1, <2>2, Zenon
<1> HIDE DEF d
<1>5. \A c \in Clients : Handled(c)' = Handled(c)
  BY <1>0, Zenon DEF Handled
<1>6. LinkInv' /\ InboundInv'
  <2>1. \A x \in Clients : link'[x] \in {"new", "pending"} =>
          received'[x] = <<>> /\ sockbuf'[x] = <<>> /\ Handled(x)' = 0
    BY <1>0, <1>5, Zenon DEF LinkInv
  <2>2. /\ \A x, y \in DOMAIN conns' : conns'[x].client = conns'[y].client => x = y
        /\ \A x \in DOMAIN conns' : link'[conns'[x].client] \in {"open", "closed", "reset"}
    BY <1>0, <1>4, Zenon DEF LinkInv
  <2>3. InboundInv'
    BY <1>0, <1>5, Zenon DEF InboundInv
  <2> QED
    BY <2>1, <2>2, <2>3, Zenon DEF LinkInv
<1>7. OwedInv'
  <2>1. \A x : Deferred(x) => Deferred(x)'
    BY <1>0, <1>4, Zenon DEF Deferred
  <2>2. \A i \in 1..Len(Tail(Posted)) : i + 1 \in 1..Len(Posted) /\ Tail(Posted)[i] = Posted[i + 1]
    BY <1>2
  <2>3. \A i \in 1..Len(Tail(Posted)) : Deferred(Tail(Posted)[i])
    BY <2>2, Zenon DEF OwedInv
  <2> QED
    BY <1>0, <1>2, <2>1, <2>3, Zenon DEF OwedInv
<1>8. AnswerInv'
  <2> SUFFICES ASSUME NEW x \in DOMAIN conns', link'[conns'[x].client] = "open"
               PROVE  Answers(conns[x].client, conns[x].outbound)'
    BY Zenon DEF AnswerInv
  <2>1. x \in DOMAIN conns
    BY <1>4, Zenon
  <2>0. PICK c \in Clients, out \in Seq(Response) :
          c = conns[x].client /\ c = conns'[x].client /\ out = conns[x].outbound
    BY <1>4, <2>1, Owners, Zenon
  <2>2. PICK new : /\ c = conns[x].client /\ c = conns'[x].client
                   /\ out = conns[x].outbound /\ new = conns'[x].outbound
    BY <2>0, Zenon
  <2>3. Answers(c, out)
    BY <1>0, <2>1, <2>2, Zenon DEF AnswerInv
  <2>4. \/ x = d.fd /\ new = Append(out, d.resp)
        \/ x # d.fd /\ new = out /\ d.resp.client # c
    BY <1>3, <1>4, <2>1, <2>2, Zenon DEF Deferred
  <2>5. /\ Line(c, out) \in Seq(Response) /\ Line(c, new) \in Seq(Response)
        /\ \/ Line(c, new) = Append(Line(c, out), d.resp)
           \/ Line(c, new) = Line(c, out) /\ d.resp.client # c
    <3>0. Append(out, d.resp) \in Seq(Response)
      BY <1>1
    <3>1. new \in Seq(Response)
      BY <2>4, <3>0, Zenon
    <3>2. Line(c, out) \in Seq(Response) /\ Line(c, new) \in Seq(Response)
      BY <3>1, Owners, Zenon
    <3>3. Line(c, Append(out, d.resp)) = Append(Line(c, out), d.resp)
      BY <1>1, LineGrows, Zenon
    <3> QED
      BY <2>4, <3>2, <3>3, Zenon
  <2>6. Line(c, new)' = Line(c, new)
    BY <1>0, Zenon DEF Line
  <2>7. ASSUME NEW n \in Nat PROVE Total(c, n, new)' = Total(c, n, out)
    <3>1. Total(c, n, new)' = Cardinality(owed \cap For(c, n)) + Hits(Tail(Posted), For(c, n))
                                + Hits(Line(c, new), Of(c, n))
      BY <1>0, <1>2, <2>6, Zenon DEF Total
    <3> QED
      BY <1>1, <1>2, <2>5, <3>1, DrainCount, ZenonT(30)
  <2>8. Sorted(c, Line(c, new), Handled(c))
    <3>1. Handled(c) \in Nat /\ Handled(c) <= Handled(c) /\ d.resp.deferred
      BY <1>3, SMTT(30) DEF InboundInv, Deferred
    <3>2. Sorted(c, Line(c, out), Handled(c))
      BY <2>3, Zenon DEF Answers
    <3> QED
      BY <1>1, <2>5, <3>1, <3>2, SortedAppend, Zenon
  <2>9. Answers(c, new)'
    BY <1>5, <2>3, <2>6, <2>7, <2>8, Zenon DEF Answers
  <2> QED
    BY <2>2, <2>9, Zenon
<1> QED
  BY <1>6, <1>7, <1>8, Zenon

\* A client that is accepted has no response anywhere.
LEMMA AcceptFlow ==
  ASSUME TypeOK, LinkInv, InboundInv, OwedInv, AnswerInv, NEW c \in Clients, Accept(c)
  PROVE  LinkInv' /\ InboundInv' /\ OwedInv' /\ AnswerInv'
<1>0. /\ UNCHANGED <<local, response_queue, owed, inbound, sent, sockbuf, received>>
      /\ link[c] = "pending" /\ link' = [link EXCEPT ![c] = "open"]
  BY Zenon DEF Accept, loopVars, postVars
<1>1. PICK fd \in Free :
        conns' = [x \in DOMAIN conns \cup {fd} |->
                    IF x = fd THEN [client |-> c, outbound |-> <<>>, read_disabled |-> FALSE]
                    ELSE conns[x]]
  BY Zenon DEF Accept
<1>2. /\ DOMAIN conns' = DOMAIN conns \cup {fd} /\ fd \notin DOMAIN conns
      /\ conns'[fd].client = c /\ conns'[fd].outbound = <<>>
      /\ \A x \in DOMAIN conns : conns'[x] = conns[x]
  BY <1>1, Zenon DEF Free
<1>3. link'[c] = "open" /\ \A x \in Clients : x # c => link'[x] = link[x]
  BY <1>0, Zenon DEF TypeOK, ClientType
<1>4. \A x \in DOMAIN conns : conns[x].client \in Clients /\ conns[x].client # c
  BY <1>0, Owners, Zenon DEF LinkInv
<1>5. \A x \in Clients : Handled(x)' = Handled(x)
  BY <1>0, Zenon DEF Handled
<1>6. Posted' = Posted
  BY <1>0, Zenon DEF Posted
<1>7. LinkInv' /\ InboundInv'
  <2>1. \A x, y \in DOMAIN conns' : conns'[x].client = conns'[y].client => x = y
    BY <1>2, <1>4, Zenon DEF LinkInv
  <2>2. \A x \in DOMAIN conns' : link'[conns'[x].client] \in {"open", "closed", "reset"}
    <3>1. ASSUME NEW x \in DOMAIN conns PROVE link'[conns'[x].client] \in {"open", "closed", "reset"}
      <4>1. PICK a \in Clients : a = conns[x].client /\ a = conns'[x].client /\ a # c
        BY <1>2, <1>4, Zenon
      <4>2. link[a] \in {"open", "closed", "reset"} /\ link'[a] = link[a]
        BY <1>3, <4>1, Zenon DEF LinkInv
      <4> QED
        BY <4>1, <4>2, Zenon
    <3>2. link'[conns'[fd].client] \in {"open", "closed", "reset"}
      BY <1>2, <1>3, Zenon
    <3> QED
      BY <1>2, <3>1, <3>2, Zenon
  <2>3. \A x \in Clients : link'[x] \in {"new", "pending"} =>
          received'[x] = <<>> /\ sockbuf'[x] = <<>> /\ Handled(x)' = 0
    BY <1>0, <1>3, <1>5, Zenon DEF LinkInv
  <2>4. InboundInv'
    BY <1>0, <1>5, Zenon DEF InboundInv
  <2> QED
    BY <2>1, <2>2, <2>3, <2>4, Zenon DEF LinkInv
<1>8. \A d \in Pending : Deferred(d) => d.resp.client # c /\ Deferred(d)'
  <2> SUFFICES ASSUME NEW d \in Pending, Deferred(d) PROVE d.resp.client # c /\ Deferred(d)'
    BY Zenon
  <2>1. d.resp.client \in Clients /\ d.resp.client # c
    BY <1>0, Owners, Zenon DEF Deferred
  <2>2. link'[d.resp.client] \notin {"new", "pending"}
    BY <1>3, <2>1, Zenon DEF Deferred
  <2>3. \A x \in DOMAIN conns' : conns'[x].client = d.resp.client => d.fd = x
    BY <1>2, <2>1, Zenon DEF Deferred
  <2> QED
    BY <2>1, <2>2, <2>3, Zenon DEF Deferred
<1>9. OwedInv'
  BY <1>0, <1>6, <1>8, Owners, Zenon DEF OwedInv
<1>10. Answers(c, <<>>)'
  <2>1. Line(c, <<>>)' = <<>>
    <3>1. received'[c] = <<>> /\ sockbuf'[c] = <<>>
      BY <1>0, Zenon DEF LinkInv
    <3> QED
      BY <3>1 DEF Line
  <2>2. Handled(c)' = 0
    BY <1>0, <1>5, Zenon DEF LinkInv
  <2>3. ASSUME NEW n \in Nat PROVE Total(c, n, <<>>)' = 0
    <3>1. owed \cap For(c, n) = {}
      BY <1>8, Zenon DEF OwedInv, For, Of
    <3>2. {i \in DOMAIN Posted : Posted[i] \in For(c, n)} = {}
      <4>1. DOMAIN Posted = 1..Len(Posted)
        BY Owners
      <4> QED
        BY <1>8, <4>1, Zenon DEF OwedInv, For, Of
    <3>3. Hits(Posted, For(c, n)) = 0 /\ Cardinality(owed \cap For(c, n)) = 0
      BY <3>1, <3>2, FS_EmptySet, Zenon DEF Hits
    <3>4. Total(c, n, <<>>)' = 0 + 0 + 0
      BY <1>0, <1>6, <2>1, <3>3, HitsEmpty, Zenon DEF Total
    <3> QED
      BY <3>4
  <2>4. Sorted(c, <<>>, 0)
    BY DEF Sorted
  <2>5. \A n \in Nat : n \notin 1..0
    OBVIOUS
  <2> QED
    BY <2>1, <2>2, <2>3, <2>4, <2>5, Zenon DEF Answers
<1>11. AnswerInv'
  <2> SUFFICES ASSUME NEW x \in DOMAIN conns', link'[conns'[x].client] = "open"
               PROVE  Answers(conns[x].client, conns[x].outbound)'
    BY Zenon DEF AnswerInv
  <2>1. CASE x = fd
    BY <1>2, <1>10, <2>1, Zenon
  <2>2. CASE x # fd
    <3>1. PICK a \in Clients, out \in Seq(Response) :
            /\ a = conns[x].client /\ a = conns'[x].client /\ a # c
            /\ out = conns[x].outbound /\ out = conns'[x].outbound
      BY <1>2, <1>4, <2>2, Owners, Zenon
    <3>2. Answers(a, out)
      <4>1. x \in DOMAIN conns
        BY <1>2, <2>2, Zenon
      <4>2. link[conns[x].client] = "open"
        BY <1>3, <3>1, Zenon
      <4> QED
        BY <3>1, <4>1, <4>2, Zenon DEF AnswerInv
    <3>3. Line(a, out)' = Line(a, out)
      BY <1>0, Zenon DEF Line
    <3>4. Answers(a, out)'
      BY <1>0, <1>5, <1>6, <3>2, <3>3, AnswersSame, Zenon
    <3> QED
      BY <3>1, <3>4, Zenon
  <2> QED
    BY <2>1, <2>2
<1> QED
  BY <1>7, <1>9, <1>11, Zenon

\* Handling the next frame numbers the waiting requests on.
LEMMA InboundTail ==
  ASSUME TypeOK, InboundInv, NEW c \in Clients, NEW j \in 1..Len(inbound[c]), sent' = sent,
         inbound' = [inbound EXCEPT ![c] = SubSeq(@, j + 1, Len(@))]
  PROVE  /\ InboundInv' /\ Handled(c)' = Handled(c) + j
         /\ \A x \in Clients : x # c => inbound'[x] = inbound[x] /\ Handled(x)' = Handled(x)
<1>1. inbound \in [Clients -> Seq(Request)] /\ sent \in [Clients -> Nat]
  BY Zenon DEF TypeOK, ClientType
<1>2. /\ inbound'[c] = SubSeq(inbound[c], j + 1, Len(inbound[c]))
      /\ \A x \in Clients : x # c => inbound'[x] = inbound[x]
  BY <1>1
<1>3. inbound[c] \in Seq(Request) /\ sent[c] \in Nat /\ Len(inbound[c]) \in Nat
  BY <1>1
<1>4. /\ Len(inbound'[c]) = Len(inbound[c]) - j
      /\ \A i \in 1..(Len(inbound[c]) - j) : inbound'[c][i] = inbound[c][j + i]
  <2>1. /\ Len(SubSeq(inbound[c], j + 1, Len(inbound[c]))) = Len(inbound[c]) - j
        /\ \A i \in 1..(Len(inbound[c]) - j) :
             SubSeq(inbound[c], j + 1, Len(inbound[c]))[i] = inbound[c][j + i]
    BY <1>3, DropFacts, Zenon
  <2> QED
    BY <1>2, <2>1, Zenon
<1>5. Handled(c)' = Handled(c) + j
  <2>1. Handled(c)' = sent[c] - (Len(inbound[c]) - j)
    BY <1>4, Zenon DEF Handled
  <2>2. sent[c] - (Len(inbound[c]) - j) = (sent[c] - Len(inbound[c])) + j
    BY <1>3
  <2> QED
    BY <2>1, <2>2, Zenon DEF Handled
<1>6. \A x \in Clients : x # c => Handled(x)' = Handled(x)
  BY <1>2, Zenon DEF Handled
<1>7. InboundInv'
  <2>1. Handled(c) \in Nat /\ \A i \in 1..Len(inbound[c]) : inbound[c][i].n = Handled(c) + i
    BY Zenon DEF InboundInv
  <2>2. ASSUME NEW i \in 1..Len(inbound'[c]) PROVE inbound'[c][i].n = (Handled(c) + j) + i
    <3>1. j + i \in 1..Len(inbound[c]) /\ inbound'[c][i] = inbound[c][j + i]
      BY <1>3, <1>4
    <3>2. inbound[c][j + i].n = Handled(c) + (j + i)
      BY <2>1, <3>1, Zenon
    <3> QED
      BY <2>1, <3>1, <3>2
  <2>3. Handled(c) + j \in Nat
    BY <2>1
  <2>4. \A x \in Clients : x # c =>
          Handled(x)' \in Nat /\ \A i \in 1..Len(inbound'[x]) : inbound'[x][i].n = Handled(x)' + i
    BY <1>2, <1>6 DEF InboundInv
  <2> QED
    BY <1>5, <2>2, <2>3, <2>4, Zenon DEF InboundInv
<1> QED
  BY <1>2, <1>5, <1>6, <1>7, Zenon

\* The counts for m add up to one for each m up to h, and to none above.
OneUpTo(h, m, a, b, x) == a + b + x = IF m \in 1..h THEN 1 ELSE 0

\* A count for m when the response to frame h + 1 joins those that are counted.
Joined(h, m, x) == x + (IF m = h + 1 THEN 1 ELSE 0)

\* The next one is counted.
LEMMA CountNext ==
  ASSUME NEW a \in Nat, NEW b \in Nat, NEW x \in Nat, NEW h \in Nat, NEW m \in Nat,
         OneUpTo(h, m, a, b, x)
  PROVE  /\ OneUpTo(h + 1, m, a, b, Joined(h, m, x))
         /\ OneUpTo(h + 1, m, Joined(h, m, a), b, x)
         /\ m = h + 1 => a = 0
  BY DEF OneUpTo, Joined

\* One more response at the end of a line.
LEMMA LineHits ==
  ASSUME NEW s \in Seq(Response), NEW e \in Response, NEW E
  PROVE  Hits(Append(s, e), E) = Hits(s, E) + (IF e \in E THEN 1 ELSE 0)
  BY HitsAppend

\* The elements of a line are responses.
LEMMA ResponsesOf == \A s \in Seq(Response) : \A i \in DOMAIN s : s[i] \in Response
  OBVIOUS

\* Nothing is added to a count.
LEMMA PlusNone == \A a \in Nat : a + 0 = a
  OBVIOUS

\* The response that the handler returned is the next in the line of its client.
LEMMA AnsweredNow ==
  ASSUME TypeOK, OwedInv, NEW c \in Clients, NEW out \in Seq(Response), Answers(c, out),
         NEW h \in Nat, h = Handled(c), NEW r \in Response, r.client = c, r.n = h + 1,
         owed' = owed, Posted' = Posted, Handled(c)' = h + 1,
         received'[c] = received[c], sockbuf'[c] = sockbuf[c], NEW new, new = Append(out, r)
  PROVE  Answers(c, new)'
<1>1. Line(c, new)' = Append(Line(c, out), r)
  <2>1. Line(c, new)' = Line(c, new)
    BY Zenon DEF Line
  <2> QED
    BY <2>1, LineGrows, Zenon
<1>2. Line(c, out) \in Seq(Response)
  BY Owners, Zenon
<1>3. ASSUME NEW m \in Nat PROVE Total(c, m, new)' = IF m \in 1..(h + 1) THEN 1 ELSE 0
  <2>1. Hits(Append(Line(c, out), r), Of(c, m))
          = Hits(Line(c, out), Of(c, m)) + (IF r \in Of(c, m) THEN 1 ELSE 0)
    <3>1. PICK s \in Seq(Response) : s = Line(c, out)
      BY <1>2, Zenon
    <3>2. Hits(Append(s, r), Of(c, m)) = Hits(s, Of(c, m)) + (IF r \in Of(c, m) THEN 1 ELSE 0)
      BY LineHits, ZenonT(30)
    <3> QED
      BY <3>1, <3>2, Zenon
  <2>2. r \in Of(c, m) <=> m = h + 1
    BY Zenon DEF Of
  <2>3. /\ Cardinality(owed \cap For(c, m)) \in Nat
        /\ Hits(Posted, For(c, m)) \in Nat /\ Hits(Line(c, out), Of(c, m)) \in Nat
    BY TotalType, Zenon DEF OwedInv
  <2>4. Total(c, m, new)' = Cardinality(owed \cap For(c, m)) + Hits(Posted, For(c, m))
                              + Hits(Append(Line(c, out), r), Of(c, m))
    BY <1>1, Zenon DEF Total
  <2>5. Hits(Append(Line(c, out), r), Of(c, m))
          = Hits(Line(c, out), Of(c, m)) + (IF m = h + 1 THEN 1 ELSE 0)
    BY <2>1, <2>2, Zenon
  <2>6. PICK a \in Nat, b \in Nat, x \in Nat :
          /\ a = Cardinality(owed \cap For(c, m)) /\ b = Hits(Posted, For(c, m))
          /\ x = Hits(Line(c, out), Of(c, m))
    BY <2>3, Zenon
  <2>7. OneUpTo(h, m, a, b, x)
    BY <2>6, Zenon DEF Answers, Total, OneUpTo
  <2>8. OneUpTo(h + 1, m, a, b, Joined(h, m, x))
    BY <2>7, CountNext, Zenon
  <2>9. Total(c, m, new)' = a + b + Joined(h, m, x)
    BY <2>4, <2>5, <2>6, Zenon DEF Joined
  <2> QED
    BY <2>8, <2>9, Zenon DEF OneUpTo
<1>4. Sorted(c, Append(Line(c, out), r), h + 1)
  <2>1. h + 1 \in Nat /\ h <= h + 1 /\ h < r.n /\ r.n <= h + 1
    OBVIOUS
  <2>2. Sorted(c, Line(c, out), h)
    BY Zenon DEF Answers
  <2> QED
    BY <1>2, <2>1, <2>2, SortedAppend, Zenon
<1> QED
  BY <1>1, <1>3, <1>4, Zenon DEF Answers

\* The response is left to another thread.
LEMMA AnsweredLater ==
  ASSUME TypeOK, OwedInv, NEW c \in Clients, NEW out \in Seq(Response), Answers(c, out),
         NEW h \in Nat, h = Handled(c), NEW e \in Pending, e.resp.client = c, e.resp.n = h + 1,
         owed' = owed \cup {e}, Posted' = Posted, Handled(c)' = h + 1,
         received'[c] = received[c], sockbuf'[c] = sockbuf[c]
  PROVE  Answers(c, out)' /\ IsFiniteSet(owed')
<1>1. Line(c, out)' = Line(c, out) /\ Line(c, out) \in Seq(Response)
  BY Owners, Zenon DEF Line
<1>2. \A m \in Nat : e \in For(c, m) <=> m = h + 1
  BY Owners, Zenon DEF For, Of
<1>3. \A m \in Nat : Total(c, m, out) = IF m \in 1..h THEN 1 ELSE 0
  BY Zenon DEF Answers
<1>4. e \notin owed
  <2>1. h + 1 \in Nat /\ h + 1 \notin 1..h
    OBVIOUS
  <2>2. OneUpTo(h, h + 1, Cardinality(owed \cap For(c, h + 1)), Hits(Posted, For(c, h + 1)),
                Hits(Line(c, out), Of(c, h + 1)))
    BY <1>3, <2>1, Zenon DEF Total, OneUpTo
  <2>3. /\ IsFiniteSet(owed \cap For(c, h + 1)) /\ Cardinality(owed \cap For(c, h + 1)) \in Nat
        /\ Hits(Posted, For(c, h + 1)) \in Nat /\ Hits(Line(c, out), Of(c, h + 1)) \in Nat
    BY <2>1, TotalType, Zenon DEF OwedInv
  <2>4. Cardinality(owed \cap For(c, h + 1)) = 0
    BY <2>1, <2>2, <2>3, CountNext, Zenon
  <2>5. owed \cap For(c, h + 1) = {}
    BY <2>3, <2>4, FS_EmptySet, Zenon
  <2>6. e \in For(c, h + 1)
    BY <1>2, <2>1, Zenon
  <2> QED
    BY <2>5, <2>6, Zenon
<1>5. ASSUME NEW m \in Nat PROVE Total(c, m, out)' = IF m \in 1..(h + 1) THEN 1 ELSE 0
  <2>1. /\ IsFiniteSet(owed \cap For(c, m)) /\ Cardinality(owed \cap For(c, m)) \in Nat
        /\ Hits(Posted, For(c, m)) \in Nat /\ Hits(Line(c, out), Of(c, m)) \in Nat
    BY TotalType, Zenon DEF OwedInv
  <2>2. Cardinality(owed' \cap For(c, m))
          = Cardinality(owed \cap For(c, m)) + (IF m = h + 1 THEN 1 ELSE 0)
    <3>1. CASE m = h + 1
      <4>1. owed' \cap For(c, m) = (owed \cap For(c, m)) \cup {e}
        BY <1>2, <3>1, Zenon
      <4>2. Cardinality((owed \cap For(c, m)) \cup {e}) = Cardinality(owed \cap For(c, m)) + 1
        BY <1>4, <2>1, FS_AddElement, Zenon
      <4> QED
        BY <3>1, <4>1, <4>2, Zenon
    <3>2. CASE m # h + 1
      <4>1. owed' \cap For(c, m) = owed \cap For(c, m)
        BY <1>2, <3>2, Zenon
      <4>2. Cardinality(owed' \cap For(c, m)) = Cardinality(owed \cap For(c, m))
        BY <4>1, Zenon
      <4> QED
        BY <2>1, <3>2, <4>2, PlusNone, Zenon
    <3> QED
      BY <3>1, <3>2, Zenon
  <2>3. Total(c, m, out)' = Cardinality(owed' \cap For(c, m)) + Hits(Posted, For(c, m))
                              + Hits(Line(c, out), Of(c, m))
    BY <1>1, Zenon DEF Total
  <2>4. PICK a \in Nat, b \in Nat, x \in Nat :
          /\ a = Cardinality(owed \cap For(c, m)) /\ b = Hits(Posted, For(c, m))
          /\ x = Hits(Line(c, out), Of(c, m))
    BY <2>1, Zenon
  <2>5. OneUpTo(h, m, a, b, x)
    BY <1>3, <2>4, Zenon DEF Total, OneUpTo
  <2>6. OneUpTo(h + 1, m, Joined(h, m, a), b, x)
    BY <2>5, CountNext, Zenon
  <2>7. Total(c, m, out)' = Joined(h, m, a) + b + x
    BY <2>2, <2>3, <2>4, Zenon DEF Joined
  <2> QED
    BY <2>6, <2>7, Zenon DEF OneUpTo
<1>6. Sorted(c, Line(c, out), h + 1)
  <2>1. PICK s \in Seq(Response) : s = Line(c, out) /\ Sorted(c, s, h)
    BY <1>1, Zenon DEF Answers
  <2>2. \A i \in DOMAIN s : s[i] \in Response
    BY ResponsesOf, Zenon
  <2>3. \A i \in DOMAIN s : s[i].n \in Nat
    BY <2>2, Zenon DEF Response
  <2>4. \A k \in Nat : k <= h => k <= h + 1
    OBVIOUS
  <2> QED
    BY <2>1, <2>3, <2>4, Zenon DEF Sorted
<1>7. IsFiniteSet(owed')
  BY FS_AddElement, Zenon DEF OwedInv
<1> QED
  BY <1>1, <1>5, <1>6, <1>7, Zenon DEF Answers

\* What handling a frame does to the queues.
LEMMA ReadRequestFacts ==
  ASSUME TypeOK, LinkInv, InboundInv, ReadRequest
  PROVE  \E fd \in DOMAIN conns, c \in Clients, r \in Response :
           /\ c = conns[fd].client /\ r.client = c /\ r.n = Handled(c) + 1
           /\ UNCHANGED <<local, response_queue, link, sent, sockbuf, received>>
           /\ DOMAIN conns' = DOMAIN conns
           /\ \A x \in DOMAIN conns : conns'[x].client = conns[x].client
           /\ \A x \in DOMAIN conns : x # fd => conns'[x] = conns[x]
           /\ \/ owed' = owed /\ conns'[fd].outbound = Append(conns[fd].outbound, r)
              \/ /\ owed' = owed \cup {[fd |-> fd, resp |-> r]} /\ r.deferred
                 /\ conns'[fd].outbound = conns[fd].outbound
           /\ InboundInv' /\ Handled(c)' = Handled(c) + 1
           /\ \A x \in Clients : x # c => Handled(x)' = Handled(x)
<1>0. loop.fd \in DOMAIN conns /\ conns[loop.fd].client \in Clients
  BY Owners, Zenon DEF ReadRequest, TypeOK, LoopType
<1>1. PICK fd \in DOMAIN conns, c \in Clients : fd = loop.fd /\ c = conns[loop.fd].client
  BY <1>0, Zenon
<1> DEFINE conn == conns[fd]
           req  == Head(inbound[c])
           resp == [client |-> c, n |-> req.n, deferred |-> req.kind = "later"]
           full == IF req.kind = "now" THEN [conn EXCEPT !.outbound = Append(@, resp)] ELSE conn
           new  == Backpressured(full)
<1>12. conn \in Connection /\ c = conn.client
  BY <1>1, Zenon DEF TypeOK, ConnType
<1>2. /\ UNCHANGED <<local, response_queue, link, sent, sockbuf, received>>
      /\ inbound[c] # <<>> /\ req.kind # "bad"
      /\ inbound' = [inbound EXCEPT ![c] = Tail(@)]
      /\ owed' = IF req.kind = "later" THEN owed \cup {[fd |-> fd, resp |-> resp]} ELSE owed
      /\ conns' = [conns EXCEPT ![fd] = new]
  BY <1>1, Zenon DEF ReadRequest, loopVars
<1>3. /\ inbound \in [Clients -> Seq(Request)] /\ inbound[c] \in Seq(Request) /\ Len(inbound[c]) \in Nat
      /\ 1 \in 1..Len(inbound[c]) /\ req = inbound[c][1] /\ req \in Request
  BY <1>2 DEF TypeOK, ClientType
<1>4. req.n = Handled(c) + 1 /\ req.n \in Nat /\ req.kind \in {"now", "later"}
  BY <1>2, <1>3, Zenon DEF InboundInv, Request
<1>5. resp \in Response /\ resp.client = c /\ resp.n = Handled(c) + 1 /\ (req.kind = "later" => resp.deferred)
  BY <1>4, Zenon DEF Response
<1> HIDE DEF conn, req, resp
<1>6. InboundInv' /\ Handled(c)' = Handled(c) + 1 /\ \A x \in Clients : x # c => Handled(x)' = Handled(x)
  <2>1. Tail(inbound[c]) = SubSeq(inbound[c], 1 + 1, Len(inbound[c]))
    BY <1>2, <1>3, TailFacts, Zenon
  <2>2. inbound' = [inbound EXCEPT ![c] = SubSeq(@, 1 + 1, Len(@))]
    BY <1>2, <1>3, <2>1, Zenon
  <2>3. sent' = sent
    BY <1>2, Zenon
  <2> QED
    BY <1>3, <2>2, <2>3, InboundTail, Zenon
<1>7. /\ full \in Connection /\ full.client = conn.client
      /\ req.kind = "now" => full.outbound = Append(conn.outbound, resp)
      /\ req.kind # "now" => full.outbound = conn.outbound
  <2>1. Append(conn.outbound, resp) \in Seq(Response)
    BY <1>5, <1>12 DEF Connection
  <2> QED
    BY <1>12, <2>1, Zenon DEF Connection
<1> HIDE DEF full
<1>8. new \in Connection /\ new.client = conn.client /\ new.outbound = full.outbound
  <2>1. (full.read_disabled \/ Len(full.outbound) > HighWater) \in BOOLEAN
    BY Zenon
  <2>2. PICK b \in BOOLEAN : b = (full.read_disabled \/ Len(full.outbound) > HighWater)
    BY <2>1, Zenon
  <2>3. new = [full EXCEPT !.read_disabled = b]
    BY <2>2, Zenon DEF Backpressured
  <2> HIDE DEF new
  <2> QED
    BY <1>7, <2>3, Zenon DEF Connection
<1> HIDE DEF new
<1>9. /\ DOMAIN conns' = DOMAIN conns /\ conns'[fd] = new
      /\ \A x \in DOMAIN conns : x # fd => conns'[x] = conns[x]
      /\ \A x \in DOMAIN conns : conns'[x].client = conns[x].client
  BY <1>2, <1>8, OutboundFacts, Zenon DEF conn
<1>10. \/ owed' = owed /\ conns'[fd].outbound = Append(conns[fd].outbound, resp)
       \/ /\ owed' = owed \cup {[fd |-> fd, resp |-> resp]} /\ resp.deferred
          /\ conns'[fd].outbound = conns[fd].outbound
  <2>1. CASE req.kind = "now"
    BY <1>2, <1>7, <1>8, <1>9, <2>1, Zenon DEF conn
  <2>2. CASE req.kind = "later"
    BY <1>2, <1>5, <1>7, <1>8, <1>9, <2>2, Zenon DEF conn
  <2> QED
    BY <1>4, <2>1, <2>2, Zenon
<1>11. c = conns[fd].client
  BY <1>12, Zenon DEF conn
<1> USE <1>5
<1> WITNESS fd \in DOMAIN conns, c \in Clients, resp \in Response
<1> QED
  BY <1>2, <1>5, <1>6, <1>9, <1>10, <1>11, Zenon

\* Handling a frame adds its response to outbound or to what is owed.
LEMMA ReadRequestFlow ==
  ASSUME TypeOK, LinkInv, InboundInv, OwedInv, AnswerInv, ReadRequest
  PROVE  LinkInv' /\ InboundInv' /\ OwedInv' /\ AnswerInv'
<1>0. PICK fd \in DOMAIN conns, c \in Clients, r \in Response :
        /\ c = conns[fd].client /\ r.client = c /\ r.n = Handled(c) + 1
        /\ UNCHANGED <<local, response_queue, link, sent, sockbuf, received>>
        /\ DOMAIN conns' = DOMAIN conns
        /\ \A x \in DOMAIN conns : conns'[x].client = conns[x].client
        /\ \A x \in DOMAIN conns : x # fd => conns'[x] = conns[x]
        /\ \/ owed' = owed /\ conns'[fd].outbound = Append(conns[fd].outbound, r)
           \/ /\ owed' = owed \cup {[fd |-> fd, resp |-> r]} /\ r.deferred
              /\ conns'[fd].outbound = conns[fd].outbound
        /\ InboundInv' /\ Handled(c)' = Handled(c) + 1
        /\ \A x \in Clients : x # c => Handled(x)' = Handled(x)
  BY ReadRequestFacts, Zenon
<1>1. link[c] \in {"open", "closed", "reset"} /\ \A x \in DOMAIN conns : x # fd => conns[x].client # c
  <2>1. c = conns[fd].client
    BY <1>0, Zenon
  <2> QED
    BY <2>1, Zenon DEF LinkInv
<1>2. Posted' = Posted
  BY <1>0, Zenon DEF Posted
<1>3. PICK e \in Pending : e = [fd |-> fd, resp |-> r]
  BY Zenon DEF TypeOK, ConnType, Pending
<1>4. e.fd = fd /\ e.resp = r
  BY <1>3, Zenon
<1>5. LinkInv'
  <2>1. /\ \A x, y \in DOMAIN conns' : conns'[x].client = conns'[y].client => x = y
        /\ \A x \in DOMAIN conns' : link'[conns'[x].client] \in {"open", "closed", "reset"}
    BY <1>0, ZenonT(30) DEF LinkInv
  <2>2. \A x \in Clients : link'[x] \in {"new", "pending"} =>
          received'[x] = <<>> /\ sockbuf'[x] = <<>> /\ Handled(x)' = 0
    <3>1. link[c] \notin {"new", "pending"}
      BY <1>1, Zenon
    <3>2. \A x \in Clients : link'[x] = link[x] /\ received'[x] = received[x] /\ sockbuf'[x] = sockbuf[x]
      BY <1>0, Zenon
    <3>3. \A x \in Clients : link[x] \in {"new", "pending"} => x # c
      BY <3>1, Zenon
    <3>4. \A x \in Clients : x # c => Handled(x)' = Handled(x)
      BY <1>0, Zenon
    <3> QED
      BY <3>2, <3>3, <3>4, ZenonT(30) DEF LinkInv
  <2> QED
    BY <2>1, <2>2, Zenon DEF LinkInv
<1>6. \A d : Deferred(d) => Deferred(d)'
  BY <1>0, Zenon DEF Deferred
<1>7. \A i \in 1..Len(Posted') : Deferred(Posted[i])'
  BY <1>2, <1>6, Zenon DEF OwedInv
<1>8. ASSUME NEW x \in DOMAIN conns, x # fd, link[conns[x].client] = "open"
      PROVE  Answers(conns[x].client, conns[x].outbound)'
  <2>1. PICK a \in Clients, out \in Seq(Response) :
          /\ a = conns[x].client /\ a = conns'[x].client /\ a # c
          /\ out = conns[x].outbound /\ out = conns'[x].outbound
    BY <1>0, <1>1, <1>8, Owners, Zenon
  <2>2. Answers(a, out)
    BY <1>8, <2>1, Zenon DEF AnswerInv
  <2>3. Line(a, out)' = Line(a, out) /\ Handled(a)' = Handled(a)
    BY <1>0, <2>1, Zenon DEF Line
  <2>4. \A n \in Nat : owed' \cap For(a, n) = owed \cap For(a, n)
    <3>1. \A n \in Nat : e \notin For(a, n)
      BY <1>0, <1>4, <2>1, Zenon DEF For, Of
    <3> QED
      BY <1>0, <1>3, <3>1, Zenon
  <2>5. \A n \in Nat : Total(a, n, out)' = Total(a, n, out)
    BY <1>2, <2>3, <2>4, Zenon DEF Total
  <2>6. Answers(a, out)'
    BY <2>2, <2>3, <2>5, Zenon DEF Answers
  <2> QED
    BY <2>1, <2>6, Zenon
<1>9. /\ \A d \in owed' : Deferred(d)'
      /\ IsFiniteSet(owed')
  <2>1. CASE owed' = owed
    BY <1>6, <2>1, Zenon DEF OwedInv
  <2>2. CASE owed' = owed \cup {e} /\ r.deferred
    <3>1. Deferred(e)'
      BY <1>0, <1>1, <1>4, <2>2, Zenon DEF Deferred
    <3>2. IsFiniteSet(owed')
      BY <2>2, FS_AddElement, Zenon DEF OwedInv
    <3> QED
      BY <1>6, <2>2, <3>1, <3>2, Zenon DEF OwedInv
  <2> QED
    BY <1>0, <1>3, <2>1, <2>2, Zenon
<1>10. ASSUME link[c] = "open" PROVE Answers(conns[fd].client, conns[fd].outbound)'
  <2>0. PICK out \in Seq(Response) : out = conns[fd].outbound
    BY Owners, Zenon
  <2>1. PICK new : out = conns[fd].outbound /\ new = conns'[fd].outbound
    BY <2>0, Zenon
  <2>2. Answers(c, out)
    BY <1>0, <1>10, <2>1, Zenon DEF AnswerInv
  <2>3. PICK h \in Nat : h = Handled(c)
    BY Zenon DEF InboundInv
  <2>4. /\ r.client = c /\ r.n = h + 1 /\ Handled(c)' = h + 1
        /\ received'[c] = received[c] /\ sockbuf'[c] = sockbuf[c]
    BY <1>0, <2>3, Zenon
  <2>5. ASSUME owed' = owed, new = Append(out, r) PROVE Answers(c, new)'
    BY <1>2, <2>2, <2>3, <2>4, <2>5, AnsweredNow, Zenon
  <2>6. ASSUME owed' = owed \cup {e}, new = out PROVE Answers(c, new)'
    <3>1. e.resp.client = c /\ e.resp.n = h + 1
      BY <1>4, <2>4, Zenon
    <3>2. Answers(c, out)'
      BY <1>2, <2>2, <2>3, <2>4, <2>6, <3>1, AnsweredLater, Zenon
    <3> QED
      BY <2>6, <3>2, Zenon
  <2>7. Answers(c, new)'
    BY <1>0, <1>3, <2>1, <2>5, <2>6, Zenon
  <2>8. c = conns'[fd].client
    BY <1>0, Zenon
  <2> QED
    BY <2>1, <2>7, <2>8, Zenon
<1>11. OwedInv'
  BY <1>7, <1>9, Zenon DEF OwedInv
<1>12. AnswerInv'
  BY <1>0, <1>8, <1>10, Zenon DEF AnswerInv
<1> QED
  BY <1>0, <1>5, <1>11, <1>12, Zenon

\* Only drain_response_queue has a local queue.
LEMMA LocalFlow ==
  ASSUME TypeOK, LocalInv, [Next]_vars
  PROVE  LocalInv'
<1>1. CASE LoopStep
  <2>1. CASE DrainSwap
    BY <2>1, Zenon DEF DrainSwap, LocalInv, TypeOK, LoopType
  <2>2. CASE DrainResponse
    BY <2>2, Zenon DEF DrainResponse, LocalInv
  <2>3. CASE DrainDone
    BY <2>3 DEF DrainDone, LocalInv
  <2>4. CASE Wait \/ NextTurn \/ ReadNotify \/ AcceptDone \/ \E c \in Clients : Accept(c)
    BY <2>4 DEF Wait, NextTurn, ReadNotify, AcceptDone, Accept, LocalInv, loopVars
  <2>5. CASE Dispatch \/ ReadRequest
    BY <2>5, Zenon DEF Dispatch, ReadRequest, LocalInv, loopVars
  <2>6. CASE ReadBadFrame \/ ReadEnd \/ ReadBlocked
    BY <2>6, Zenon DEF ReadBadFrame, ReadEnd, ReadBlocked, LocalInv
  <2>7. CASE WriteStale \/ WriteSome \/ WriteFails
    BY <2>7, Zenon DEF WriteStale, WriteSome, WriteFails, LocalInv
  <2> QED
    BY <1>1, <2>1, <2>2, <2>3, <2>4, <2>5, <2>6, <2>7, Zenon DEF LoopStep
<1>2. CASE PosterStep
  BY <1>2, Zenon DEF PosterStep, PostNotify, PostPush, LocalInv, loopVars
<1>3. CASE ClientStep
  BY <1>3, Zenon DEF ClientStep, Connect, Receive, Close, Reset, Send, LocalInv, loopVars
<1>4. CASE UNCHANGED vars
  BY <1>4, Zenon DEF vars, loopVars, LocalInv
<1> QED
  BY <1>1, <1>2, <1>3, <1>4, Zenon DEF Next

\* The steps that end with on_hangup.
LEMMA HangupFlow ==
  ASSUME TypeOK, EventsInv, LinkInv, InboundInv, OwedInv, AnswerInv, NEW fd \in DOMAIN conns,
         Hangup(fd), UNCHANGED <<owed, response_queue, local, sent, received>>,
         \/ inbound' = inbound
         \/ \E j \in DOMAIN inbound[conns[fd].client] :
              inbound' = [inbound EXCEPT ![conns[fd].client] = SubSeq(@, j + 1, Len(@))]
  PROVE  LinkInv' /\ InboundInv' /\ OwedInv' /\ AnswerInv'
<1>1. InboundInv' /\ \A x \in Clients : x # conns[fd].client => inbound'[x] = inbound[x]
  <2>1. CASE inbound' = inbound
    <3>1. \A x \in Clients : Handled(x)' = Handled(x)
      BY <2>1, Zenon DEF Handled
    <3> QED
      BY <2>1, <3>1, Zenon DEF InboundInv
  <2>2. CASE \E j \in DOMAIN inbound[conns[fd].client] :
               inbound' = [inbound EXCEPT ![conns[fd].client] = SubSeq(@, j + 1, Len(@))]
    <3>1. PICK c \in Clients : c = conns[fd].client
      BY Owners, Zenon
    <3>2. PICK j \in DOMAIN inbound[c] : inbound' = [inbound EXCEPT ![c] = SubSeq(@, j + 1, Len(@))]
      BY <2>2, <3>1, Zenon
    <3>3. j \in 1..Len(inbound[c])
      BY DEF TypeOK, ClientType
    <3>4. sent' = sent
      OBVIOUS
    <3> QED
      BY <3>1, <3>2, <3>3, <3>4, InboundTail, Zenon
  <2> QED
    BY <2>1, <2>2, Zenon
<1>2. LinkInv' /\ OwedInv' /\ AnswerInv'
  BY <1>1, HangupStep, Zenon
<1> QED
  BY <1>1, <1>2, Zenon

\* Every step keeps where the responses are.
LEMMA FlowStep ==
  ASSUME ReactorInv, FlowInv, [Next]_vars
  PROVE  FlowInv'
<1>0. TypeOK /\ EventsInv /\ LinkInv /\ InboundInv /\ OwedInv /\ LocalInv /\ AnswerInv
  BY Zenon DEF ReactorInv, FlowInv
<1> DEFINE Goal == LinkInv' /\ InboundInv' /\ OwedInv' /\ AnswerInv'
<1> SUFFICES Goal
  BY <1>0, LocalFlow, Zenon DEF FlowInv
<1>1. ASSUME UNCHANGED <<conns, owed, response_queue, local, inbound, sent, sockbuf, received>>,
             link' = link
      PROVE  Goal
  BY <1>0, <1>1, QuietStep, Zenon
<1>2. CASE Wait \/ DrainDone \/ NextTurn \/ ReadNotify \/ AcceptDone
  BY <1>1, <1>2, Zenon DEF Wait, DrainDone, NextTurn, ReadNotify, AcceptDone, postVars, clientVars
<1>3. CASE ReadBlocked \/ WriteStale \/ PostNotify
  BY <1>1, <1>3, Zenon DEF ReadBlocked, WriteStale, PostNotify, loopVars, postVars, clientVars
<1>4. CASE UNCHANGED vars
  BY <1>1, <1>4, Zenon DEF vars, loopVars, postVars, clientVars
<1>5. ASSUME NEW c \in Clients, Connect(c) \/ Close(c) \/ Reset(c) PROVE Goal
  <2>1. UNCHANGED <<conns, owed, response_queue, local, inbound, sent, sockbuf, received>>
    BY <1>5, Zenon DEF Connect, Close, Reset, loopVars, postVars
  <2>2. \A x \in Clients :
          /\ link'[x] = "open" => link[x] = "open"
          /\ link[x] \in {"open", "closed", "reset"} => link'[x] \in {"open", "closed", "reset"}
          /\ link'[x] \in {"new", "pending"} <=> link[x] \in {"new", "pending"}
    BY <1>0, <1>5, Zenon DEF Connect, Close, Reset, TypeOK, ClientType
  <2> QED
    BY <1>0, <2>1, <2>2, QuietStep, Zenon
<1>6. CASE ClientStep
  <2>1. PICK c \in Clients : Connect(c) \/ Receive(c) \/ Close(c) \/ Reset(c)
                               \/ \E k \in Kinds : Send(c, k)
    BY <1>6, Zenon DEF ClientStep
  <2> QED
    BY <1>0, <1>5, <2>1, ReceiveFlow, SendFlow, Zenon
<1>7. CASE \E d \in owed : PostPush(d)
  BY <1>0, <1>7, PostPushFlow
<1>8. CASE \E c \in Clients : Accept(c)
  BY <1>0, <1>8, AcceptFlow, Zenon
<1>9. CASE DrainSwap \/ DrainResponse \/ ReadRequest \/ WriteSome
  BY <1>0, <1>9, DrainSwapFlow, DrainFlow, ReadRequestFlow, WriteSomeFlow, Zenon
<1>10. CASE Dispatch
  <2>1. UNCHANGED <<local, response_queue, owed, inbound, sent, received>>
    BY <1>10, Zenon DEF Dispatch, postVars
  <2>2. PICK e \in events : e.from = "conn" /\ (Hangup(e.fd) \/ UNCHANGED <<conns, interest, link, sockbuf>>)
    BY <1>10, Zenon DEF Dispatch
  <2>3. e.fd \in DOMAIN conns
    BY <1>0, <1>10, <2>2, Zenon DEF EventsInv, Dispatch
  <2>4. CASE Hangup(e.fd)
    BY <1>0, <2>1, <2>3, <2>4, HangupFlow, Zenon
  <2>5. CASE UNCHANGED <<conns, interest, link, sockbuf>>
    BY <1>1, <2>1, <2>5, Zenon
  <2> QED
    BY <2>2, <2>4, <2>5, Zenon
<1>11. CASE ReadBadFrame \/ ReadEnd
  <2>1. /\ UNCHANGED <<local, response_queue, owed, sent, received>> /\ loop.pc = "read"
        /\ Hangup(loop.fd)
    BY <1>11, Zenon DEF ReadBadFrame, ReadEnd, HangupInRead, postVars
  <2>2. \/ inbound' = inbound
        \/ \E j \in DOMAIN inbound[conns[loop.fd].client] :
             inbound' = [inbound EXCEPT ![conns[loop.fd].client] = SubSeq(@, j + 1, Len(@))]
    BY <1>11, Zenon DEF ReadBadFrame, ReadEnd
  <2>3. loop.fd \in DOMAIN conns
    BY <1>0, <2>1, Zenon DEF TypeOK, LoopType
  <2> QED
    BY <1>0, <2>1, <2>2, <2>3, HangupFlow, Zenon
<1>12. CASE WriteFails
  <2>1. /\ UNCHANGED <<local, response_queue, owed, inbound, sent, received>> /\ loop.pc = "write"
        /\ Hangup(loop.fd) \/ UNCHANGED <<conns, interest, link, sockbuf>>
    BY <1>12, Zenon DEF WriteFails, postVars
  <2>2. loop.fd \in DOMAIN conns
    BY <1>0, <2>1, Zenon DEF TypeOK, LoopType
  <2>3. CASE Hangup(loop.fd)
    BY <1>0, <2>1, <2>2, <2>3, HangupFlow, Zenon
  <2>4. CASE UNCHANGED <<conns, interest, link, sockbuf>>
    BY <1>1, <2>1, <2>4, Zenon
  <2> QED
    BY <2>1, <2>3, <2>4, Zenon
<1> QED
  BY <1>2, <1>3, <1>4, <1>6, <1>7, <1>8, <1>9, <1>10, <1>11, <1>12, Zenon
     DEF Next, LoopStep, PosterStep

\* Nothing is under way at the start.
LEMMA FlowInit == Init => FlowInv
<1> SUFFICES ASSUME Init PROVE FlowInv
  BY Zenon
<1>1. DOMAIN conns = {} /\ local = <<>> /\ response_queue = <<>> /\ owed = {}
  BY DEF Init
<1>2. AnswerInv /\ LocalInv
  BY <1>1, Zenon DEF AnswerInv, LocalInv
<1>3. \A c \in Clients : /\ inbound[c] = <<>> /\ sent[c] = 0
                         /\ received[c] = <<>> /\ sockbuf[c] = <<>>
  BY Zenon DEF Init
<1>4. \A c \in Clients : Handled(c) = 0 /\ Len(inbound[c]) = 0
  BY <1>3, SMTT(30) DEF Handled
<1>5. LinkInv
  BY <1>1, <1>3, <1>4, Zenon DEF LinkInv
<1>6. InboundInv
  BY <1>4 DEF InboundInv
<1>7. OwedInv
  <2>1. Len(Posted) = 0
    BY <1>1 DEF Posted
  <2> QED
    BY <1>1, <2>1, FS_EmptySet DEF OwedInv
<1> QED
  BY <1>2, <1>5, <1>6, <1>7, Zenon DEF FlowInv

\* The places that AnsweredOnce counts are those of Total.
LEMMA TotalIsCount ==
  ASSUME TypeOK, IsFiniteSet(owed), NEW c \in Clients, NEW n \in Nat, NEW out \in Seq(Response)
  PROVE  Cardinality({d \in owed : d.resp.client = c /\ d.resp.n = n})
           + Queued(response_queue, c, n) + Queued(local, c, n)
           + Occurrences(out, c, n)
           + Occurrences(sockbuf[c], c, n) + Occurrences(received[c], c, n) = Total(c, n, out)
<1>1. /\ owed \subseteq Pending /\ response_queue \in Seq(Pending) /\ local \in Seq(Pending)
      /\ sockbuf[c] \in Seq(Response) /\ received[c] \in Seq(Response)
      /\ \A d \in Pending : d.resp \in Response
  BY Owners, Zenon DEF TypeOK, ClientType
<1>2. {d \in owed : d.resp.client = c /\ d.resp.n = n} = owed \cap For(c, n)
  BY <1>1, Zenon DEF For, Of
<1>3. ASSUME NEW s \in Seq(Pending)
      PROVE  Queued(s, c, n) = Hits(s, For(c, n)) /\ Hits(s, For(c, n)) \in Nat
  <2>1. \A i \in DOMAIN s : s[i] \in Pending
    OBVIOUS
  <2>2. {i \in DOMAIN s : s[i].resp.client = c /\ s[i].resp.n = n} = {i \in DOMAIN s : s[i] \in For(c, n)}
    BY <1>1, <2>1, Zenon DEF For, Of
  <2>3. Queued(s, c, n) = Hits(s, For(c, n))
    BY <2>2, Zenon DEF Queued, Hits
  <2> QED
    BY <2>3, HitsType, Zenon
<1>4. ASSUME NEW s \in Seq(Response)
      PROVE  Occurrences(s, c, n) = Hits(s, Of(c, n)) /\ Hits(s, Of(c, n)) \in Nat
  <2>1. \A i \in DOMAIN s : s[i] \in Response
    OBVIOUS
  <2>2. {i \in DOMAIN s : s[i].client = c /\ s[i].n = n} = {i \in DOMAIN s : s[i] \in Of(c, n)}
    BY <2>1, Zenon DEF Of
  <2>3. Occurrences(s, c, n) = Hits(s, Of(c, n))
    BY <2>2, Zenon DEF Occurrences, Hits
  <2> QED
    BY <2>3, HitsType, Zenon
<1>5. Hits(Posted, For(c, n)) = Hits(local, For(c, n)) + Hits(response_queue, For(c, n))
  BY <1>1, HitsConcat, ZenonT(30) DEF Posted
<1>6. Hits(Line(c, out), Of(c, n)) =
        (Hits(received[c], Of(c, n)) + Hits(sockbuf[c], Of(c, n))) + Hits(out, Of(c, n))
  <2>0. received[c] \o sockbuf[c] \in Seq(Response)
    BY <1>1
  <2>1. PICK s \in Seq(Response) : s = received[c] \o sockbuf[c]
    BY <2>0, Zenon
  <2>2. Hits(s, Of(c, n)) = Hits(received[c], Of(c, n)) + Hits(sockbuf[c], Of(c, n))
    BY <1>1, <2>1, HitsConcat, ZenonT(30)
  <2>3. Hits(s \o out, Of(c, n)) = Hits(s, Of(c, n)) + Hits(out, Of(c, n))
    BY HitsConcat, Zenon
  <2> QED
    BY <2>1, <2>2, <2>3, Zenon DEF Line
<1>7. Cardinality(owed \cap For(c, n)) \in Nat
  BY TotalType, Zenon
<1>8. PICK a \in Nat, q \in Nat, l \in Nat, o \in Nat, s \in Nat, r \in Nat :
        /\ a = Cardinality(owed \cap For(c, n)) /\ q = Hits(response_queue, For(c, n))
        /\ l = Hits(local, For(c, n)) /\ o = Hits(out, Of(c, n))
        /\ s = Hits(sockbuf[c], Of(c, n)) /\ r = Hits(received[c], Of(c, n))
  BY <1>1, <1>3, <1>4, <1>7, Zenon
<1>9. Total(c, n, out) = a + (l + q) + ((r + s) + o)
  BY <1>5, <1>6, <1>8, Zenon DEF Total
<1>10. a + q + l + o + s + r = a + (l + q) + ((r + s) + o)
  OBVIOUS
<1> QED
  BY <1>1, <1>2, <1>3, <1>4, <1>8, <1>9, <1>10, Zenon

\* FlowInv holds together with ReactorInv.
THEOREM FlowInvariant == Spec => []FlowInv
<1>1. Init => FlowInv
  BY FlowInit, Zenon
<1>2. ReactorInv /\ FlowInv /\ [Next]_vars => FlowInv'
  BY FlowStep
<1> QED
  BY <1>1, <1>2, ReactorInvariant, PTL DEF Spec

\* Every request that was read from a connection that still exists has exactly
\* one response, in exactly one place between the thread that owes it and the
\* client that has read it.
THEOREM ResponsesNeitherLostNorRepeated == Spec => []AnsweredOnce
<1>1. ReactorInv /\ FlowInv => AnsweredOnce
  <2> SUFFICES ASSUME ReactorInv, FlowInv, NEW c \in Clients, Connected(c), NEW n \in 1..Handled(c)
               PROVE  Cardinality({d \in owed : d.resp.client = c /\ d.resp.n = n})
                        + Queued(response_queue, c, n) + Queued(local, c, n)
                        + Occurrences(conns[FdOf(c)].outbound, c, n)
                        + Occurrences(sockbuf[c], c, n) + Occurrences(received[c], c, n) = 1
    BY Zenon DEF AnsweredOnce
  <2>1. TypeOK /\ IsFiniteSet(owed) /\ AnswerInv /\ Handled(c) \in Nat
    BY Zenon DEF ReactorInv, FlowInv, OwedInv, InboundInv
  <2>2. FdOf(c) \in DOMAIN conns /\ conns[FdOf(c)].client = c /\ link[c] = "open"
    BY Zenon DEF Connected, FdOf
  <2>3. PICK out \in Seq(Response) : out = conns[FdOf(c)].outbound
    BY <2>1, <2>2, Owners, Zenon
  <2>4. Answers(c, out)
    BY <2>1, <2>2, <2>3, Zenon DEF AnswerInv
  <2>5. n \in Nat
    BY <2>1
  <2>6. Total(c, n, out) = 1
    BY <2>4, <2>5, Zenon DEF Answers
  <2> QED
    BY <2>1, <2>3, <2>5, <2>6, TotalIsCount, Zenon
<1> QED
  BY <1>1, ReactorInvariant, FlowInvariant, PTL

\* The responses that handlers return reach the client in the order of its
\* requests, whatever deferred responses come between them.
THEOREM ImmediateResponsesInOrder == Spec => []ImmediateInOrder
<1>1. ReactorInv /\ FlowInv => ImmediateInOrder
  <2> SUFFICES ASSUME ReactorInv, FlowInv, NEW c \in Clients, Connected(c)
               PROVE  LET all == received[c] \o sockbuf[c] \o conns[FdOf(c)].outbound
                      IN  \A i, j \in DOMAIN all :
                            i < j /\ all[i].client = c /\ all[j].client = c
                              /\ ~all[i].deferred /\ ~all[j].deferred => all[i].n < all[j].n
    BY Zenon DEF ImmediateInOrder
  <2>1. FdOf(c) \in DOMAIN conns /\ conns[FdOf(c)].client = c /\ link[c] = "open"
    BY Zenon DEF Connected, FdOf
  <2>2. Answers(c, conns[FdOf(c)].outbound)
    BY <2>1, Zenon DEF FlowInv, AnswerInv
  <2> QED
    BY <2>2, Zenon DEF Answers, Sorted, Line
<1> QED
  BY <1>1, ReactorInvariant, FlowInvariant, PTL

=============================================================================
