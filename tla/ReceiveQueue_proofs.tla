------------------------ MODULE ReceiveQueue_proofs ------------------------
(***************************************************************************)
(* Theorems about the receiving side of a server of the network library,   *)
(* for every number of sockets and receive threads, every size of the      *)
(* queues and every length of the conversations.                           *)
(*                                                                         *)
(* The events of a socket are in three places: heard by the callbacks, in  *)
(* the queue of the server, in the queue of the socket. They only move     *)
(* from the last to the first, so the invariants speak of which event of a *)
(* socket follows which, wherever the two are.                             *)
(***************************************************************************)
EXTENDS ReceiveQueue, SequenceTheorems, FiniteSetTheorems, TLAPS

(* An element of a sequence; two of them, in order. *)
In(e, q)        == \E i \in 1..Len(q) : q[i] = e
Behind(a, b, q) == \E i, j \in 1..Len(q) : i < j /\ q[i] = a /\ q[j] = b

(* The events of a socket, and which of them comes after which. *)
Has(s, e) == e.sock = s /\ (In(e, heard[s]) \/ In(e, queue) \/ In(e, fifo[s]))
Follows(s, a, b) ==
  /\ a.sock = s /\ b.sock = s
  /\ \/ Behind(a, b, heard[s]) \/ Behind(a, b, queue) \/ Behind(a, b, fifo[s])
     \/ In(a, heard[s]) /\ (In(b, queue) \/ In(b, fifo[s]))
     \/ In(a, queue) /\ In(b, fifo[s])
(* A receive thread has read a message of s and not queued it yet. *)
BeingRead(s) == \E t \in Tasks : rt[t].msg = s

-----------------------------------------------------------------------------
(* The inductive invariant *)

(* Where a socket is: with the listen thread, or in the connections of one *)
(* task, and in the lists of threads only as long as it is there.          *)
Placed ==
  /\ listening.written => listening.sock # NoSock
  /\ \A s \in Socks : stage[s] = "accepted" <=> listening.sock = s
  /\ \A t \in Tasks : \A s \in conns[t] : stage[s] = "pooled"
  /\ \A t, x \in Tasks : \A s \in conns[t] \cap conns[x] : t = x
  /\ \A t \in Tasks : /\ removeSet[t] \subseteq conns[t]
                      /\ rt[t].copy \subseteq conns[t]
                      /\ rt[t].msg # NoSock => rt[t].msg \in rt[t].copy /\ rt[t].at = "read"
                      /\ rt[t].at = "read" /\ rt[t].woken => wake[t] > 0
  /\ todo \subseteq Pooled

(* Which events a socket has, by how far it has got. *)
New(s) == /\ ~up[s] /\ ~forced[s] /\ ~known[s] /\ cut[s] = "no"
          /\ got[s] = 0 /\ sent[s] = 0
          /\ \A e \in Events : ~Has(s, e)
Staged(s) ==
  /\ stage[s] = "none" => New(s)
  /\ stage[s] # "none" => In(Connection(s), heard[s]) \/ In(Connection(s), queue)
  /\ known[s] => stage[s] = "pooled" /\ ~Has(s, Disconnection(s))
  /\ Has(s, Disconnection(s)) => stage[s] \in {"pooled", "freed"}
  /\ stage[s] = "freed" => In(Disconnection(s), heard[s])
  /\ \A t \in Tasks : s \in removeSet[t] => In(Disconnection(s), heard[s])
  /\ s \in clients => ~In(Disconnection(s), heard[s])
  /\ \A e \in Events : In(e, heard[s]) => e.sock = s
  /\ \A e \in Events : In(e, fifo[s]) => e.sock = s /\ e.ev # "Connection"

(* The order of the events of a socket. *)
Ordered(s) ==
  /\ \A a \in Events : ~Follows(s, a, Connection(s))
  /\ ~Follows(s, Disconnection(s), Disconnection(s))
  /\ \A m, n \in Nat : Follows(s, User(s, m), User(s, n)) => m < n
  /\ \A n \in Nat : Has(s, User(s, n)) => 1 <= n /\ n <= got[s]
  /\ \A n \in Nat : Has(s, User(s, n)) /\ BeingRead(s) => n < got[s]
  /\ got[s] <= sent[s]

(* How a connection ends, and what may then still follow. *)
Ended(s) ==
  /\ forced[s] => cut[s] # "no"
  /\ cut[s] = "server" => ~up[s]
  /\ ~up[s] /\ cut[s] = "no" /\ stage[s] # "none" =>
       got[s] = sent[s] /\ \A t \in Tasks : s \notin rt[t].copy
  /\ cut[s] = "no" /\ Has(s, Disconnection(s)) => ~up[s]
  /\ cut[s] = "no" => \A b \in Events : ~Follows(s, Disconnection(s), b)
  /\ cut[s] = "server" =>
       /\ \A b, c \in Events :
            Follows(s, Disconnection(s), b) /\ Follows(s, Disconnection(s), c) => b = c
       /\ \A t \in Tasks : s \in rt[t].copy =>
            \A b \in Events : ~Follows(s, Disconnection(s), b)

(* No message of a socket that is not force-closed gets lost before the    *)
(* socket is deleted, and those the handlers got have no gap.              *)
NothingLost(s) ==
  /\ main = "receive" /\ s \in todo =>
       \A e \in Events : e.sock = s /\ In(e, queue) => e = Connection(s)
  /\ ~forced[s] /\ stage[s] # "freed" =>
       \A m \in 1..got[s] : m < got[s] \/ ~BeingRead(s) => Has(s, User(s, m))
  /\ ~forced[s] =>
       \A n \in Nat : In(User(s, n), queue) =>
         \A m \in 1..(n - 1) : In(User(s, m), heard[s])

(* The number of messages handled. *)
Counted(s) ==
  /\ \A n \in Nat : In(User(s, n), queue) \/ In(User(s, n), fifo[s]) => Told(s) < n
  /\ Told(s) <= got[s]
  /\ BeingRead(s) => Told(s) < got[s]
  /\ ~forced[s] => \A n \in Nat : In(User(s, n), heard[s]) <=> n \in 1..Told(s)

Life(s) == Staged(s) /\ Ordered(s) /\ Ended(s) /\ NothingLost(s) /\ Counted(s)
IInv == TypeOK /\ Placed /\ HeardInOrder /\ \A s \in Socks : Life(s)

-----------------------------------------------------------------------------
(* Sequences *)

(* An empty sequence has no elements.                                      *)
LEMMA InEmpty == \A a, b : ~In(a, <<>>) /\ ~Behind(a, b, <<>>)
BY DEF In, Behind

(* Two elements in order are elements. *)
LEMMA BehindIn ==
  ASSUME NEW q, NEW a, NEW b, Behind(a, b, q)
  PROVE  In(a, q) /\ In(b, q)
BY DEF In, Behind

(* What is appended is behind everything that was there. *)
LEMMA AppendIn ==
  ASSUME NEW S, NEW q \in Seq(S), NEW x \in S
  PROVE  /\ \A e : In(e, Append(q, x)) <=> In(e, q) \/ e = x
         /\ \A a, b : Behind(a, b, Append(q, x)) <=>
                        Behind(a, b, q) \/ (In(a, q) /\ b = x)
<1> DEFINE r == Append(q, x)
<1>1. /\ Len(q) \in Nat /\ Len(r) = Len(q) + 1
      /\ \A i \in 1..Len(q) : r[i] = q[i]
      /\ r[Len(q) + 1] = x
  BY AppendProperties, LenProperties
<1> HIDE DEF r
<1>2. 1..Len(r) = 1..Len(q) \cup {Len(q) + 1}
  BY <1>1
<1>3. \A e : In(e, r) <=> In(e, q) \/ e = x
  BY <1>1, <1>2 DEF In
<1>4. ASSUME NEW a, NEW b
      PROVE  Behind(a, b, r) <=> Behind(a, b, q) \/ (In(a, q) /\ b = x)
  <2>1. ASSUME Behind(a, b, r)
        PROVE  Behind(a, b, q) \/ (In(a, q) /\ b = x)
    BY <1>1, <1>2, <2>1 DEF In, Behind
  <2>2. ASSUME Behind(a, b, q)
        PROVE  Behind(a, b, r)
    BY <1>1, <1>2, <2>2 DEF Behind
  <2>3. ASSUME In(a, q), b = x
        PROVE  Behind(a, b, r)
    BY <1>1, <1>2, <2>3 DEF In, Behind
  <2>4. QED
    BY <2>1, <2>2, <2>3
<1>5. QED
  BY <1>3, <1>4 DEF r

(* The head of a sequence is in front of everything else. *)
LEMMA TailIn ==
  ASSUME NEW S, NEW q \in Seq(S), q # <<>>
  PROVE  /\ \A e : In(e, q) <=> e = Head(q) \/ In(e, Tail(q))
         /\ \A a, b : Behind(a, b, q) <=>
                        Behind(a, b, Tail(q)) \/ (a = Head(q) /\ In(b, Tail(q)))
<1> DEFINE r == Tail(q)
<1>1. /\ Len(q) \in Nat /\ Len(q) >= 1 /\ Len(r) = Len(q) - 1
      /\ \A i \in 1..Len(r) : r[i] = q[i + 1]
      /\ q[1] = Head(q)
  BY HeadTailProperties, LenProperties, EmptySeq
<1> HIDE DEF r
<1>2. \A i \in 1..Len(q) : i = 1 \/ (i - 1 \in 1..Len(r) /\ r[i - 1] = q[i])
  BY <1>1
<1>3. \A i \in 1..Len(r) : i + 1 \in 1..Len(q)
  BY <1>1
<1>4. 1 \in 1..Len(q)
  BY <1>1
<1>5. \A e : In(e, q) <=> e = Head(q) \/ In(e, r)
  BY <1>1, <1>2, <1>3, <1>4 DEF In
<1>6. ASSUME NEW a, NEW b
      PROVE  Behind(a, b, q) <=> Behind(a, b, r) \/ (a = Head(q) /\ In(b, r))
  <2>1. ASSUME Behind(a, b, q)
        PROVE  Behind(a, b, r) \/ (a = Head(q) /\ In(b, r))
    <3>1. PICK i, j \in 1..Len(q) : i < j /\ q[i] = a /\ q[j] = b
      BY <2>1 DEF Behind
    <3>2. j - 1 \in 1..Len(r) /\ r[j - 1] = b
      BY <1>2, <3>1
    <3>3. CASE i = 1
      BY <1>1, <3>1, <3>2, <3>3 DEF In
    <3>4. CASE i # 1
      <4>1. i - 1 \in 1..Len(r) /\ r[i - 1] = a /\ i - 1 < j - 1
        BY <1>2, <3>1, <3>4
      <4>2. QED
        BY <3>2, <4>1 DEF Behind
    <3>5. QED
      BY <3>3, <3>4
  <2>2. ASSUME Behind(a, b, r)
        PROVE  Behind(a, b, q)
    <3>1. PICK i, j \in 1..Len(r) : i < j /\ r[i] = a /\ r[j] = b
      BY <2>2 DEF Behind
    <3>2. /\ i + 1 \in 1..Len(q) /\ j + 1 \in 1..Len(q) /\ i + 1 < j + 1
          /\ q[i + 1] = a /\ q[j + 1] = b
      BY <1>1, <1>3, <3>1
    <3>3. QED
      BY <3>2 DEF Behind
  <2>3. ASSUME a = Head(q), In(b, r)
        PROVE  Behind(a, b, q)
    <3>1. PICK j \in 1..Len(r) : r[j] = b
      BY <2>3 DEF In
    <3>2. j + 1 \in 1..Len(q) /\ 1 < j + 1 /\ q[j + 1] = b
      BY <1>1, <1>3, <3>1
    <3>3. QED
      BY <1>1, <1>4, <2>3, <3>2 DEF Behind
  <2>4. QED
    BY <2>1, <2>2, <2>3
<1>7. QED
  BY <1>5, <1>6 DEF r

-----------------------------------------------------------------------------
(* Types *)

(* What an event is. *)
LEMMA EventIs ==
  /\ \A s \in Socks : Connection(s) \in Events /\ Disconnection(s) \in Events
  /\ \A s \in Socks, n \in Nat : User(s, n) \in Events
  /\ \A e \in Events : /\ e.sock \in Socks /\ e.n \in Nat
                       /\ e.ev \in {"User", "Connection", "Disconnection"}
                       /\ e.ev = "User" => e = User(e.sock, e.n)
                       /\ e.ev = "Connection" => e = Connection(e.sock)
                       /\ e.ev = "Disconnection" => e = Disconnection(e.sock)
  /\ \A s, n : User(s, n).sock = s /\ User(s, n).ev = "User" /\ User(s, n).n = n
  /\ \A s : /\ Connection(s).sock = s /\ Connection(s).ev = "Connection"
            /\ Disconnection(s).sock = s /\ Disconnection(s).ev = "Disconnection"
BY DEF Events, User, Connection, Disconnection

(* The head of the server's queue, and what is left without it. *)
LEMMA FrontIs ==
  ASSUME TypeOK, NEW ev, Front(ev)
  PROVE  /\ Head(queue) \in Events /\ Head(queue).ev = ev /\ Head(queue).sock \in Socks
         /\ Tail(queue) \in Seq(Events) /\ queue # <<>> /\ Len(Tail(queue)) = Len(queue) - 1
BY HeadTailProperties, EventIs DEF Front, TypeOK

(* The steps of clients and of the listen thread keep the types. *)
LEMMA ListenTyped ==
  ASSUME TypeOK, Placed, ClientStep \/ ListenStep
  PROVE  TypeOK'
<1>1. ASSUME NEW s \in Socks, Send(s) \/ Close(s)
      PROVE  TypeOK'
  <2>1. sent' \in [Socks -> Nat] /\ fin' \in [Socks -> BOOLEAN]
    <3>1. CASE Send(s)
      BY <3>1 DEF Send, TypeOK
    <3>2. CASE Close(s)
      BY <3>2 DEF Close, TypeOK
    <3>3. QED
      BY <1>1, <3>1, <3>2
  <2>2. QED
    BY <1>1, <2>1 DEF TypeOK, Send, Close, threadVars, mainVars
<1>2. ASSUME NEW s \in Socks, Accept(s)
      PROVE  TypeOK'
  <2>1. queue' \in Seq(Events)
    BY <1>2, EventIs, AppendProperties DEF Accept, TypeOK
  <2>2. QED
    BY <1>2, <2>1 DEF TypeOK, Accept
<1>3. CASE WriteByte
  <2>1. listening' \in [sock : Socks \cup {NoSock}, written : BOOLEAN] /\ pipe' \in Nat
    <3>1. listening \in [sock : Socks \cup {NoSock}, written : BOOLEAN] /\ pipe \in Nat
      BY DEF TypeOK
    <3>2. listening' = [listening EXCEPT !.written = TRUE] /\ pipe' = pipe + 1
      BY <1>3 DEF WriteByte, PutByte
    <3>3. listening' \in [sock : Socks \cup {NoSock}, written : BOOLEAN]
      BY <3>1, <3>2
    <3>4. pipe' \in Nat
      BY <3>1, <3>2
    <3>5. QED
      BY <3>3, <3>4
  <2>2. QED
    BY <1>3, <2>1 DEF TypeOK, WriteByte, sockVars
<1>4. ASSUME NEW t \in Tasks, Dispatch(t)
      PROVE  TypeOK'
  <2>1. listening.sock \in Socks
    BY <1>4 DEF Dispatch, Placed, TypeOK
  <2>2. conns' \in [Tasks -> SUBSET Socks] /\ wake' \in [Tasks -> Nat]
    <3>1. conns \in [Tasks -> SUBSET Socks] /\ wake \in [Tasks -> Nat]
      BY DEF TypeOK
    <3>2. /\ conns' = [conns EXCEPT ![t] = @ \cup {listening.sock}]
          /\ wake' = wake \/ wake' = [wake EXCEPT ![t] = @ + 1]
      BY <1>4 DEF Dispatch, WakeUp
    <3>3. QED
      BY <2>1, <3>1, <3>2
  <2>3. known' \in [Socks -> BOOLEAN]
    BY <1>4, <2>1 DEF Dispatch, TypeOK
  <2>4. stage' \in [Socks -> {"none", "accepted", "pooled", "freed"}]
    BY <1>4, <2>1 DEF Dispatch, TypeOK
  <2>5. listening' \in [sock : Socks \cup {NoSock}, written : BOOLEAN]
    BY <1>4 DEF Dispatch
  <2>6. pool' \in SUBSET Tasks
    BY <1>4 DEF Dispatch, TypeOK
  <2>7. QED
    BY <1>4, <2>2, <2>3, <2>4, <2>5, <2>6 DEF TypeOK, Dispatch, mainVars
<1>5. QED
  BY <1>1, <1>2, <1>3, <1>4 DEF ClientStep, ListenStep

(* The steps of a receive thread keep the types. *)
LEMMA TaskTyped ==
  ASSUME TypeOK, Placed, NEW t \in Tasks, TaskStep(t)
  PROVE  TypeOK'
<1> DEFINE Thread == [at : {"select", "read"}, copy : SUBSET Socks,
                      msg : Socks \cup {NoSock}, skip : BOOLEAN, woken : BOOLEAN]
<1>0. rt \in [Tasks -> Thread] /\ rt[t] \in Thread
  BY DEF TypeOK
<1>1. CASE NextTurn(t)
  <2>1. wake' \in [Tasks -> Nat]
    <3>1. wake \in [Tasks -> Nat] /\ (rt[t].woken => wake[t] > 0)
      BY <1>1 DEF NextTurn, At, TypeOK, Placed
    <3>2. wake' = wake \/ (rt[t].woken /\ wake' = [wake EXCEPT ![t] = @ - 1])
      BY <1>1 DEF NextTurn
    <3>3. QED
      BY <3>1, <3>2
  <2>2. rt' \in [Tasks -> Thread]
    BY ZenonT(30), <1>1, <1>0 DEF NextTurn, TypeOK
  <2>3. fifo' \in [Socks -> Seq(Events)]
    BY <1>1, EmptySeq DEF NextTurn, TypeOK
  <2>4. stage' \in [Socks -> {"none", "accepted", "pooled", "freed"}]
    BY <1>1 DEF NextTurn, TypeOK
  <2>5. /\ conns' \in [Tasks -> SUBSET Socks] /\ removeSet' \in [Tasks -> SUBSET Socks]
        /\ todo' \in SUBSET Socks
    BY <1>1 DEF NextTurn, TypeOK
  <2>6. QED
    BY <1>1, <2>1, <2>2, <2>3, <2>4, <2>5 DEF NextTurn, TypeOK
<1>2. CASE Select(t)
  <2>1. rt' \in [Tasks -> Thread]
    <3>1. PICK ready \in SUBSET rt[t].copy :
            rt' = [rt EXCEPT ![t].at = "read", ![t].copy = ready, ![t].woken = (wake[t] > 0)]
      BY <1>2 DEF Select
    <3>2. (wake[t] > 0) \in BOOLEAN
      OBVIOUS
    <3>3. QED
      BY <1>0, <3>1, <3>2
  <2>2. QED
    BY <1>2, <2>1 DEF Select, TypeOK, sockVars, mainVars
<1>3. ASSUME NEW s \in Socks, SkipForced(t, s) \/ ReceivePart(t, s) \/ ReceiveNothing(t, s)
      PROVE  TypeOK'
  <2>1. rt' \in [Tasks -> Thread]
    BY <1>3, <1>0 DEF SkipForced, ReceivePart, ReceiveNothing, Done
  <2>2. QED
    <3>1. got' \in [Socks -> Nat] /\ up' \in [Socks -> BOOLEAN]
      <4>1. got \in [Socks -> Nat] /\ up \in [Socks -> BOOLEAN]
        BY DEF TypeOK
      <4>2. got' = got \/ got' = [got EXCEPT ![s] = @ + 1]
        BY <1>3 DEF SkipForced, ReceivePart, ReceiveNothing, sockVars
      <4>3. up' = up \/ up' = [up EXCEPT ![s] = FALSE]
        BY <1>3 DEF SkipForced, ReceivePart, ReceiveNothing, sockVars
      <4>4. got' \in [Socks -> Nat]
        BY <4>1, <4>2
      <4>5. up' \in [Socks -> BOOLEAN]
        BY <4>1, <4>3
      <4>6. QED
        BY <4>4, <4>5
    <3>2. CASE SkipForced(t, s)
      BY <2>1, <3>2 DEF SkipForced, TypeOK, sockVars, mainVars
    <3>3. CASE ReceivePart(t, s)
      BY <2>1, <3>1, <3>3 DEF ReceivePart, TypeOK, mainVars
    <3>4. CASE ReceiveNothing(t, s)
      BY <2>1, <3>1, <3>4 DEF ReceiveNothing, TypeOK, mainVars
    <3>5. QED
      BY <1>3, <3>2, <3>3, <3>4
<1>4. CASE PushMessage(t)
  <2> DEFINE s == rt[t].msg
  <2>1. s \in Socks
    BY <1>4, <1>0 DEF PushMessage
  <2>2. rt' \in [Tasks -> Thread]
    BY <1>4, <1>0 DEF PushMessage, Done
  <2>3. fifo' \in [Socks -> Seq(Events)]
    <3>1. Append(fifo[s], User(s, got[s])) \in Seq(Events)
      BY <2>1, EventIs, AppendProperties DEF TypeOK
    <3>2. QED
      BY <1>4, <2>1, <3>1 DEF PushMessage, TypeOK
  <2>4. /\ up' \in [Socks -> BOOLEAN] /\ forced' \in [Socks -> BOOLEAN]
        /\ cut' \in [Socks -> {"no", "server", "flush"}]
    <3>1. /\ up \in [Socks -> BOOLEAN] /\ forced \in [Socks -> BOOLEAN]
          /\ cut \in [Socks -> {"no", "server", "flush"}]
      BY DEF TypeOK
    <3>2. UNCHANGED <<up, forced, cut>> \/ Overflow(s)
      BY <1>4 DEF PushMessage
    <3>3. QED
      BY <2>1, <3>1, <3>2 DEF Overflow
  <2>5. QED
    BY <1>4, <2>2, <2>3, <2>4 DEF PushMessage, TypeOK, mainVars
<1>5. QED
  BY <1>1, <1>2, <1>3, <1>4 DEF TaskStep

(* A handler closes sockets and does nothing else. *)
LEMMA HandlerTyped ==
  ASSUME TypeOK, NEW whom, Handler(whom)
  PROVE  /\ up' \in [Socks -> BOOLEAN] /\ forced' \in [Socks -> BOOLEAN]
         /\ cut' \in [Socks -> {"no", "server", "flush"}]
BY ClosableOK DEF Handler, CloseSock, TypeOK

(* The steps of the main thread keep the types. *)
LEMMA MainTyped ==
  ASSUME TypeOK, Placed, MainStep
  PROVE  TypeOK'
<1>1. Pooled \in SUBSET Socks
  BY DEF Pooled, TypeOK
<1>2. CASE DataAvailable \/ NothingAvailable
  BY <1>1, <1>2 DEF DataAvailable, NothingAvailable, Visited, TypeOK, sockVars, threadVars
<1>3. ASSUME NEW s \in Socks, RefillFrom(s)
      PROVE  TypeOK'
  <2>1. fifo' \in [Socks -> Seq(Events)] /\ queue' \in Seq(Events) /\ pipe' \in Nat
    <3>1. fifo[s] \in Seq(Events)
      BY DEF TypeOK
    <3>2. fifo[s] # <<>> => /\ Head(fifo[s]) \in Events /\ Tail(fifo[s]) \in Seq(Events)
                            /\ Append(queue, Head(fifo[s])) \in Seq(Events)
      BY <3>1, HeadTailProperties, AppendProperties DEF TypeOK
    <3>3. QED
      <4>1. CASE fifo[s] = <<>>
        BY <1>3, <4>1 DEF RefillFrom, TypeOK
      <4>2. CASE fifo[s] # <<>>
        <5>1. /\ queue' = Append(queue, Head(fifo[s])) /\ pipe' = pipe + 1
              /\ fifo' = [fifo EXCEPT ![s] = Tail(@)]
          BY <1>3, <4>2 DEF RefillFrom, PutByte
        <5>2. QED
          BY <3>2, <4>2, <5>1 DEF TypeOK
      <4>3. QED
        BY <4>1, <4>2
  <2>2. QED
    BY <1>3, <2>1 DEF RefillFrom, TypeOK, threadVars
<1>4. CASE DropFront
  BY <1>4, FrontIs DEF DropFront, Pop, TypeOK, sockVars, threadVars
<1>5. ASSUME NEW ev, Front(ev), Callback, Pop, ReadByte
      PROVE  /\ heard' \in [Socks -> Seq(Events)] /\ queue' \in Seq(Events) /\ pipe' \in Nat
             /\ Head(queue).sock \in Socks
  <2>1. Head(queue) \in Events /\ Head(queue).sock \in Socks /\ Tail(queue) \in Seq(Events)
    BY <1>5, FrontIs
  <2>2. Append(heard[Head(queue).sock], Head(queue)) \in Seq(Events)
    BY <2>1, AppendProperties DEF TypeOK
  <2>3. QED
    BY <1>5, <2>1, <2>2 DEF Callback, Pop, ReadByte, TypeOK
<1>6. CASE ReceiveMessage
  BY <1>1, <1>5, <1>6, HandlerTyped DEF ReceiveMessage, Visited, TypeOK, threadVars
<1>7. CASE ReceiveConnection
  BY <1>5, <1>7, HandlerTyped DEF ReceiveConnection, TypeOK, threadVars
<1>8. CASE ReceiveDisconnection
  <2>1. wake' \in [Tasks -> Nat] /\ removeSet' \in [Tasks -> SUBSET Socks]
    BY <1>8 DEF ReceiveDisconnection, WakeUp, TypeOK
  <2>2. QED
    BY <1>5, <1>8, <2>1, HandlerTyped DEF ReceiveDisconnection, Remaining, TypeOK
<1>9. ASSUME NEW s \in Socks, Advertise(s)
      PROVE  fifo' \in [Socks -> Seq(Events)] /\ known' \in [Socks -> BOOLEAN]
  <2>1. Append(fifo[s], Disconnection(s)) \in Seq(Events)
    BY EventIs, AppendProperties DEF TypeOK
  <2>2. QED
    BY ZenonT(30), <1>9, <2>1 DEF Advertise, TypeOK
<1>10. ASSUME NEW s \in Socks,
              UpdateOpen(s) \/ UpdateClosed(s) \/ UpdateFails(s) \/ UpdateTimeout(s)
       PROVE  TypeOK'
  <2>1. CASE UpdateOpen(s)
    BY <2>1 DEF UpdateOpen, Updates, Unchanged, TypeOK, threadVars
  <2>2. CASE UpdateClosed(s)
    BY <2>2, <1>9 DEF UpdateClosed, Updates, Unchanged, Advertise, TypeOK, threadVars
  <2>3. CASE UpdateFails(s)
    BY <2>3, <1>9 DEF UpdateFails, Updates, Unchanged, Advertise, TypeOK, threadVars
  <2>4. CASE UpdateTimeout(s)
    BY <2>4 DEF UpdateTimeout, CloseSock, Updates, Unchanged, TypeOK, threadVars
  <2>5. QED
    BY <1>10, <2>1, <2>2, <2>3, <2>4
<1>11. QED
  BY <1>2, <1>3, <1>4, <1>6, <1>7, <1>8, <1>10 DEF MainStep, DataStep, UpdateStep

-----------------------------------------------------------------------------
(* Where sockets are *)

(* What the main thread does to the lists of sockets: it begins a pass or  *)
(* goes on with one, and marks a socket of a task as disconnected.         *)
LEMMA MainPlaces ==
  ASSUME MainStep
  PROVE  /\ todo' = Pooled \/ todo' \subseteq todo
         /\ UNCHANGED <<listening, stage, conns, rt>>
         /\ \/ UNCHANGED <<removeSet, wake>>
            \/ \E t \in Tasks : \E s \in conns[t] :
                 /\ removeSet' = [removeSet EXCEPT ![t] = @ \cup {s}]
                 /\ wake' = [wake EXCEPT ![t] = @ + 1]
<1>1. CASE DataStep
  <2>1. CASE ReceiveDisconnection
    BY <2>1 DEF ReceiveDisconnection, WakeUp
  <2>2. CASE \/ DataAvailable \/ (\E s \in Socks : RefillFrom(s)) \/ DropFront
             \/ ReceiveMessage \/ ReceiveConnection \/ NothingAvailable
    BY <2>2 DEF DataAvailable, RefillFrom, DropFront, ReceiveMessage, ReceiveConnection,
                NothingAvailable, Visited, sockVars, threadVars
  <2>3. QED
    BY <1>1, <2>1, <2>2 DEF DataStep
<1>2. CASE UpdateStep
  BY <1>2 DEF UpdateStep, UpdateOpen, UpdateClosed, UpdateFails, UpdateTimeout, Updates,
              Unchanged, threadVars
<1>3. QED
  BY <1>1, <1>2 DEF MainStep

(* Placed is kept by every step. *)
LEMMA PlacedStep ==
  ASSUME TypeOK, Placed, [Next]_vars
  PROVE  Placed'
<1>0. /\ conns \in [Tasks -> SUBSET Socks] /\ removeSet \in [Tasks -> SUBSET Socks]
      /\ wake \in [Tasks -> Nat]
      /\ stage \in [Socks -> {"none", "accepted", "pooled", "freed"}]
      /\ listening \in [sock : Socks \cup {NoSock}, written : BOOLEAN]
      /\ rt \in [Tasks -> [at : {"select", "read"}, copy : SUBSET Socks,
                           msg : Socks \cup {NoSock}, skip : BOOLEAN, woken : BOOLEAN]]
  BY DEF TypeOK
<1>1. CASE UNCHANGED vars \/ ClientStep
  <2>1. UNCHANGED <<listening, stage, conns, rt, removeSet, wake, todo>>
    BY <1>1 DEF vars, sockVars, threadVars, mainVars, ClientStep, Send, Close
  <2>2. QED
    BY <2>1 DEF Placed, Pooled
<1>2. ASSUME NEW s \in Socks, Accept(s)
      PROVE  Placed'
  <2>1. /\ listening.sock = NoSock /\ stage[s] = "none"
        /\ listening' = [sock |-> s, written |-> FALSE]
        /\ stage' = [stage EXCEPT ![s] = "accepted"]
        /\ UNCHANGED <<conns, rt, removeSet, wake, todo>>
    BY <1>2 DEF Accept
  <2>2. \A x \in Socks : stage'[x] = "accepted" <=> listening'.sock = x
    BY <1>0, <2>1, SocksOK DEF Placed
  <2>3. \A t \in Tasks : \A x \in conns[t] : stage'[x] = "pooled"
    BY <1>0, <2>1 DEF Placed
  <2>4. QED
    BY <2>1, <2>2, <2>3, SocksOK DEF Placed, Pooled
<1>3. CASE WriteByte
  <2>1. /\ listening.sock # NoSock /\ listening' = [listening EXCEPT !.written = TRUE]
        /\ UNCHANGED <<stage, conns, rt, removeSet, wake, todo>>
    BY <1>3 DEF WriteByte, sockVars
  <2>2. listening'.sock = listening.sock
    BY <1>0, <2>1
  <2>3. QED
    BY <2>1, <2>2 DEF Placed, Pooled
<1>4. ASSUME NEW t \in Tasks, Dispatch(t)
      PROVE  Placed'
  <2> DEFINE s == listening.sock
  <2>1. /\ listening.written /\ todo = {} /\ todo' = todo
        /\ stage' = [stage EXCEPT ![s] = "pooled"]
        /\ conns' = [conns EXCEPT ![t] = @ \cup {s}]
        /\ wake' = wake \/ wake' = [wake EXCEPT ![t] = @ + 1]
        /\ listening' = [sock |-> NoSock, written |-> FALSE]
        /\ UNCHANGED <<rt, removeSet>>
    BY <1>4 DEF Dispatch, WakeUp, mainVars
  <2>2. s \in Socks /\ stage[s] = "accepted"
    BY <1>0, <2>1 DEF Placed
  <2>3. \A x \in Tasks : s \notin conns[x]
    BY <2>2 DEF Placed
  <2> HIDE DEF s
  <2>4. \A x \in Tasks : conns'[x] = IF x = t THEN conns[t] \cup {s} ELSE conns[x]
    BY <1>0, <2>1
  <2>5. \A x \in Socks : stage'[x] = IF x = s THEN "pooled" ELSE stage[x]
    BY <1>0, <2>1
  <2>6. \A x \in Socks : stage'[x] = "accepted" <=> listening'.sock = x
    BY <2>1, <2>2, <2>5, SocksOK DEF Placed, s
  <2>7. \A x \in Tasks : \A y \in conns'[x] : stage'[y] = "pooled"
    BY <1>0, <2>2, <2>4, <2>5 DEF Placed
  <2>8. \A x, y \in Tasks : \A z \in conns'[x] \cap conns'[y] : x = y
    BY <2>3, <2>4 DEF Placed
  <2>9. \A x \in Tasks : /\ removeSet'[x] \subseteq conns'[x]
                         /\ rt'[x].copy \subseteq conns'[x]
                         /\ rt'[x].msg # NoSock => rt'[x].msg \in rt'[x].copy /\ rt'[x].at = "read"
    BY <2>1, <2>4 DEF Placed
  <2>10. \A x \in Tasks : wake'[x] >= wake[x]
    BY <1>0, <2>1
  <2>11. \A x \in Tasks : rt'[x].at = "read" /\ rt'[x].woken => wake'[x] > 0
    BY <1>0, <2>1, <2>10 DEF Placed
  <2>12. QED
    BY <2>1, <2>6, <2>7, <2>8, <2>9, <2>11 DEF Placed
<1>5. ASSUME NEW t \in Tasks, NextTurn(t)
      PROVE  Placed'
  <2>1. /\ rt[t].msg = NoSock
        /\ conns' = [conns EXCEPT ![t] = conns[t] \ removeSet[t]]
        /\ stage' = [s \in Socks |-> IF s \in removeSet[t] THEN "freed" ELSE stage[s]]
        /\ todo' = todo \ removeSet[t]
        /\ removeSet' = [removeSet EXCEPT ![t] = {}]
        /\ listening' = listening
    BY <1>5 DEF NextTurn
  <2>2. PICK copy \in SUBSET (conns[t] \ removeSet[t]), b \in BOOLEAN :
          rt' = [rt EXCEPT ![t].at = "select", ![t].skip = b, ![t].copy = copy]
    BY <1>5 DEF NextTurn
  <2>3. \A x \in Tasks : x # t => wake'[x] = wake[x]
    BY <1>0, <1>5 DEF NextTurn
  <2>4. rt'[t].at = "select" /\ rt'[t].msg = NoSock /\ rt'[t].copy = copy
    BY <1>0, <2>1, <2>2
  <2>5. \A x \in Tasks : x # t => rt'[x] = rt[x]
    BY <1>0, <2>2
  <2>6. \A x \in Tasks : /\ conns'[x] = IF x = t THEN conns[t] \ removeSet[t] ELSE conns[x]
                         /\ removeSet'[x] = IF x = t THEN {} ELSE removeSet[x]
    BY <1>0, <2>1
  <2>7. removeSet[t] \subseteq conns[t] /\ \A s \in conns[t] : stage[s] = "pooled"
    BY DEF Placed
  <2>8. \A x \in Socks : stage'[x] = "accepted" <=> listening'.sock = x
    BY <2>1, <2>7 DEF Placed
  <2>9. \A x \in Tasks : \A s \in conns'[x] : s \in conns[x] /\ s \notin removeSet[t]
    BY <2>6, <2>7 DEF Placed
  <2>10. \A x \in Tasks : \A s \in conns'[x] : stage'[s] = "pooled"
    BY <1>0, <2>1, <2>9 DEF Placed
  <2>11. \A x, y \in Tasks : \A s \in conns'[x] \cap conns'[y] : x = y
    BY <2>9 DEF Placed
  <2>12. ASSUME NEW x \in Tasks
         PROVE  /\ removeSet'[x] \subseteq conns'[x]
                /\ rt'[x].copy \subseteq conns'[x]
                /\ rt'[x].msg # NoSock => rt'[x].msg \in rt'[x].copy /\ rt'[x].at = "read"
                /\ rt'[x].at = "read" /\ rt'[x].woken => wake'[x] > 0
    <3>1. CASE x = t
      BY <2>2, <2>4, <2>6, <3>1
    <3>2. CASE x # t
      BY <2>3, <2>5, <2>6, <3>2 DEF Placed
    <3>3. QED
      BY <3>1, <3>2
  <2>13. todo' \subseteq Pooled'
    <3>1. ASSUME NEW s \in todo'
          PROVE  s \in Pooled'
      <4>1. s \notin removeSet[t] /\ \E x \in Tasks : s \in conns[x]
        BY <2>1, <3>1 DEF Placed, Pooled
      <4>2. \E x \in Tasks : s \in conns'[x]
        BY <2>6, <4>1
      <4>3. QED
        BY <4>2 DEF Pooled
    <3>2. QED
      BY <3>1
  <2>14. QED
    BY <2>1, <2>8, <2>10, <2>11, <2>12, <2>13 DEF Placed
<1>6. ASSUME NEW t \in Tasks, Select(t)
      PROVE  Placed'
  <2>1. PICK ready \in SUBSET rt[t].copy :
          rt' = [rt EXCEPT ![t].at = "read", ![t].copy = ready, ![t].woken = (wake[t] > 0)]
    BY <1>6 DEF Select
  <2>2. /\ rt[t].at = "select"
        /\ UNCHANGED <<listening, stage, conns, removeSet, wake, todo>>
    BY <1>6 DEF Select, At, sockVars, mainVars
  <2>3. rt'[t].copy = ready /\ rt'[t].msg = NoSock /\ (rt'[t].woken => wake[t] > 0)
    BY <1>0, <2>1, <2>2 DEF Placed
  <2>4. \A x \in Tasks : x # t => rt'[x] = rt[x]
    BY <1>0, <2>1
  <2>5. ASSUME NEW x \in Tasks
        PROVE  /\ rt'[x].copy \subseteq conns[x]
               /\ rt'[x].msg # NoSock => rt'[x].msg \in rt'[x].copy /\ rt'[x].at = "read"
               /\ rt'[x].at = "read" /\ rt'[x].woken => wake[x] > 0
    <3>1. CASE x = t
      BY <2>3, <3>1 DEF Placed
    <3>2. CASE x # t
      BY <2>4, <3>2 DEF Placed
    <3>3. QED
      BY <3>1, <3>2
  <2>6. QED
    BY <2>2, <2>5 DEF Placed, Pooled
<1>7. ASSUME NEW t \in Tasks, NEW s, s \in rt[t].copy, rt[t].at = "read",
             \/ Done(t, s)
             \/ rt' = [rt EXCEPT ![t].msg = s],
             UNCHANGED <<listening, stage, conns, removeSet, wake, todo>>
      PROVE  Placed'
  <2>1. /\ rt'[t].at = "read" /\ rt'[t].copy \subseteq rt[t].copy
        /\ rt'[t].msg = NoSock \/ (rt'[t].msg = s /\ rt'[t].copy = rt[t].copy)
        /\ rt'[t].woken = rt[t].woken
    BY <1>0, <1>7 DEF Done
  <2>2. \A x \in Tasks : x # t => rt'[x] = rt[x]
    BY <1>0, <1>7 DEF Done
  <2>3. ASSUME NEW x \in Tasks
        PROVE  /\ rt'[x].copy \subseteq conns[x]
               /\ rt'[x].msg # NoSock => rt'[x].msg \in rt'[x].copy /\ rt'[x].at = "read"
               /\ rt'[x].at = "read" /\ rt'[x].woken => wake[x] > 0
    <3>1. CASE x = t
      BY <1>7, <2>1, <3>1 DEF Placed
    <3>2. CASE x # t
      BY <2>2, <3>2 DEF Placed
    <3>3. QED
      BY <3>1, <3>2
  <2>4. QED
    BY <1>7, <2>3 DEF Placed, Pooled
<1>8. ASSUME NEW t \in Tasks, TaskStep(t)
      PROVE  Placed'
  <2>1. CASE \E s \in Socks : SkipForced(t, s) \/ ReceivePart(t, s) \/ ReceiveNothing(t, s)
    BY <1>7, <2>1 DEF SkipForced, ReceivePart, ReceiveNothing, Reads, At, sockVars, mainVars
  <2>2. CASE PushMessage(t)
    <3>1. rt[t].msg \in rt[t].copy
      BY <2>2 DEF PushMessage, Placed
    <3>2. QED
      BY <1>7, <2>2, <3>1 DEF PushMessage, At, mainVars
  <2>3. QED
    BY <1>5, <1>6, <1>8, <2>1, <2>2 DEF TaskStep
<1>9. CASE MainStep
  <2>1. /\ todo' \subseteq Pooled
        /\ UNCHANGED <<listening, stage, conns, rt>>
    BY <1>9, MainPlaces DEF Placed
  <2>2. \A t \in Tasks : removeSet'[t] \subseteq conns[t] /\ wake'[t] >= wake[t]
    <3>1. CASE UNCHANGED <<removeSet, wake>>
      BY <1>0, <3>1 DEF Placed
    <3>2. ASSUME NEW t \in Tasks, NEW s \in conns[t],
                 removeSet' = [removeSet EXCEPT ![t] = @ \cup {s}],
                 wake' = [wake EXCEPT ![t] = @ + 1]
          PROVE  \A x \in Tasks : removeSet'[x] \subseteq conns[x] /\ wake'[x] >= wake[x]
      <4>1. \A x \in Tasks : removeSet'[x] \subseteq conns[x]
        BY <1>0, <3>2 DEF Placed
      <4>2. \A x \in Tasks : wake'[x] >= wake[x]
        BY <1>0, <3>2
      <4>3. QED
        BY <4>1, <4>2
    <3>3. QED
      BY <1>9, <3>1, <3>2, MainPlaces
  <2>3. \A t \in Tasks : rt[t].at = "read" /\ rt[t].woken => wake'[t] > 0
    <3>1. wake' \in [Tasks -> Nat]
      BY <1>9, MainTyped DEF TypeOK
    <3>2. QED
      BY <1>0, <2>2, <3>1 DEF Placed
  <2>4. QED
    BY <2>1, <2>2, <2>3 DEF Placed, Pooled
<1>10. QED
  BY <1>1, <1>2, <1>3, <1>4, <1>8, <1>9 DEF Next, ListenStep

-----------------------------------------------------------------------------
(* How events move *)

(* Elements of a sequence of events are events.                            *)
LEMMA InEvents ==
  ASSUME NEW q \in Seq(Events), NEW e, In(e, q)
  PROVE  e \in Events
BY DEF In

(* What a socket has, and in which order, when nothing of it moves.        *)
StreamSame(s) ==
  /\ heard'[s] = heard[s] /\ fifo'[s] = fifo[s]
  /\ \A a : a.sock = s => (In(a, queue)' <=> In(a, queue))
  /\ \A a, b : a.sock = s /\ b.sock = s => (Behind(a, b, queue)' <=> Behind(a, b, queue))
(* When it only moves nearer to the callbacks. *)
StreamKeeps(s) ==
  /\ \A a : Has(s, a)' <=> Has(s, a)
  /\ \A a, b : Follows(s, a, b)' <=> Follows(s, a, b)
LEMMA SameKeeps ==
  ASSUME NEW s \in Socks, StreamSame(s)
  PROVE  StreamKeeps(s) /\ Told(s)' = Told(s)
BY DEF StreamSame, StreamKeeps, Has, Follows, Told

(* An event of s is put behind those it has. *)
LEMMA Pushed ==
  ASSUME TypeOK, NEW s \in Socks, NEW e \in Events, e.sock = s,
         fifo' = [fifo EXCEPT ![s] = Append(@, e)], UNCHANGED <<queue, heard>>
  PROVE  /\ \A a : In(a, fifo'[s]) <=> In(a, fifo[s]) \/ a = e
         /\ \A a : Has(s, a)' <=> Has(s, a) \/ a = e
         /\ \A a, b : Follows(s, a, b)' <=> Follows(s, a, b) \/ (b = e /\ Has(s, a))
         /\ \A x \in Socks : x # s => StreamSame(x)
<1>1. fifo[s] \in Seq(Events) /\ fifo'[s] = Append(fifo[s], e)
  BY DEF TypeOK
<1>2. /\ \A a : In(a, fifo'[s]) <=> In(a, fifo[s]) \/ a = e
      /\ \A a, b : Behind(a, b, fifo'[s]) <=> Behind(a, b, fifo[s]) \/ (In(a, fifo[s]) /\ b = e)
  BY <1>1, AppendIn
<1>3. \A a : Has(s, a)' <=> Has(s, a) \/ a = e
  BY <1>2 DEF Has
<1>4. \A a, b : Follows(s, a, b)' <=> Follows(s, a, b) \/ (b = e /\ Has(s, a))
  BY <1>2 DEF Has, Follows
<1>5. \A x \in Socks : x # s => StreamSame(x)
  BY DEF StreamSame, TypeOK
<1>6. QED
  BY <1>2, <1>3, <1>4, <1>5

(* The first event of the queue of s is moved to the server's queue. *)
LEMMA Refilled ==
  ASSUME TypeOK, NEW s \in Socks, Staged(s), fifo[s] # <<>>,
         queue' = Append(queue, Head(fifo[s])), fifo' = [fifo EXCEPT ![s] = Tail(@)],
         UNCHANGED heard
  PROVE  /\ Head(fifo[s]) \in Events /\ Head(fifo[s]).sock = s
         /\ \A a : In(a, queue)' <=> In(a, queue) \/ a = Head(fifo[s])
         /\ \A a : In(a, fifo[s]) <=> a = Head(fifo[s]) \/ In(a, fifo'[s])
         /\ \A b : In(b, fifo'[s]) /\ b.sock = s => Follows(s, Head(fifo[s]), b)
         /\ StreamKeeps(s)
         /\ \A x \in Socks : x # s => StreamSame(x)
<1> DEFINE h == Head(fifo[s])
<1>1. /\ fifo[s] \in Seq(Events) /\ fifo'[s] = Tail(fifo[s]) /\ queue \in Seq(Events)
      /\ h \in Events
  BY HeadTailProperties DEF TypeOK
<1>2. /\ \A a : In(a, fifo[s]) <=> a = h \/ In(a, fifo'[s])
      /\ \A a, b : Behind(a, b, fifo[s]) <=>
                     Behind(a, b, fifo'[s]) \/ (a = h /\ In(b, fifo'[s]))
  BY <1>1, TailIn
<1>3. /\ \A a : In(a, queue') <=> In(a, queue) \/ a = h
      /\ \A a, b : Behind(a, b, queue') <=> Behind(a, b, queue) \/ (In(a, queue) /\ b = h)
  BY <1>1, AppendIn
<1>4. h.sock = s
  BY <1>1, <1>2 DEF Staged
<1> HIDE DEF h
<1>5. \A a : Has(s, a)' <=> Has(s, a)
  BY <1>2, <1>3 DEF Has
<1>6. \A a, b : Follows(s, a, b)' <=> Follows(s, a, b)
  BY <1>2, <1>3 DEF Follows
<1>7. \A b : In(b, fifo'[s]) /\ b.sock = s => Follows(s, h, b)
  BY <1>2, <1>4 DEF Follows
<1>8. \A x \in Socks : x # s => StreamSame(x)
  <2>1. \A x \in Socks : x # s => fifo'[x] = fifo[x]
    BY DEF TypeOK
  <2>2. QED
    BY <1>3, <1>4, <2>1 DEF StreamSame
<1>9. QED
  BY <1>1, <1>2, <1>3, <1>4, <1>5, <1>6, <1>7, <1>8 DEF StreamKeeps, h

(* The front of the queue is taken off. *)
LEMMA Popped ==
  ASSUME TypeOK, NEW ev, Front(ev), Pop
  PROVE  LET h == Head(queue) IN
         /\ \A a : In(a, queue) <=> a = h \/ In(a, queue)'
         /\ \A a, b : Behind(a, b, queue) <=>
                        Behind(a, b, queue)' \/ (a = h /\ In(b, queue)')
<1>1. queue \in Seq(Events) /\ queue # <<>> /\ queue' = Tail(queue)
  BY DEF TypeOK, Front, Pop
<1>2. QED
  BY <1>1, TailIn

(* A callback hears of the front of the queue. *)
LEMMA IsHeard ==
  ASSUME TypeOK, NEW ev, Front(ev), Pop, Callback, UNCHANGED fifo,
         NEW h, h = Head(queue), NEW s, s = h.sock
  PROVE  /\ \A a : In(a, heard'[s]) <=> In(a, heard[s]) \/ a = h
         /\ \A a : In(a, queue) <=> a = h \/ In(a, queue)'
         /\ \A a : In(a, heard[s]) /\ a.sock = s => Follows(s, a, h)
         /\ \A a : (In(a, queue)' \/ In(a, fifo[s])) /\ a.sock = s => Follows(s, h, a)
         /\ StreamKeeps(s)
         /\ \A x \in Socks : x # s => StreamSame(x)
<1>1. h \in Events /\ s \in Socks
  BY FrontIs
<1>2. heard[s] \in Seq(Events) /\ heard'[s] = Append(heard[s], h)
  BY <1>1 DEF Callback, TypeOK
<1>3. /\ \A a : In(a, heard'[s]) <=> In(a, heard[s]) \/ a = h
      /\ \A a, b : Behind(a, b, heard'[s]) <=> Behind(a, b, heard[s]) \/ (In(a, heard[s]) /\ b = h)
  BY <1>1, <1>2, AppendIn
<1>4. /\ \A a : In(a, queue) <=> a = h \/ In(a, queue)'
      /\ \A a, b : Behind(a, b, queue) <=>
                        Behind(a, b, queue)' \/ (a = h /\ In(b, queue)')
  BY Popped
<1>5. \A x \in Socks : x # s => heard'[x] = heard[x]
  BY DEF Callback, TypeOK
<1>6. \A a : Has(s, a)' <=> Has(s, a)
  BY <1>3, <1>4 DEF Has
<1>7. \A a, b : Follows(s, a, b)' <=> Follows(s, a, b)
  BY <1>3, <1>4 DEF Follows
<1>8. \A a : In(a, heard[s]) /\ a.sock = s => Follows(s, a, h)
  BY <1>4 DEF Follows
<1>9. \A a : (In(a, queue)' \/ In(a, fifo[s])) /\ a.sock = s => Follows(s, h, a)
  BY <1>4 DEF Follows
<1>10. \A x \in Socks : x # s => StreamSame(x)
  BY <1>4, <1>5 DEF StreamSame
<1>11. QED
  BY <1>3, <1>4, <1>6, <1>7, <1>8, <1>9, <1>10 DEF StreamKeeps

(* The front of the queue is dropped. *)
LEMMA Dropped ==
  ASSUME TypeOK, NEW ev, Front(ev), Pop, UNCHANGED <<fifo, heard>>,
         NEW h, h = Head(queue), NEW s, s = h.sock
  PROVE  /\ \A a : In(a, queue) <=> a = h \/ In(a, queue)'
         /\ \A a : Has(s, a)' => Has(s, a)
         /\ \A a : Has(s, a) => Has(s, a)' \/ a = h
         /\ \A a, b : Follows(s, a, b)' => Follows(s, a, b)
         /\ \A x \in Socks : x # s => StreamSame(x)
<1>1. /\ \A a : In(a, queue) <=> a = h \/ In(a, queue)'
      /\ \A a, b : Behind(a, b, queue) <=>
                        Behind(a, b, queue)' \/ (a = h /\ In(b, queue)')
  BY Popped
<1>2. \A a : (Has(s, a)' => Has(s, a)) /\ (Has(s, a) => Has(s, a)' \/ a = h)
  BY <1>1 DEF Has
<1>3. \A a, b : Follows(s, a, b)' => Follows(s, a, b)
  BY <1>1 DEF Follows
<1>4. \A x \in Socks : x # s => StreamSame(x)
  BY <1>1 DEF StreamSame
<1>5. QED
  BY <1>1, <1>2, <1>3, <1>4

-----------------------------------------------------------------------------
(* A socket nothing happens to *)

(* The server may end its connection, or find its client gone. *)
Cutting(s) ==
  \/ up'[s] = up[s] /\ forced'[s] = forced[s] /\ cut'[s] = cut[s]
  \/ /\ stage[s] # "none" /\ ~up'[s] /\ (forced[s] => forced'[s])
     /\ cut'[s] = IF cut[s] = "no" THEN "server" ELSE cut[s]
  \/ /\ stage[s] # "none" /\ up'[s] = up[s] /\ forced'[s] = forced[s]
     /\ cut[s] = "no" /\ cut'[s] = "flush"
(* Its threads may stop looking at it, or look at it again. *)
Attended(s) ==
  /\ s \in clients' => s \in clients
  /\ \A t \in Tasks : /\ s \in removeSet'[t] => s \in removeSet[t]
                      /\ s \in rt'[t].copy => s \in rt[t].copy \/ up[s]
  /\ BeingRead(s)' => BeingRead(s)
  /\ BeingRead(s) => BeingRead(s)' \/ forced'[s]
  /\ main' = "receive" /\ s \in todo' => (main = "receive" /\ s \in todo) \/ queue' = <<>>
Calm(s) == /\ stage'[s] = stage[s] /\ known'[s] = known[s] /\ got'[s] = got[s]
           /\ sent'[s] = sent[s] \/ (up[s] /\ sent'[s] = sent[s] + 1)
           /\ Cutting(s) /\ Attended(s)

(* How a connection ends does not change when its events only move. *)
LEMMA EndedKept ==
  ASSUME NEW s \in Socks, Ended(s),
         \A a : Has(s, a)' => Has(s, a),
         \A a, b : Follows(s, a, b)' => Follows(s, a, b),
         Calm(s)
  PROVE  Ended(s)'
<1>1. /\ stage'[s] = stage[s] /\ got'[s] = got[s] /\ (~up[s] => sent'[s] = sent[s])
      /\ \A t \in Tasks : s \in rt'[t].copy => s \in rt[t].copy \/ up[s]
  BY DEF Calm, Attended
<1>2. CASE up'[s] = up[s] /\ forced'[s] = forced[s] /\ cut'[s] = cut[s]
  BY <1>1, <1>2 DEF Ended
<1>3. CASE /\ ~up'[s] /\ (forced[s] => forced'[s])
           /\ cut'[s] = IF cut[s] = "no" THEN "server" ELSE cut[s]
  BY <1>1, <1>3 DEF Ended
<1>4. CASE /\ up'[s] = up[s] /\ forced'[s] = forced[s]
           /\ cut[s] = "no" /\ cut'[s] = "flush"
  BY <1>1, <1>4 DEF Ended
<1>5. QED
  BY <1>2, <1>3, <1>4 DEF Calm, Cutting

(* Nothing moves, and nothing happens to the socket. *)
LEMMA CalmKeeps ==
  ASSUME TypeOK, NEW s \in Socks, Life(s), Calm(s), StreamSame(s)
  PROVE  Life(s)'
<1>1. StreamKeeps(s) /\ Told(s)' = Told(s)
  BY SameKeeps
<1>2. /\ stage'[s] = stage[s] /\ known'[s] = known[s] /\ got'[s] = got[s]
      /\ heard'[s] = heard[s] /\ fifo'[s] = fifo[s]
  BY DEF Calm, StreamSame
<1>3. stage[s] = "none" => /\ up'[s] = up[s] /\ forced'[s] = forced[s] /\ cut'[s] = "no"
                           /\ sent'[s] = sent[s]
  BY DEF Calm, Cutting, Life, Staged, New
<1>4. Staged(s)'
  <2>1. stage[s] = "none" => New(s)'
    BY <1>1, <1>2, <1>3 DEF Life, Staged, New, StreamKeeps
  <2>2. In(Connection(s), queue)' <=> In(Connection(s), queue)
    BY EventIs DEF StreamSame
  <2>3. QED
    BY <1>1, <1>2, <2>1, <2>2 DEF Life, Staged, StreamKeeps, Calm, Attended
<1>5. Ordered(s)'
  <2>1. /\ BeingRead(s)' => BeingRead(s)
        /\ sent'[s] = sent[s] \/ sent'[s] = sent[s] + 1
    BY DEF Calm, Attended
  <2>2. got[s] \in Nat /\ sent[s] \in Nat /\ got[s] <= sent[s]
    BY DEF Life, Ordered, TypeOK
  <2>3. got'[s] <= sent'[s]
    BY <1>2, <2>1, <2>2
  <2>4. QED
    BY <1>1, <1>2, <2>1, <2>3 DEF Life, Ordered, StreamKeeps
<1>6. Ended(s)'
  BY <1>1, EndedKept DEF Life, StreamKeeps
<1>7. \A n : In(User(s, n), queue)' <=> In(User(s, n), queue)
  BY EventIs DEF StreamSame
<1>8. forced[s] => forced'[s]
  BY DEF Calm, Cutting
<1>9. NothingLost(s)'
  <2>1. main' = "receive" /\ s \in todo' =>
          \A e \in Events : e.sock = s /\ In(e, queue)' => e = Connection(s)
    BY InEmpty DEF Calm, Attended, StreamSame, Life, NothingLost
  <2>2. ~forced'[s] => (BeingRead(s)' <=> BeingRead(s))
    BY DEF Calm, Attended
  <2>3. QED
    BY <1>1, <1>2, <1>7, <1>8, <2>1, <2>2 DEF Life, NothingLost, StreamKeeps
<1>10. Counted(s)'
  BY <1>1, <1>2, <1>7, <1>8 DEF Life, Counted, Calm, Attended
<1>11. QED
  BY <1>4, <1>5, <1>6, <1>9, <1>10 DEF Life

(* The messages told are counted. *)
LEMMA ToldIs ==
  ASSUME TypeOK, NEW s \in Socks
  PROVE  Told(s) \in Nat
<1>1. heard[s] \in Seq(Events)
  BY DEF TypeOK
<1>2. {i \in DOMAIN heard[s] : heard[s][i].ev = "User"} \subseteq 1..Len(heard[s])
  BY <1>1, LenProperties
<1>3. IsFiniteSet({i \in DOMAIN heard[s] : heard[s][i].ev = "User"})
  BY <1>1, <1>2, FS_Interval, FS_Subset, LenProperties
<1>4. QED
  BY <1>3, FS_CardinalityType DEF Told

(* One more is told, or something else is. *)
LEMMA ToldStep ==
  ASSUME TypeOK, NEW s \in Socks, NEW h, heard'[s] = Append(heard[s], h)
  PROVE  Told(s)' = IF h.ev = "User" THEN Told(s) + 1 ELSE Told(s)
<1> DEFINE Of(q) == {i \in DOMAIN q : q[i].ev = "User"}
<1>1. heard[s] \in Seq(Events)
  BY DEF TypeOK
<1>2. /\ Len(heard[s]) \in Nat /\ DOMAIN heard[s] = 1..Len(heard[s])
      /\ DOMAIN heard'[s] = 1..(Len(heard[s]) + 1)
      /\ \A i \in 1..Len(heard[s]) : heard'[s][i] = heard[s][i]
      /\ heard'[s][Len(heard[s]) + 1] = h
  BY <1>1
<1>3. Of(heard'[s]) = IF h.ev = "User" THEN Of(heard[s]) \cup {Len(heard[s]) + 1}
                                       ELSE Of(heard[s])
  <2>1. \A i \in 1..(Len(heard[s]) + 1) : i \in 1..Len(heard[s]) \/ i = Len(heard[s]) + 1
    BY <1>2
  <2>2. Len(heard[s]) + 1 \in 1..(Len(heard[s]) + 1) /\ 1..Len(heard[s]) \subseteq 1..(Len(heard[s]) + 1)
    BY <1>2
  <2>3. QED
    BY <1>2, <2>1, <2>2
<1>4. Len(heard[s]) + 1 \notin Of(heard[s])
  BY <1>2
<1>5. IsFiniteSet(Of(heard[s]))
  <2>1. Of(heard[s]) \subseteq 1..Len(heard[s])
    BY <1>2
  <2>2. IsFiniteSet(1..Len(heard[s]))
    BY <1>2, FS_Interval
  <2>3. QED
    BY <2>1, <2>2, FS_Subset
<1>6. Cardinality(Of(heard[s]) \cup {Len(heard[s]) + 1}) = Cardinality(Of(heard[s])) + 1
  BY <1>4, <1>5, FS_AddElement
<1>7. Told(s) = Cardinality(Of(heard[s])) /\ Told(s)' = Cardinality(Of(heard'[s]))
  BY DEF Told
<1>8. QED
  BY <1>3, <1>6, <1>7

(* A socket a task has is in no other task. *)
LEMMA OneTask ==
  ASSUME TypeOK, Placed, NEW t \in Tasks, NEW s \in Socks, s \in conns[t]
  PROVE  /\ stage[s] = "pooled"
         /\ \A x \in Tasks : x # t => s \notin conns[x] /\ s \notin rt[x].copy /\ rt[x].msg # s
BY SocksOK DEF Placed

-----------------------------------------------------------------------------
(* What happens to a socket, one kind of step after the other *)

(* It is accepted. *)
LEMMA AcceptKeeps ==
  ASSUME TypeOK, Placed, NEW s \in Socks, Life(s), Accept(s)
  PROVE  Life(s)'
<1>1. /\ stage[s] = "none" /\ stage'[s] = "accepted" /\ up'[s] = TRUE
      /\ queue' = Append(queue, Connection(s)) /\ listening.sock = NoSock
      /\ UNCHANGED <<sent, got, forced, known, fifo, conns, rt, removeSet, main, todo,
                     clients, heard, cut>>
  BY DEF Accept, TypeOK
<1>2. New(s)
  BY <1>1 DEF Life, Staged
<1>3. /\ \A a : In(a, queue)' <=> In(a, queue) \/ a = Connection(s)
      /\ \A a, b : Behind(a, b, queue)' <=>
                     Behind(a, b, queue) \/ (In(a, queue) /\ b = Connection(s))
  BY <1>1, AppendIn, EventIs DEF TypeOK
<1>4. \A a \in Events : a.sock = s => ~In(a, heard[s]) /\ ~In(a, queue) /\ ~In(a, fifo[s])
  BY <1>2 DEF New, Has
<1>5. \A a \in Events : Has(s, a)' <=> a = Connection(s)
  BY <1>1, <1>3, <1>4, EventIs DEF Has
<1>6. \A a, b : Follows(s, a, b) => Has(s, a) /\ Has(s, b)
  BY BehindIn DEF Follows, Has
<1>7. \A a \in Events : \A b : ~Follows(s, a, b)'
  <2>1. \A a \in Events : \A b : ~Follows(s, a, b)
    BY <1>2, <1>6 DEF New
  <2>2. \A b : b.sock = s => ~In(b, fifo[s])
    BY <1>4, InEvents DEF TypeOK
  <2>3. QED
    BY <1>1, <1>3, <1>4, <2>1, <2>2 DEF Follows
<1>8. /\ s \notin todo /\ ~BeingRead(s)
      /\ \A t \in Tasks : s \notin conns[t] /\ s \notin rt[t].copy
  BY <1>1, SocksOK DEF Placed, Pooled, BeingRead
<1>9. /\ Connection(s) # Disconnection(s) /\ \A n \in Nat : User(s, n) # Connection(s)
  BY EventIs
<1>10. Staged(s)'
  BY <1>1, <1>2, <1>3, <1>5, <1>9, EventIs DEF Life, Staged, New
<1>11. Ordered(s)'
  <2>1. got'[s] = 0 /\ sent'[s] = 0
    BY <1>1, <1>2 DEF New
  <2>2. QED
    BY <1>5, <1>7, <1>9, <2>1, EventIs DEF Ordered
<1>12. Ended(s)'
  BY <1>1, <1>2, <1>5, <1>7, <1>9, EventIs DEF Ended, New
<1>13. NothingLost(s)'
  <2>1. \A n \in Nat : ~In(User(s, n), queue)'
    BY <1>3, <1>4, <1>9, EventIs
  <2>2. \A m \in 1..got'[s] : FALSE
    BY <1>1, <1>2 DEF New
  <2>3. QED
    BY <1>1, <1>8, <2>1, <2>2 DEF NothingLost
<1>14. Counted(s)'
  <2>1. \A n \in Nat : ~In(User(s, n), queue)' /\ ~In(User(s, n), fifo[s])
    BY <1>3, <1>4, <1>9, EventIs
  <2>2. Told(s)' = Told(s) /\ ~BeingRead(s)'
    BY <1>1, <1>8 DEF Told, BeingRead
  <2>3. QED
    BY <1>1, <2>1, <2>2 DEF Life, Counted
<1>15. QED
  BY <1>10, <1>11, <1>12, <1>13, <1>14 DEF Life

(* It is given to a receive thread. *)
LEMMA DispatchKeeps ==
  ASSUME TypeOK, Placed, NEW t \in Tasks, Dispatch(t),
         NEW s \in Socks, s = listening.sock, Life(s)
  PROVE  Life(s)'
<1>1. /\ stage[s] = "accepted" /\ stage'[s] = "pooled"
      /\ UNCHANGED <<sent, got, up, forced, fifo, rt, removeSet, queue, main, todo,
                     clients, heard, cut>>
  BY DEF Dispatch, mainVars, Placed, TypeOK
<1>2. StreamSame(s)
  BY <1>1 DEF StreamSame
<1>3. StreamKeeps(s) /\ Told(s)' = Told(s) /\ (BeingRead(s)' <=> BeingRead(s))
  BY <1>1, <1>2, SameKeeps DEF BeingRead
<1>4. Staged(s)'
  BY <1>1, <1>3, EventIs DEF Life, Staged, StreamKeeps
<1>5. Ordered(s)' /\ Ended(s)' /\ NothingLost(s)' /\ Counted(s)'
  BY <1>1, <1>3 DEF Life, Ordered, Ended, NothingLost, Counted, StreamKeeps
<1>6. QED
  BY <1>4, <1>5 DEF Life

(* A thread that starts a turn reads nothing, and looks at open sockets. *)
LEMMA TurnIs ==
  ASSUME TypeOK, NEW t \in Tasks, NextTurn(t)
  PROVE  /\ rt[t].msg = NoSock /\ rt'[t].msg = NoSock
         /\ rt'[t].copy = {s \in conns[t] \ removeSet[t] : up[s] /\ ~forced[s]}
         /\ removeSet'[t] = {}
         /\ \A x \in Tasks : x # t => rt'[x] = rt[x] /\ removeSet'[x] = removeSet[x]
<1> DEFINE kept == conns[t] \ removeSet[t]
           copy == {s \in kept : up[s] /\ ~forced[s]}
<1>1. /\ rt[t].msg = NoSock /\ removeSet' = [removeSet EXCEPT ![t] = {}]
      /\ rt' = [rt EXCEPT ![t].at = "select", ![t].skip = (kept = {}), ![t].copy = copy]
  BY DEF NextTurn, Selectable
<1>2. /\ removeSet \in [Tasks -> SUBSET Socks]
      /\ rt \in [Tasks -> [at : {"select", "read"}, copy : SUBSET Socks,
                           msg : Socks \cup {NoSock}, skip : BOOLEAN, woken : BOOLEAN]]
  BY DEF TypeOK
<1> HIDE DEF kept, copy
<1>3. rt'[t].msg = NoSock /\ rt'[t].copy = copy
  BY <1>1, <1>2
<1>4. \A x \in Tasks : x # t => rt'[x] = rt[x]
  BY <1>1, <1>2
<1>5. QED
  BY <1>1, <1>2, <1>3, <1>4 DEF kept, copy

(* It is deleted. *)
LEMMA FreeKeeps ==
  ASSUME TypeOK, Placed, NEW t \in Tasks, NextTurn(t),
         NEW s \in removeSet[t], Life(s)
  PROVE  Life(s)'
<1>1. s \in Socks /\ s \in conns[t]
  BY DEF Placed, TypeOK
<1>2. /\ stage[s] = "pooled" /\ stage'[s] = "freed"
      /\ \A x \in Tasks : x # t => s \notin conns[x] /\ s \notin rt[x].copy /\ rt[x].msg # s
  <2>1. stage'[s] = "freed"
    BY <1>1 DEF NextTurn
  <2>2. QED
    BY <1>1, <2>1, OneTask
<1>3. /\ fifo'[s] = <<>> /\ s \notin todo' /\ removeSet'[t] = {}
      /\ UNCHANGED <<sent, got, up, forced, known, queue, main, clients, heard, cut>>
  BY <1>1 DEF NextTurn, TypeOK
<1>4. /\ rt'[t].msg = NoSock /\ s \notin rt'[t].copy
      /\ \A x \in Tasks : x # t => rt'[x] = rt[x] /\ removeSet'[x] = removeSet[x]
  BY <1>1, TurnIs
<1>5. /\ ~BeingRead(s)' /\ \A x \in Tasks : s \notin rt'[x].copy
      /\ \A x \in Tasks : s \notin removeSet'[x]
  BY <1>1, <1>2, <1>3, <1>4, SocksOK DEF BeingRead, Placed
<1>6. /\ \A a : Has(s, a)' => Has(s, a)
      /\ \A a, b : Follows(s, a, b)' => Follows(s, a, b)
      /\ \A a : ~In(a, fifo'[s])
  BY <1>3, InEmpty DEF Has, Follows
<1>7. In(Disconnection(s), heard[s]) /\ Has(s, Disconnection(s))
  BY EventIs DEF Life, Staged, Has
<1>8. Staged(s)'
  BY <1>2, <1>3, <1>5, <1>6, <1>7 DEF Life, Staged
<1>9. Ordered(s)'
  BY <1>3, <1>5, <1>6 DEF Life, Ordered
<1>10. Ended(s)'
  BY <1>2, <1>3, <1>5, <1>6 DEF Life, Ended
<1>11. NothingLost(s)'
  BY <1>2, <1>3 DEF Life, NothingLost
<1>12. Counted(s)'
  <2>1. Told(s)' = Told(s)
    BY <1>3 DEF Told
  <2>2. QED
    BY <1>3, <1>5, <1>6, <2>1 DEF Life, Counted
<1>13. QED
  BY <1>8, <1>9, <1>10, <1>11, <1>12 DEF Life

(* A receive thread has done with a socket: nobody reads it any more. *)
LEMMA DoneIs ==
  ASSUME TypeOK, Placed, NEW t \in Tasks, NEW s \in rt[t].copy, Done(t, s)
  PROVE  /\ s \in Socks /\ stage[s] = "pooled" /\ s \in conns[t]
         /\ ~BeingRead(s)' /\ \A x \in Tasks : s \notin rt'[x].copy
         /\ BeingRead(s) <=> rt[t].msg = s
         /\ rt'[t].copy = rt[t].copy \ {s} /\ rt'[t].msg = NoSock
         /\ \A x \in Tasks : x # t => rt'[x] = rt[x]
<1>1. s \in conns[t] /\ s \in Socks
  BY DEF Placed, TypeOK
<1>2. /\ stage[s] = "pooled"
      /\ \A x \in Tasks : x # t => s \notin conns[x] /\ s \notin rt[x].copy /\ rt[x].msg # s
  BY <1>1, OneTask
<1>3. rt'[t].msg = NoSock /\ rt'[t].copy = rt[t].copy \ {s}
  BY DEF Done, TypeOK
<1>4. \A x \in Tasks : x # t => rt'[x] = rt[x]
  BY DEF Done, TypeOK
<1>5. QED
  BY <1>1, <1>2, <1>3, <1>4, SocksOK DEF BeingRead

(* A message of it is read. *)
LEMMA ReadKeeps ==
  ASSUME TypeOK, Placed, NEW t \in Tasks, NEW s \in Socks, Life(s), ReceivePart(t, s)
  PROVE  Life(s)'
<1>1. /\ s \in rt[t].copy /\ rt[t].msg = NoSock /\ got[s] < sent[s] /\ rt' = [rt EXCEPT ![t].msg = s]
      /\ got' = [got EXCEPT ![s] = @ + 1]
      /\ UNCHANGED <<stage, sent, up, forced, known, fifo, removeSet, queue, main, todo,
                     clients, heard, cut>>
  BY DEF ReceivePart, Reads, mainVars
<1>2. s \in conns[t] /\ stage[s] = "pooled" /\ ~BeingRead(s)
  <2>1. s \in conns[t]
    BY <1>1 DEF Placed
  <2>2. QED
    BY <1>1, <2>1, OneTask, SocksOK DEF BeingRead
<1>3. got[s] \in Nat /\ got'[s] = got[s] + 1
  BY <1>1 DEF TypeOK
<1>4. \A x \in Tasks : rt'[x].copy = rt[x].copy
  BY <1>1 DEF TypeOK
<1>5. StreamKeeps(s) /\ Told(s)' = Told(s)
  <2>1. StreamSame(s)
    BY <1>1 DEF StreamSame
  <2>2. QED
    BY <2>1, SameKeeps
<1>6. Staged(s)'
  BY <1>1, <1>2, <1>5 DEF Life, Staged, StreamKeeps
<1>7. Ordered(s)'
  <2>1. \A n \in Nat : Has(s, User(s, n))' => 1 <= n /\ n <= got[s]
    BY <1>5 DEF Life, Ordered, StreamKeeps
  <2>2. \A n \in Nat : n <= got[s] => n < got'[s] /\ n <= got'[s]
    BY <1>3
  <2>3. got'[s] <= sent'[s]
    BY <1>1, <1>3 DEF TypeOK
  <2>4. QED
    BY <1>5, <2>1, <2>2, <2>3 DEF Life, Ordered, StreamKeeps
<1>8. Ended(s)'
  BY <1>1, <1>2, <1>4, <1>5 DEF Life, Ended, StreamKeeps
<1>9. NothingLost(s)'
  <2>1. \A m \in 1..got'[s] : m < got'[s] => m \in 1..got[s]
    BY <1>3
  <2>2. BeingRead(s)'
    BY <1>1 DEF BeingRead, TypeOK
  <2>3. ~forced[s] => \A m \in 1..got'[s] : m < got'[s] => Has(s, User(s, m))
    BY <1>2, <2>1 DEF Life, NothingLost
  <2>4. ~forced'[s] /\ stage'[s] # "freed" =>
          \A m \in 1..got'[s] : m < got'[s] \/ ~BeingRead(s)' => Has(s, User(s, m))'
    BY <1>1, <1>5, <2>2, <2>3 DEF StreamKeeps
  <2>5. QED
    BY <1>1, <2>4 DEF Life, NothingLost
<1>10. Counted(s)'
  <2>1. Told(s) <= got[s]
    BY DEF Life, Counted
  <2>2. Told(s) \in Nat
    BY ToldIs
  <2>3. Told(s)' <= got'[s] /\ Told(s)' < got'[s]
    BY <1>3, <1>5, <2>1, <2>2
  <2>4. QED
    BY <1>1, <1>5, <2>3 DEF Life, Counted
<1>11. QED
  BY <1>6, <1>7, <1>8, <1>9, <1>10 DEF Life

(* It turns out to be closed. *)
LEMMA FoundClosedKeeps ==
  ASSUME TypeOK, Placed, NEW t \in Tasks, NEW s \in Socks, Life(s), ReceiveNothing(t, s)
  PROVE  Life(s)'
<1>1. /\ s \in rt[t].copy /\ rt[t].msg = NoSock /\ got[s] = sent[s] /\ Done(t, s)
      /\ up'[s] = FALSE
      /\ UNCHANGED <<stage, sent, got, forced, known, fifo, removeSet, queue, main, todo,
                     clients, heard, cut>>
  BY DEF ReceiveNothing, Reads, NothingLeft, mainVars, TypeOK
<1>2. /\ stage[s] = "pooled" /\ ~BeingRead(s) /\ ~BeingRead(s)'
      /\ \A x \in Tasks : s \notin rt'[x].copy
  BY <1>1, DoneIs, SocksOK
<1>3. StreamKeeps(s) /\ Told(s)' = Told(s)
  <2>1. StreamSame(s)
    BY <1>1 DEF StreamSame
  <2>2. QED
    BY <2>1, SameKeeps
<1>4. Staged(s)'
  BY <1>1, <1>2, <1>3 DEF Life, Staged, StreamKeeps
<1>5. Ordered(s)'
  BY <1>1, <1>2, <1>3 DEF Life, Ordered, StreamKeeps
<1>6. Ended(s)'
  BY <1>1, <1>2, <1>3 DEF Life, Ended, StreamKeeps
<1>7. NothingLost(s)' /\ Counted(s)'
  BY <1>1, <1>2, <1>3 DEF Life, NothingLost, Counted, StreamKeeps
<1>8. QED
  BY <1>4, <1>5, <1>6, <1>7 DEF Life

(* The message of it that was read is queued. *)
LEMMA PushKeeps ==
  ASSUME TypeOK, Placed, NEW t \in Tasks, PushMessage(t), NEW s, s = rt[t].msg,
         Len(fifo[s]) < FifoSize, Life(s)
  PROVE  Life(s)'
<1>1. s \in rt[t].copy /\ s \in Socks
  BY DEF PushMessage, Placed, TypeOK
<1>2. /\ fifo' = [fifo EXCEPT ![s] = Append(@, User(s, got[s]))] /\ Done(t, s)
      /\ UNCHANGED <<stage, sent, got, up, forced, known, removeSet, queue, main, todo,
                     clients, heard, cut>>
  BY DEF PushMessage, mainVars
<1>3. /\ stage[s] = "pooled" /\ BeingRead(s) /\ ~BeingRead(s)'
      /\ \A x \in Tasks : s \notin rt'[x].copy
  BY <1>1, <1>2, DoneIs
<1>4. got[s] \in Nat
  BY <1>1 DEF TypeOK
<1>5. PICK e \in Events : e = User(s, got[s])
  BY <1>1, <1>4, EventIs
<1>6. /\ e.sock = s /\ e # Connection(s) /\ e # Disconnection(s) /\ e.ev = "User"
      /\ \A n \in Nat : e = User(s, n) => n = got[s]
  BY <1>4, <1>5, EventIs
<1>7. /\ \A a : In(a, fifo'[s]) <=> In(a, fifo[s]) \/ a = e
      /\ \A a : Has(s, a)' <=> Has(s, a) \/ a = e
      /\ \A a, b : Follows(s, a, b)' <=> Follows(s, a, b) \/ (b = e /\ Has(s, a))
  <2>1. fifo' = [fifo EXCEPT ![s] = Append(@, e)] /\ UNCHANGED <<queue, heard>>
    BY <1>2, <1>5
  <2>2. QED
    BY <1>1, <1>6, <2>1, Pushed
<1>8. Staged(s)'
  BY <1>2, <1>3, <1>6, <1>7 DEF Life, Staged
<1>9. Ordered(s)'
  <2>1. \A m \in Nat : Has(s, User(s, m)) => m < got[s]
    BY <1>3 DEF Life, Ordered
  <2>2. \A m, n \in Nat : Follows(s, User(s, m), User(s, n))' => m < n
    BY <1>6, <1>7, <2>1 DEF Life, Ordered
  <2>3. 1 <= got[s]
    BY <1>3, <1>4, ToldIs, <1>1 DEF Life, Counted
  <2>4. \A n \in Nat : Has(s, User(s, n))' => 1 <= n /\ n <= got[s]
    BY <1>4, <1>6, <1>7, <2>3 DEF Life, Ordered
  <2>5. QED
    BY <1>2, <1>3, <1>6, <1>7, <2>2, <2>4 DEF Life, Ordered
<1>10. Ended(s)'
  <2>1. cut[s] = "no" => up[s] /\ ~Has(s, Disconnection(s))
    BY <1>1, <1>3 DEF Life, Ended
  <2>2. cut[s] = "server" => \A b \in Events : ~Follows(s, Disconnection(s), b)
    BY <1>1 DEF Life, Ended
  <2>3. QED
    BY <1>2, <1>3, <1>6, <1>7, <2>1, <2>2 DEF Life, Ended
<1>11. NothingLost(s)'
  <2>1. ~forced[s] => \A m \in 1..got[s] : m < got[s] => Has(s, User(s, m))
    BY <1>3 DEF Life, NothingLost
  <2>2. \A m \in 1..got[s] : m < got[s] \/ m = got[s]
    BY <1>4
  <2>3. ~forced[s] => \A m \in 1..got[s] : Has(s, User(s, m))'
    BY <1>5, <1>7, <2>1, <2>2
  <2>4. QED
    BY <1>2, <2>3 DEF Life, NothingLost
<1>12. Counted(s)'
  <2>1. Told(s) < got[s] /\ Told(s)' = Told(s)
    BY <1>2, <1>3 DEF Life, Counted, Told
  <2>2. QED
    BY <1>2, <1>3, <1>6, <1>7, <2>1 DEF Life, Counted
<1>13. QED
  BY <1>8, <1>9, <1>10, <1>11, <1>12 DEF Life

(* Its next event is moved to the queue of the server. *)
LEMMA RefillKeeps ==
  ASSUME TypeOK, Placed, NEW s \in Socks, Life(s), RefillFrom(s), fifo[s] # <<>>
  PROVE  Life(s)'
<1>1. /\ main = "receive" /\ s \in todo /\ s \notin todo'
      /\ queue' = Append(queue, Head(fifo[s])) /\ fifo' = [fifo EXCEPT ![s] = Tail(@)]
      /\ UNCHANGED <<stage, sent, got, up, forced, known, rt, removeSet, clients, heard, cut>>
  BY DEF RefillFrom, threadVars
<1>2. PICK h \in Events : h = Head(fifo[s]) /\ h.sock = s
  BY <1>1, Refilled DEF Life
<1>3. /\ \A a : In(a, queue)' <=> In(a, queue) \/ a = h
      /\ \A a : In(a, fifo[s]) <=> a = h \/ In(a, fifo'[s])
      /\ \A b : In(b, fifo'[s]) /\ b.sock = s => Follows(s, h, b)
      /\ StreamKeeps(s)
  BY <1>1, <1>2, Refilled DEF Life
<1>4. Told(s)' = Told(s) /\ (BeingRead(s)' <=> BeingRead(s))
  BY <1>1 DEF Told, BeingRead
<1>5. stage[s] = "pooled"
  BY <1>1 DEF Placed, Pooled
<1>6. Staged(s)'
  BY <1>1, <1>3, <1>5 DEF Life, Staged, StreamKeeps
<1>7. Ordered(s)' /\ Ended(s)'
  BY <1>1, <1>3, <1>4 DEF Life, Ordered, Ended, StreamKeeps
<1>8. NothingLost(s)'
  <2>1. \A n : User(s, n) # Connection(s) /\ User(s, n).sock = s
    BY EventIs
  <2>2. \A n \in Nat : ~In(User(s, n), queue)
    BY <1>1, <2>1, EventIs DEF Life, NothingLost
  <2>3. ASSUME ~forced[s], NEW n \in Nat, h = User(s, n), NEW m \in 1..(n - 1)
        PROVE  In(User(s, m), heard[s])
    <3>1. n <= got[s]
      BY <1>3, <2>1, <2>3 DEF Life, Ordered, Has
    <3>2. m \in 1..got[s] /\ m < got[s] /\ m < n /\ m \in Nat
      BY <3>1 DEF TypeOK
    <3>3. Has(s, User(s, m))
      BY <1>5, <2>3, <3>2 DEF Life, NothingLost
    <3>4. User(s, m) # h
      BY <2>3, <3>2, EventIs
    <3>5. ~In(User(s, m), fifo'[s])
      <4>1. Follows(s, h, User(s, m)) => n < m
        BY <2>3, <3>2 DEF Life, Ordered
      <4>2. ~(n < m)
        BY <3>2
      <4>3. QED
        BY <1>3, <2>1, <4>1, <4>2
    <3>6. QED
      BY <1>3, <2>2, <3>2, <3>3, <3>4, <3>5 DEF Has
  <2>4. ~forced'[s] => \A n \in Nat : In(User(s, n), queue)' =>
                         \A m \in 1..(n - 1) : In(User(s, m), heard'[s])
    BY <1>1, <1>3, <2>2, <2>3
  <2>5. QED
    BY <1>1, <1>3, <1>4, <2>4 DEF Life, NothingLost, StreamKeeps
<1>9. Counted(s)'
  BY <1>1, <1>3, <1>4 DEF Life, Counted
<1>10. QED
  BY <1>6, <1>7, <1>8, <1>9 DEF Life

(* A message of it is dropped. *)
LEMMA DropKeeps ==
  ASSUME TypeOK, Placed, DropFront, NEW h, h = Head(queue), NEW s, s = h.sock, Life(s)
  PROVE  Life(s)'
<1>1. /\ Front("User") /\ Pop /\ (forced[s] \/ stage[s] = "freed")
      /\ UNCHANGED <<stage, sent, got, up, forced, known, fifo, rt, removeSet, main, todo,
                     clients, heard, cut>>
  BY DEF DropFront, sockVars, threadVars
<1>2. h \in Events /\ h.ev = "User" /\ s \in Socks /\ h # Connection(s)
  BY <1>1, FrontIs, EventIs
<1>3. /\ \A a : In(a, queue) <=> a = h \/ In(a, queue)'
      /\ \A a : Has(s, a)' => Has(s, a)
      /\ \A a, b : Follows(s, a, b)' => Follows(s, a, b)
  BY <1>1, Dropped
<1>4. Told(s)' = Told(s) /\ (BeingRead(s)' <=> BeingRead(s))
  BY <1>1 DEF Told, BeingRead
<1>5. Staged(s)'
  <2>1. stage[s] = "none" => New(s)'
    BY <1>1, <1>3 DEF Life, Staged, New
  <2>2. QED
    BY <1>1, <1>2, <1>3, <2>1 DEF Life, Staged
<1>6. Ordered(s)' /\ Ended(s)'
  BY <1>1, <1>3, <1>4 DEF Life, Ordered, Ended
<1>7. NothingLost(s)'
  BY <1>1, <1>3 DEF Life, NothingLost
<1>8. Counted(s)'
  BY <1>1, <1>3, <1>4 DEF Life, Counted
<1>9. QED
  BY <1>5, <1>6, <1>7, <1>8 DEF Life

(* A callback hears an event of it.  The handler may close the connection. *)
LEMMA HearKeeps ==
  ASSUME TypeOK, Placed, NEW ev, Front(ev), Pop, Callback,
         NEW h, h = Head(queue), NEW s, s = h.sock, Life(s), Cutting(s),
         UNCHANGED <<stage, sent, got, known, fifo, rt>>,
         main' = "receive" => s \notin todo',
         s \in clients' =>
           ev # "Disconnection" /\ (s \in clients \/ ev = "Connection"),
         \A t \in Tasks : s \in removeSet'[t] => s \in removeSet[t] \/ ev = "Disconnection"
  PROVE  Life(s)'
<1>1. /\ h \in Events /\ h.ev = ev /\ s \in Socks
      /\ ev = "Connection" => h = Connection(s)
      /\ ev = "Disconnection" => h = Disconnection(s)
      /\ ev = "User" => h.n \in Nat /\ h = User(s, h.n)
      /\ heard'[s] = Append(heard[s], h)
  <2>1. h \in Events /\ h.ev = ev /\ s \in Socks
    BY FrontIs
  <2>2. heard'[s] = Append(heard[s], h)
    BY <2>1 DEF Callback, TypeOK
  <2>3. QED
    BY <2>1, <2>2, EventIs
<1>2. /\ \A a : In(a, heard'[s]) <=> In(a, heard[s]) \/ a = h
      /\ \A a : In(a, queue) <=> a = h \/ In(a, queue)'
      /\ \A a : In(a, heard[s]) /\ a.sock = s => Follows(s, a, h)
      /\ \A a : (In(a, queue)' \/ In(a, fifo[s])) /\ a.sock = s => Follows(s, h, a)
      /\ StreamKeeps(s)
  BY IsHeard
<1>3. stage[s] # "none"
  <2>1. Has(s, h)
    BY <1>2 DEF Has
  <2>2. QED
    BY <1>1, <2>1 DEF Life, Staged, New
<1>4. BeingRead(s)' <=> BeingRead(s)
  BY DEF BeingRead
<1>5. forced[s] => forced'[s]
  BY DEF Cutting
<1>6. Staged(s)'
  <2>1. s \in clients' => ~In(Disconnection(s), heard'[s])
    <3>1. ev = "Connection" => ~In(Disconnection(s), heard[s])
      BY <1>1, <1>2, EventIs DEF Life, Ordered
    <3>2. QED
      BY <1>1, <1>2, <3>1, EventIs DEF Life, Staged
  <2>2. \A t \in Tasks : s \in removeSet'[t] => In(Disconnection(s), heard'[s])
    BY <1>1, <1>2 DEF Life, Staged
  <2>3. QED
    BY <1>1, <1>2, <1>3, <2>1, <2>2 DEF Life, Staged, StreamKeeps
<1>7. Ordered(s)'
  BY <1>2, <1>4 DEF Life, Ordered, StreamKeeps
<1>8. Ended(s)'
  <2>1. CASE up'[s] = up[s] /\ forced'[s] = forced[s] /\ cut'[s] = cut[s]
    BY <1>2, <2>1 DEF Life, Ended, StreamKeeps
  <2>2. CASE /\ ~up'[s] /\ (forced[s] => forced'[s])
             /\ cut'[s] = IF cut[s] = "no" THEN "server" ELSE cut[s]
    BY <1>2, <2>2 DEF Life, Ended, StreamKeeps
  <2>3. CASE /\ up'[s] = up[s] /\ forced'[s] = forced[s]
             /\ cut[s] = "no" /\ cut'[s] = "flush"
    BY <1>2, <2>3 DEF Life, Ended, StreamKeeps
  <2>4. QED
    BY <2>1, <2>2, <2>3 DEF Cutting
<1>9. NothingLost(s)'
  BY <1>2, <1>4, <1>5 DEF Life, NothingLost, StreamKeeps
<1>10. Counted(s)'
  <2>1. CASE ev # "User"
    <3>1. Told(s)' = Told(s) /\ \A n \in Nat : h # User(s, n)
      BY <1>1, <2>1, ToldStep, EventIs
    <3>2. QED
      BY <1>2, <1>4, <1>5, <3>1 DEF Life, Counted
  <2>2. CASE ev = "User"
    <3>1. PICK n \in Nat : h = User(s, n)
      BY <1>1, <2>2
    <3>2. Told(s) \in Nat /\ got[s] \in Nat /\ Told(s)' = Told(s) + 1
      <4>1. got[s] \in Nat
        BY <1>1 DEF TypeOK
      <4>2. QED
        BY <1>1, <2>2, <4>1, ToldIs, ToldStep
    <3>3. Told(s) < n /\ n <= got[s] /\ (BeingRead(s) => n < got[s])
      BY <1>2, <3>1, EventIs DEF Life, Counted, Ordered, Has
    <3>4. \A m \in Nat : In(User(s, m), queue)' \/ In(User(s, m), fifo'[s]) => n < m
      BY <1>2, <3>1, EventIs DEF Life, Ordered
    <3>5. \A m \in Nat : n < m => Told(s) + 1 < m
      BY <3>2, <3>3
    <3>6. Told(s) + 1 <= got[s] /\ (BeingRead(s) => Told(s) + 1 < got[s])
      BY <3>2, <3>3
    <3>7. ASSUME ~forced[s], NEW m \in Nat
          PROVE  In(User(s, m), heard'[s]) <=> m \in 1..(Told(s) + 1)
      <4>1. \A k \in Nat : In(User(s, k), heard[s]) <=> k \in 1..Told(s)
        BY <3>7 DEF Life, Counted
      <4>2. \A k \in 1..(n - 1) : In(User(s, k), heard[s])
        BY <1>2, <3>1, <3>7 DEF Life, NothingLost
      <4>3. \A k \in 1..(n - 1) : k \in 1..Told(s)
        BY <4>1, <4>2
      <4>4. n = Told(s) + 1
        <5>1. n - 1 \in 1..(n - 1) \/ n = 1
          BY <3>2, <3>3
        <5>2. QED
          BY <3>2, <3>3, <4>3, <5>1
      <4>5. In(User(s, m), heard'[s]) <=> m \in 1..Told(s) \/ m = n
        BY <1>2, <3>1, <4>1, EventIs
      <4>6. QED
        BY <3>2, <4>4, <4>5
    <3>8. \A m \in Nat : In(User(s, m), queue)' \/ In(User(s, m), fifo[s])' => Told(s)' < m
      BY <3>2, <3>4, <3>5
    <3>9. QED
      BY <1>4, <1>5, <3>2, <3>6, <3>7, <3>8 DEF Counted
  <2>3. QED
    BY <2>1, <2>2
<1>11. QED
  BY <1>6, <1>7, <1>8, <1>9, <1>10 DEF Life

(* Its disconnection is put behind its messages. *)
LEMMA AdvertiseKeeps ==
  ASSUME TypeOK, Placed, NEW s \in Socks, Life(s), Advertise(s), known[s],
         \/ ~up[s] /\ cut'[s] = cut[s]
         \/ cut'[s] = IF cut[s] = "no" THEN "flush" ELSE cut[s],
         up'[s] = up[s], forced'[s] = forced[s],
         UNCHANGED <<stage, sent, got, rt, removeSet, clients, heard>>, main' # "receive"
  PROVE  Life(s)'
<1>1. /\ fifo' = [fifo EXCEPT ![s] = Append(@, Disconnection(s))] /\ ~known'[s]
      /\ queue' = queue
  BY DEF Advertise, TypeOK
<1>2. PICK e \in Events : e = Disconnection(s)
  BY EventIs
<1>3. e.sock = s /\ e.ev = "Disconnection" /\ e # Connection(s) /\ \A n \in Nat : e # User(s, n)
  BY <1>2, EventIs
<1>4. /\ \A a : In(a, fifo'[s]) <=> In(a, fifo[s]) \/ a = e
      /\ \A a : Has(s, a)' <=> Has(s, a) \/ a = e
      /\ \A a, b : Follows(s, a, b)' <=> Follows(s, a, b) \/ (b = e /\ Has(s, a))
  <2>1. fifo' = [fifo EXCEPT ![s] = Append(@, e)] /\ UNCHANGED <<queue, heard>>
    BY <1>1, <1>2
  <2>2. QED
    BY <1>3, <2>1, Pushed
<1>5. stage[s] = "pooled" /\ ~Has(s, e)
  BY <1>2 DEF Life, Staged
<1>6. \A b : ~Follows(s, e, b)
  BY <1>5, BehindIn DEF Follows, Has
<1>7. Told(s)' = Told(s) /\ (BeingRead(s)' <=> BeingRead(s))
  BY DEF Told, BeingRead
<1>8. Staged(s)'
  BY <1>1, <1>2, <1>3, <1>4, <1>5 DEF Life, Staged
<1>9. Ordered(s)'
  BY <1>2, <1>3, <1>4, <1>5, <1>6, <1>7 DEF Life, Ordered
<1>10. Ended(s)'
  BY <1>2, <1>4, <1>5, <1>6 DEF Life, Ended
<1>11. NothingLost(s)'
  BY <1>1, <1>4, <1>7 DEF Life, NothingLost
<1>12. Counted(s)'
  BY <1>1, <1>3, <1>4, <1>7 DEF Life, Counted
<1>13. QED
  BY <1>8, <1>9, <1>10, <1>11, <1>12 DEF Life

-----------------------------------------------------------------------------
(* Every step keeps the life of every socket in order *)

(* A connection is only ended while it is open. *)
LEMMA CloseCuts ==
  ASSUME TypeOK, \A s \in Socks : Life(s), NEW x \in Socks, NEW hard \in BOOLEAN, up[x],
         CloseSock(x, hard)
  PROVE  \A s \in Socks : Cutting(s)
<1>1. stage[x] # "none"
  BY DEF Life, Staged, New
<1>2. /\ ~up'[x] /\ (forced[x] => forced'[x])
      /\ cut'[x] = IF cut[x] = "no" THEN "server" ELSE cut[x]
  BY DEF CloseSock, TypeOK
<1>3. \A s \in Socks : s # x => up'[s] = up[s] /\ forced'[s] = forced[s] /\ cut'[s] = cut[s]
  BY DEF CloseSock, TypeOK
<1>4. QED
  BY <1>1, <1>2, <1>3 DEF Cutting

(* A handler ends connections of sockets that are open. *)
LEMMA HandlerCuts ==
  ASSUME TypeOK, \A s \in Socks : Life(s), NEW whom, Handler(whom)
  PROVE  \A s \in Socks : Cutting(s)
<1>1. CASE UNCHANGED <<up, forced, cut>>
  BY <1>1 DEF Cutting
<1>2. ASSUME NEW x \in whom \cap Closable, NEW hard \in BOOLEAN, up[x], CloseSock(x, hard)
      PROVE  \A s \in Socks : Cutting(s)
  BY <1>2, ClosableOK, CloseCuts
<1>3. QED
  BY <1>1, <1>2 DEF Handler

(* The clients and the listen thread. *)
LEMMA ListenLife ==
  ASSUME TypeOK, Placed, \A s \in Socks : Life(s), ClientStep \/ ListenStep, NEW s \in Socks
  PROVE  Life(s)'
<1>1. ASSUME NEW x \in Socks, Send(x) \/ Close(x)
      PROVE  Life(s)'
  <2>1. StreamSame(s)
    BY <1>1 DEF StreamSame, Send, Close, mainVars
  <2>2. sent'[s] = sent[s] \/ (up[s] /\ sent'[s] = sent[s] + 1)
    <3>1. sent' = sent \/ (up[x] /\ sent' = [sent EXCEPT ![x] = @ + 1])
      BY <1>1 DEF Send, Close
    <3>2. sent \in [Socks -> Nat]
      BY DEF TypeOK
    <3>3. CASE s = x
      BY <3>1, <3>2, <3>3
    <3>4. CASE s # x
      BY <3>1, <3>2, <3>4
    <3>5. QED
      BY <3>3, <3>4
  <2>3. UNCHANGED <<stage, got, up, forced, known, rt, removeSet, main, todo, clients, cut>>
    BY <1>1 DEF Send, Close, threadVars, mainVars
  <2>4. Calm(s)
    BY <2>2, <2>3 DEF Calm, Cutting, Attended, BeingRead
  <2>5. QED
    BY <2>1, <2>4, CalmKeeps
<1>2. ASSUME NEW x \in Socks, Accept(x)
      PROVE  Life(s)'
  <2>1. CASE s = x
    BY <1>2, <2>1, AcceptKeeps
  <2>2. CASE s # x
    <3>1. /\ \A a : In(a, queue)' <=> In(a, queue) \/ a = Connection(x)
          /\ \A a, b : Behind(a, b, queue)' <=>
                         Behind(a, b, queue) \/ (In(a, queue) /\ b = Connection(x))
      <4>1. queue' = Append(queue, Connection(x))
        BY <1>2 DEF Accept
      <4>2. QED
        BY <4>1, AppendIn, EventIs DEF TypeOK
    <3>2. StreamSame(s)
      BY <1>2, <2>2, <3>1, EventIs DEF StreamSame, Accept
    <3>3. /\ up'[s] = up[s] /\ stage'[s] = stage[s]
          /\ UNCHANGED <<sent, got, forced, known, rt, removeSet, main, todo, clients, cut>>
      BY <1>2, <2>2 DEF Accept, TypeOK
    <3>4. Calm(s)
      BY <3>3 DEF Calm, Cutting, Attended, BeingRead
    <3>5. QED
      BY <3>2, <3>4, CalmKeeps
  <2>3. QED
    BY <2>1, <2>2
<1>3. CASE WriteByte
  <2>1. StreamSame(s)
    BY <1>3 DEF StreamSame, WriteByte, sockVars
  <2>2. UNCHANGED <<stage, sent, got, up, forced, known, rt, removeSet, main, todo, clients, cut>>
    BY <1>3 DEF WriteByte, sockVars
  <2>3. Calm(s)
    BY <2>2 DEF Calm, Cutting, Attended, BeingRead
  <2>4. QED
    BY <2>1, <2>3, CalmKeeps
<1>4. ASSUME NEW t \in Tasks, Dispatch(t)
      PROVE  Life(s)'
  <2>1. CASE s = listening.sock
    BY <1>4, <2>1, DispatchKeeps
  <2>2. CASE s # listening.sock
    <3>1. StreamSame(s)
      BY <1>4 DEF StreamSame, Dispatch, mainVars
    <3>2. /\ known'[s] = known[s] /\ stage'[s] = stage[s]
          /\ UNCHANGED <<sent, got, up, forced, rt, removeSet, main, todo, clients, cut>>
      BY <1>4, <2>2 DEF Dispatch, mainVars, TypeOK
    <3>3. Calm(s)
      BY <3>2 DEF Calm, Cutting, Attended, BeingRead
    <3>4. QED
      BY <3>1, <3>3, CalmKeeps
  <2>3. QED
    BY <2>1, <2>2
<1>5. QED
  BY <1>1, <1>2, <1>3, <1>4 DEF ClientStep, ListenStep

(* A receive thread. *)
LEMMA TaskLife ==
  ASSUME TypeOK, Placed, \A s \in Socks : Life(s), NEW t \in Tasks, TaskStep(t), NEW s \in Socks
  PROVE  Life(s)'
<1>1. CASE NextTurn(t)
  <2>1. CASE s \in removeSet[t]
    BY <1>1, <2>1, FreeKeeps
  <2>2. CASE s \notin removeSet[t]
    <3>1. /\ fifo'[s] = fifo[s] /\ stage'[s] = stage[s] /\ (s \in todo' => s \in todo)
          /\ UNCHANGED <<sent, got, up, forced, known, queue, main, clients, heard, cut>>
      BY <1>1, <2>2 DEF NextTurn
    <3>2. StreamSame(s)
      BY <3>1 DEF StreamSame
    <3>3. /\ BeingRead(s)' <=> BeingRead(s)
          /\ \A x \in Tasks : /\ s \in removeSet'[x] => s \in removeSet[x]
                              /\ s \in rt'[x].copy => s \in rt[x].copy \/ up[s]
      BY <1>1, TurnIs, SocksOK DEF BeingRead
    <3>4. Calm(s)
      BY <3>1, <3>3 DEF Calm, Cutting, Attended
    <3>5. QED
      BY <3>2, <3>4, CalmKeeps
  <2>3. QED
    BY <2>1, <2>2
<1>2. ASSUME UNCHANGED <<stage, sent, got, up, forced, known, fifo, removeSet, queue, main,
                         todo, clients, heard, cut>>,
             \A x \in Tasks : rt'[x].copy \subseteq rt[x].copy,
             BeingRead(s)' <=> BeingRead(s)
      PROVE  Life(s)'
  <2>1. StreamSame(s)
    BY <1>2 DEF StreamSame
  <2>2. Calm(s)
    BY <1>2 DEF Calm, Cutting, Attended
  <2>3. QED
    BY <2>1, <2>2, CalmKeeps
<1>3. CASE Select(t)
  <2>1. PICK ready \in SUBSET rt[t].copy :
          rt' = [rt EXCEPT ![t].at = "read", ![t].copy = ready, ![t].woken = (wake[t] > 0)]
    BY <1>3 DEF Select
  <2>2. \A x \in Tasks : rt'[x].copy \subseteq rt[x].copy /\ rt'[x].msg = rt[x].msg
    BY <2>1 DEF TypeOK
  <2>3. QED
    BY <1>2, <1>3, <2>2 DEF Select, BeingRead, sockVars, mainVars
<1>4. ASSUME NEW x \in Socks, SkipForced(t, x)
      PROVE  Life(s)'
  <2>1. x \in rt[t].copy /\ rt[t].msg = NoSock /\ Done(t, x)
    BY <1>4 DEF SkipForced, Reads
  <2>2. \A y \in Tasks : rt'[y].copy \subseteq rt[y].copy /\ rt'[y].msg = rt[y].msg
    BY <2>1, DoneIs
  <2>3. QED
    BY <1>2, <1>4, <2>2 DEF SkipForced, BeingRead, sockVars, mainVars
<1>5. ASSUME NEW x \in Socks, ReceivePart(t, x)
      PROVE  Life(s)'
  <2>1. CASE s = x
    BY <1>5, <2>1, ReadKeeps
  <2>2. CASE s # x
    <3>1. /\ got'[s] = got[s] /\ rt[t].msg = NoSock /\ rt' = [rt EXCEPT ![t].msg = x]
          /\ UNCHANGED <<stage, sent, up, forced, known, fifo, removeSet, queue, main, todo,
                         clients, heard, cut>>
      BY <1>5, <2>2 DEF ReceivePart, Reads, mainVars, TypeOK
    <3>2. StreamSame(s)
      BY <3>1 DEF StreamSame
    <3>3. (BeingRead(s)' <=> BeingRead(s)) /\ \A y \in Tasks : rt'[y].copy = rt[y].copy
      BY <2>2, <3>1, SocksOK DEF BeingRead, TypeOK
    <3>4. Calm(s)
      BY <3>1, <3>3 DEF Calm, Cutting, Attended
    <3>5. QED
      BY <3>2, <3>4, CalmKeeps
  <2>3. QED
    BY <2>1, <2>2
<1>6. ASSUME NEW x \in Socks, ReceiveNothing(t, x)
      PROVE  Life(s)'
  <2>1. CASE s = x
    BY <1>6, <2>1, FoundClosedKeeps
  <2>2. CASE s # x
    <3>1. /\ up'[s] = up[s] /\ rt[t].msg = NoSock /\ Done(t, x) /\ x \in rt[t].copy
          /\ UNCHANGED <<stage, sent, got, forced, known, fifo, removeSet, queue, main, todo,
                         clients, heard, cut>>
      BY <1>6, <2>2 DEF ReceiveNothing, Reads, mainVars, TypeOK
    <3>2. StreamSame(s)
      BY <3>1 DEF StreamSame
    <3>3. (BeingRead(s)' <=> BeingRead(s)) /\ \A y \in Tasks : rt'[y].copy \subseteq rt[y].copy
      BY <3>1, DoneIs DEF BeingRead
    <3>4. Calm(s)
      BY <3>1, <3>3 DEF Calm, Cutting, Attended
    <3>5. QED
      BY <3>2, <3>4, CalmKeeps
  <2>3. QED
    BY <2>1, <2>2
<1>7. CASE PushMessage(t)
  <2>1. PICK x \in Socks : x = rt[t].msg /\ x \in rt[t].copy
    BY <1>7 DEF PushMessage, Placed, TypeOK
  <2>2. /\ Done(t, x)
        /\ UNCHANGED <<stage, sent, got, known, removeSet, queue, main, todo, clients, heard>>
    BY <1>7, <2>1 DEF PushMessage, mainVars
  <2>3. /\ stage[x] = "pooled" /\ ~BeingRead(x)'
        /\ \A y \in Tasks : rt'[y].copy \subseteq rt[y].copy
        /\ s # x => (BeingRead(s)' <=> BeingRead(s))
    <3>1. /\ rt'[t].copy = rt[t].copy \ {x} /\ rt'[t].msg = NoSock
          /\ \A y \in Tasks : y # t => rt'[y] = rt[y]
          /\ stage[x] = "pooled" /\ ~BeingRead(x)'
      BY <2>1, <2>2, DoneIs
    <3>2. QED
      BY <2>1, <3>1, SocksOK DEF BeingRead
  <2>4. CASE Len(fifo[x]) < FifoSize
    <3>1. /\ fifo' = [fifo EXCEPT ![x] = Append(@, User(x, got[x]))]
          /\ UNCHANGED <<up, forced, cut>>
      BY <1>7, <2>1, <2>4 DEF PushMessage
    <3>2. CASE s = x
      BY <1>7, <2>1, <2>4, <3>2, PushKeeps
    <3>3. CASE s # x
      <4>1. StreamSame(s)
        BY <2>2, <3>1, <3>3 DEF StreamSame, TypeOK
      <4>2. Calm(s)
        BY <2>2, <2>3, <3>1, <3>3 DEF Calm, Cutting, Attended
      <4>3. QED
        BY <4>1, <4>2, CalmKeeps
    <3>4. QED
      BY <3>2, <3>3
  <2>5. CASE ~(Len(fifo[x]) < FifoSize)
    <3>1. Overflow(x) /\ UNCHANGED fifo
      BY <1>7, <2>1, <2>5 DEF PushMessage
    <3>2. StreamSame(s)
      BY <2>2, <3>1 DEF StreamSame
    <3>3. Cutting(s) /\ (s = x => forced'[s])
      BY <2>3, <3>1 DEF Overflow, Cutting, TypeOK
    <3>4. Calm(s)
      BY <2>2, <2>3, <3>3 DEF Calm, Attended
    <3>5. QED
      BY <3>2, <3>4, CalmKeeps
  <2>6. QED
    BY <2>4, <2>5
<1>8. QED
  BY <1>1, <1>3, <1>4, <1>5, <1>6, <1>7 DEF TaskStep

(* The main thread, between its queues and the callbacks. *)
LEMMA DataLife ==
  ASSUME TypeOK, Placed, \A s \in Socks : Life(s), DataStep, NEW s \in Socks
  PROVE  Life(s)'
<1>1. CASE DataAvailable \/ NothingAvailable
  <2>1. /\ main' = "receive" /\ s \in todo' => queue' = <<>>
        /\ UNCHANGED <<stage, sent, got, up, forced, known, fifo, rt, removeSet, queue,
                       clients, heard, cut>>
    BY <1>1 DEF DataAvailable, NothingAvailable, sockVars, threadVars
  <2>2. StreamSame(s) /\ Calm(s)
    BY <2>1 DEF StreamSame, Calm, Cutting, Attended, BeingRead
  <2>3. QED
    BY <2>2, CalmKeeps
<1>2. ASSUME NEW x \in Socks, RefillFrom(x)
      PROVE  Life(s)'
  <2>1. /\ todo' \subseteq todo
        /\ UNCHANGED <<stage, sent, got, up, forced, known, rt, removeSet, main, clients,
                       heard, cut>>
    BY <1>2 DEF RefillFrom, threadVars
  <2>2. Calm(s)
    BY <2>1 DEF Calm, Cutting, Attended, BeingRead
  <2>3. CASE fifo[x] = <<>>
    <3>1. StreamSame(s)
      BY <1>2, <2>1, <2>3 DEF RefillFrom, StreamSame
    <3>2. QED
      BY <2>2, <3>1, CalmKeeps
  <2>4. CASE fifo[x] # <<>> /\ s # x
    <3>1. queue' = Append(queue, Head(fifo[x])) /\ fifo' = [fifo EXCEPT ![x] = Tail(@)]
      BY <1>2, <2>4 DEF RefillFrom
    <3>2. StreamSame(s)
      BY <2>1, <2>4, <3>1, Refilled DEF Life
    <3>3. QED
      BY <2>2, <3>2, CalmKeeps
  <2>5. CASE fifo[x] # <<>> /\ s = x
    BY <1>2, <2>5, RefillKeeps
  <2>6. QED
    BY <2>3, <2>4, <2>5
<1>3. CASE DropFront
  <2>1. PICK h : h = Head(queue)
    OBVIOUS
  <2>2. CASE s = h.sock
    BY <1>3, <2>1, <2>2, DropKeeps
  <2>3. CASE s # h.sock
    <3>1. StreamSame(s)
      BY <1>3, <2>1, <2>3, Dropped DEF DropFront, sockVars
    <3>2. Calm(s)
      BY <1>3 DEF DropFront, Calm, Cutting, Attended, BeingRead, sockVars, threadVars
    <3>3. QED
      BY <3>1, <3>2, CalmKeeps
  <2>4. QED
    BY <2>2, <2>3
<1>4. ASSUME NEW ev, Front(ev), Pop, Callback, NEW whom, Handler(whom),
             UNCHANGED <<stage, sent, got, known, fifo, rt>>,
             main' = "receive" => s \notin todo',
             \A h : h = Head(queue) =>
               /\ s \in clients' => s \in clients \/ (ev = "Connection" /\ s = h.sock)
               /\ ev = "Disconnection" => h.sock \notin clients'
               /\ \A t \in Tasks : s \in removeSet'[t] =>
                    s \in removeSet[t] \/ (ev = "Disconnection" /\ s = h.sock)
      PROVE  Life(s)'
  <2>1. PICK h : h = Head(queue)
    OBVIOUS
  <2>2. Cutting(s)
    BY <1>4, HandlerCuts
  <2>3. CASE s = h.sock
    BY <1>4, <2>1, <2>2, <2>3, HearKeeps
  <2>4. CASE s # h.sock
    <3>1. StreamSame(s)
      BY <1>4, <2>1, <2>4, IsHeard
    <3>2. Calm(s)
      BY <1>4, <2>1, <2>2, <2>4 DEF Calm, Attended, BeingRead
    <3>3. QED
      BY <3>1, <3>2, CalmKeeps
  <2>5. QED
    BY <2>3, <2>4
<1>5. CASE ReceiveMessage
  BY <1>4, <1>5 DEF ReceiveMessage, threadVars
<1>6. CASE ReceiveConnection
  BY <1>4, <1>6 DEF ReceiveConnection, Front, threadVars
<1>7. CASE ReceiveDisconnection
  <2>1. \A t \in Tasks : s \in removeSet'[t] => s \in removeSet[t] \/ s = Head(queue).sock
    BY <1>7 DEF ReceiveDisconnection, TypeOK
  <2>2. QED
    BY <1>4, <1>7, <2>1 DEF ReceiveDisconnection, Remaining, Front
<1>8. QED
  BY <1>1, <1>2, <1>3, <1>5, <1>6, <1>7 DEF DataStep

(* The main thread, when it updates the sockets. *)
LEMMA UpdateLife ==
  ASSUME TypeOK, Placed, \A s \in Socks : Life(s), UpdateStep, NEW s \in Socks
  PROVE  Life(s)'
<1>1. PICK x \in Socks : UpdateOpen(x) \/ UpdateClosed(x) \/ UpdateFails(x) \/ UpdateTimeout(x)
  BY DEF UpdateStep
<1>2. /\ main' # "receive"
      /\ UNCHANGED <<stage, sent, got, rt, removeSet, clients, heard>>
  BY <1>1 DEF UpdateOpen, UpdateClosed, UpdateFails, UpdateTimeout, Updates, Unchanged, threadVars
<1>3. ASSUME known'[s] = known[s], StreamSame(s), Cutting(s)
      PROVE  Life(s)'
  <2>1. Calm(s)
    BY <1>2, <1>3 DEF Calm, Attended, BeingRead
  <2>2. QED
    BY <1>3, <2>1, CalmKeeps
<1>4. CASE UpdateOpen(x) \/ UpdateTimeout(x)
  <2>1. known' = known /\ StreamSame(s)
    BY <1>2, <1>4 DEF UpdateOpen, UpdateTimeout, StreamSame
  <2>2. Cutting(s)
    <3>1. CASE UpdateOpen(x)
      BY <3>1 DEF UpdateOpen, Cutting
    <3>2. CASE UpdateTimeout(x)
      BY <3>2, CloseCuts DEF UpdateTimeout
    <3>3. QED
      BY <1>4, <3>1, <3>2
  <2>3. QED
    BY <1>3, <2>1, <2>2
<1>5. CASE UpdateClosed(x) \/ UpdateFails(x)
  <2>1. Advertise(x) /\ UNCHANGED <<up, forced, queue>>
    BY <1>5 DEF UpdateClosed, UpdateFails, Advertise
  <2>2. \/ ~up[x] /\ cut' = cut
        \/ up[x] /\ cut' = [cut EXCEPT ![x] = IF @ = "no" THEN "flush" ELSE @]
    BY <1>5 DEF UpdateClosed, UpdateFails
  <2>3. CASE known[x] /\ s = x
    <3>1. \/ ~up[x] /\ cut'[x] = cut[x]
          \/ cut'[x] = IF cut[x] = "no" THEN "flush" ELSE cut[x]
      BY <2>2 DEF TypeOK
    <3>2. QED
      BY <1>2, <2>1, <2>3, <3>1, AdvertiseKeeps
  <2>4. CASE ~known[x] \/ s # x
    <3>1. StreamSame(s) /\ known'[s] = known[s]
      BY <1>2, <2>1, <2>4 DEF Advertise, StreamSame, TypeOK
    <3>2. Cutting(s)
      <4>1. CASE s = x /\ up[x]
        <5>1. stage[x] # "none"
          BY <4>1 DEF Life, Staged, New
        <5>2. cut'[x] = IF cut[x] = "no" THEN "flush" ELSE cut[x]
          BY <2>2, <4>1 DEF TypeOK
        <5>3. QED
          BY <2>1, <4>1, <5>1, <5>2 DEF Cutting
      <4>2. CASE s # x \/ ~up[x]
        <5>1. cut'[s] = cut[s]
          BY <2>2, <4>2 DEF TypeOK
        <5>2. QED
          BY <2>1, <5>1 DEF Cutting
      <4>3. QED
        BY <4>1, <4>2
    <3>3. QED
      BY <1>3, <3>1, <3>2
  <2>5. QED
    BY <2>3, <2>4
<1>6. QED
  BY <1>1, <1>4, <1>5

(* Each step of each thread. *)
LEMMA LifeStep ==
  ASSUME TypeOK, Placed, \A s \in Socks : Life(s), [Next]_vars
  PROVE  \A s \in Socks : Life(s)'
<1> SUFFICES ASSUME NEW s \in Socks
             PROVE  Life(s)'
  OBVIOUS
<1>1. CASE UNCHANGED vars
  <2>1. StreamSame(s) /\ Calm(s)
    BY <1>1 DEF vars, sockVars, threadVars, mainVars, StreamSame, Calm, Cutting, Attended,
                BeingRead
  <2>2. QED
    BY <2>1, CalmKeeps
<1>2. QED
  BY <1>1, ListenLife, TaskLife, DataLife, UpdateLife DEF Next, MainStep

-----------------------------------------------------------------------------
(* What the callbacks hear *)

(* A step calls no callback, or one, for the front of the queue; and what  *)
(* the server has ended it does not take up again.                         *)
LEMMA HeardGrows ==
  ASSUME TypeOK, [Next]_vars
  PROVE  /\ \/ UNCHANGED heard
            \/ /\ \E ev : Front(ev) /\ Pop /\ Callback
               /\ UNCHANGED <<sent, fifo>>
         /\ \A s \in Socks : forced[s] => forced'[s]
         /\ \A s \in Socks : cut[s] # "no" => cut'[s] # "no"
         /\ cut' \in [Socks -> {"no", "server", "flush"}]
<1> DEFINE Monotone ==
      /\ \A s \in Socks : forced[s] => forced'[s]
      /\ \A s \in Socks : cut[s] # "no" => cut'[s] # "no"
      /\ cut' \in [Socks -> {"no", "server", "flush"}]
<1>1. UNCHANGED <<forced, cut>> => Monotone
  BY DEF TypeOK
<1>2. ASSUME NEW x \in Socks, NEW hard \in BOOLEAN, CloseSock(x, hard)
      PROVE  Monotone
  BY <1>2 DEF CloseSock, TypeOK
<1>3. ASSUME NEW x \in Socks, Overflow(x)
      PROVE  Monotone
  BY <1>3 DEF Overflow, TypeOK
<1>4. ASSUME NEW whom, Handler(whom)
      PROVE  Monotone
  BY <1>1, <1>2, <1>4, ClosableOK DEF Handler
<1> HIDE DEF Monotone
<1>5. CASE UNCHANGED vars
  BY <1>1, <1>5 DEF vars, sockVars, Monotone
<1>6. CASE ClientStep \/ ListenStep
  <2>1. UNCHANGED <<heard, forced, cut>>
    BY <1>6 DEF ClientStep, Send, Close, ListenStep, WriteByte, Accept, Dispatch, sockVars
  <2>2. QED
    BY <1>1, <2>1 DEF Monotone
<1>7. ASSUME NEW t \in Tasks, TaskStep(t)
      PROVE  UNCHANGED heard /\ Monotone
  <2>1. CASE PushMessage(t)
    <3>1. rt[t].msg \in Socks
      BY <2>1 DEF PushMessage, TypeOK
    <3>2. QED
      BY <1>1, <1>3, <2>1, <3>1 DEF PushMessage
  <2>2. CASE ~PushMessage(t)
    <3>1. UNCHANGED <<heard, forced, cut>>
      BY <1>7, <2>2 DEF TaskStep, NextTurn, Select, SkipForced, ReceivePart, ReceiveNothing,
                        sockVars
    <3>2. QED
      BY <1>1, <3>1
  <2>3. QED
    BY <2>1, <2>2
<1>8. CASE DataStep
  <2>1. CASE ReceiveMessage \/ ReceiveConnection \/ ReceiveDisconnection
    BY <1>4, <2>1 DEF ReceiveMessage, ReceiveConnection, ReceiveDisconnection, Monotone
  <2>2. CASE ~(ReceiveMessage \/ ReceiveConnection \/ ReceiveDisconnection)
    <3>1. UNCHANGED <<heard, forced, cut>>
      BY <1>8, <2>2 DEF DataStep, DataAvailable, RefillFrom, DropFront, NothingAvailable, sockVars
    <3>2. QED
      BY <1>1, <3>1 DEF Monotone
  <2>3. QED
    BY <2>1, <2>2
<1>9. CASE UpdateStep
  <2>1. UNCHANGED heard
    BY <1>9 DEF UpdateStep, UpdateOpen, UpdateClosed, UpdateFails, UpdateTimeout, Unchanged
  <2>2. Monotone
    <3>1. ASSUME NEW x \in Socks, UpdateFails(x)
          PROVE  Monotone
      BY <3>1 DEF UpdateFails, Monotone, TypeOK
    <3>2. ASSUME NEW x \in Socks, UpdateOpen(x) \/ UpdateClosed(x)
          PROVE  Monotone
      BY <1>1, <3>2 DEF UpdateOpen, UpdateClosed
    <3>3. ASSUME NEW x \in Socks, UpdateTimeout(x)
          PROVE  Monotone
      BY <1>2, <3>3 DEF UpdateTimeout
    <3>4. QED
      BY <1>9, <3>1, <3>2, <3>3 DEF UpdateStep
  <2>3. QED
    BY <2>1, <2>2 DEF Monotone
<1>10. QED
  BY <1>5, <1>6, <1>7, <1>8, <1>9 DEF Next, MainStep, Monotone

(* The messages of a socket are heard in order. *)
LEMMA OrderStep ==
  ASSUME TypeOK, \A s \in Socks : Life(s), HeardInOrder, [Next]_vars
  PROVE  HeardInOrder'
<1> DEFINE Fits(q, i, whole, s) ==
      q[i].ev = "User" =>
        /\ \A j \in 1..(i - 1) : q[j].ev = "User" => q[j].n < q[i].n
        /\ whole => \A m \in 1..(q[i].n - 1) : \E j \in 1..(i - 1) : q[j] = User(s, m)
<1>1. \A s \in Socks : \A i \in DOMAIN heard[s] : Fits(heard[s], i, ~forced[s], s)
  BY DEF HeardInOrder
<1>2. SUFFICES ASSUME NEW s \in Socks, NEW i \in DOMAIN heard'[s]
               PROVE  Fits(heard'[s], i, ~forced'[s], s)
  BY DEF HeardInOrder
<1>3. forced[s] => forced'[s]
  BY HeardGrows
<1>4. ASSUME heard'[s] = heard[s]
      PROVE  Fits(heard'[s], i, ~forced'[s], s)
  BY <1>1, <1>3, <1>4
<1>5. ASSUME NEW ev, Front(ev), Pop, Callback, UNCHANGED <<sent, fifo>>
      PROVE  Fits(heard'[s], i, ~forced'[s], s)
  <2>1. PICK h : h = Head(queue)
    OBVIOUS
  <2>2. h \in Events /\ h.sock \in Socks
    BY <1>5, <2>1, FrontIs
  <2>3. CASE h.sock # s
    <3>1. heard'[s] = heard[s]
      BY <1>5, <2>1, <2>2, <2>3 DEF Callback, TypeOK
    <3>2. QED
      BY <1>4, <3>1
  <2>4. CASE h.sock = s
    <3>1. heard[s] \in Seq(Events) /\ heard'[s] = Append(heard[s], h)
      BY <1>5, <2>1, <2>2, <2>4 DEF Callback, TypeOK
    <3>2. /\ Len(heard[s]) \in Nat /\ DOMAIN heard[s] = 1..Len(heard[s])
          /\ DOMAIN heard'[s] = 1..(Len(heard[s]) + 1)
          /\ \A j \in 1..Len(heard[s]) : heard'[s][j] = heard[s][j] /\ heard[s][j] \in Events
          /\ heard'[s][Len(heard[s]) + 1] = h
      BY <3>1
    <3>3. CASE i # Len(heard[s]) + 1
      <4>1. i \in 1..Len(heard[s]) /\ 1..(i - 1) \subseteq 1..Len(heard[s])
        BY <3>2, <3>3
      <4>2. /\ i \in DOMAIN heard[s] /\ heard'[s][i] = heard[s][i]
            /\ \A j \in 1..(i - 1) : heard'[s][j] = heard[s][j]
        BY <3>2, <4>1
      <4>3. QED
        BY <1>1, <1>3, <4>2
    <3>4. CASE i = Len(heard[s]) + 1 /\ h.ev = "User"
      <4>1. PICK n \in Nat : h = User(s, n) /\ h.n = n
        BY <2>2, <2>4, <3>4, EventIs
      <4>2. /\ In(h, queue)
            /\ \A a : In(a, heard[s]) /\ a.sock = s => Follows(s, a, h)
        BY <1>5, <2>1, <2>4, IsHeard
      <4>3. 1..(i - 1) = 1..Len(heard[s])
        BY <3>2, <3>4
      <4>4. ASSUME NEW j \in 1..Len(heard[s]), heard[s][j].ev = "User"
            PROVE  heard[s][j].n < n
        <5>1. In(heard[s][j], heard[s]) /\ heard[s][j] \in Events
          BY <3>2 DEF In
        <5>2. heard[s][j].sock = s
          BY <5>1 DEF Life, Staged
        <5>3. heard[s][j] = User(s, heard[s][j].n) /\ heard[s][j].n \in Nat
          BY <4>4, <5>1, <5>2, EventIs
        <5>4. QED
          BY <4>1, <4>2, <5>1, <5>2, <5>3 DEF Life, Ordered
      <4>5. ASSUME ~forced[s], NEW m \in 1..(n - 1)
            PROVE  \E j \in 1..Len(heard[s]) : heard[s][j] = User(s, m)
        BY <4>1, <4>2, <4>5 DEF Life, NothingLost, In
      <4>6. heard'[s][i] = h /\ \A j \in 1..(i - 1) : heard'[s][j] = heard[s][j]
        BY <3>2, <3>4, <4>3
      <4>7. QED
        BY <1>3, <4>1, <4>3, <4>4, <4>5, <4>6
    <3>5. CASE i = Len(heard[s]) + 1 /\ h.ev # "User"
      BY <3>2, <3>5
    <3>6. QED
      BY <3>3, <3>4, <3>5
  <2>5. QED
    BY <2>3, <2>4
<1>6. QED
  BY <1>4, <1>5, HeardGrows

-----------------------------------------------------------------------------
(* The invariants *)

(* No socket has been heard of at the beginning. *)
LEMMA InitKeeps ==
  ASSUME Init
  PROVE  IInv
<1>1. TypeOK
  BY EmptySeq DEF Init, TypeOK, Idle
<1>2. Placed
  BY SocksOK DEF Init, Placed, Pooled, Idle
<1>3. HeardInOrder
  BY DEF Init, HeardInOrder
<1>4. ASSUME NEW s \in Socks
      PROVE  Life(s)
  <2>1. /\ \A a : ~Has(s, a) /\ ~In(a, heard[s]) /\ ~In(a, queue) /\ ~In(a, fifo[s])
        /\ \A a, b : ~Follows(s, a, b)
    BY InEmpty DEF Init, Has, Follows
  <2>2. Told(s) = 0
    <3>1. {i \in DOMAIN heard[s] : heard[s][i].ev = "User"} = {}
      BY DEF Init
    <3>2. QED
      BY <3>1, FS_EmptySet DEF Told
  <2>3. ~BeingRead(s)
    BY SocksOK DEF BeingRead, Init, Idle
  <2>4. Staged(s)
    BY <2>1 DEF Init, Staged, New
  <2>5. Ordered(s)
    BY <2>1 DEF Init, Ordered
  <2>6. Ended(s)
    BY <2>1 DEF Init, Ended
  <2>7. NothingLost(s)
    BY <2>1 DEF Init, NothingLost
  <2>8. Counted(s)
    BY <2>1, <2>2, <2>3 DEF Init, Counted
  <2>9. QED
    BY <2>4, <2>5, <2>6, <2>7, <2>8 DEF Life
<1>5. QED
  BY <1>1, <1>2, <1>3, <1>4 DEF IInv

(* Every step keeps the invariant. *)
LEMMA StepKeeps ==
  ASSUME IInv, [Next]_vars
  PROVE  IInv'
<1>1. TypeOK /\ Placed /\ HeardInOrder /\ \A s \in Socks : Life(s)
  BY DEF IInv
<1>2. TypeOK'
  <2>1. CASE UNCHANGED vars
    BY <1>1, <2>1 DEF TypeOK, vars, sockVars, threadVars, mainVars
  <2>2. QED
    BY <1>1, <2>1, ListenTyped, TaskTyped, MainTyped DEF Next
<1>3. Placed' /\ HeardInOrder' /\ \A s \in Socks : Life(s)'
  BY <1>1, PlacedStep, OrderStep, LifeStep
<1>4. QED
  BY <1>2, <1>3 DEF IInv

(* The invariant holds in every reachable state. *)
THEOREM InvariantHolds == Spec => []IInv
<1>1. Init => IInv
  BY InitKeeps
<1>2. IInv /\ [Next]_vars => IInv'
  BY StepKeeps
<1>3. QED
  BY <1>1, <1>2, PTL DEF Spec

(* The variables of the threads and of the queues keep their types. *)
THEOREM TypesHold == Spec => []TypeOK
<1>1. IInv => TypeOK
  BY DEF IInv
<1>2. QED
  BY <1>1, InvariantHolds, PTL

(* No thread reaches a socket that clearClosedConnections has deleted. *)
THEOREM FreedHolds == Spec => []FreedIsForgotten
<1>1. IInv => FreedIsForgotten
  BY DEF IInv, Life, Staged, Placed, Pooled, FreedIsForgotten, TypeOK
<1>2. QED
  BY <1>1, InvariantHolds, PTL

(* Messages are handled in the order sent, and with a gap only on a socket *)
(* that pushMessageIntoReceiveQueue or the server has force-closed.        *)
THEOREM InOrderHolds == Spec => []HeardInOrder
<1>1. IInv => HeardInOrder
  BY DEF IInv
<1>2. QED
  BY <1>1, InvariantHolds, PTL

(* What is said of a socket is the event of it. *)
LEMMA TellsIs ==
  ASSUME TypeOK, NEW s \in Socks, Life(s)
  PROVE  /\ Tells(s, "Connection") <=> In(Connection(s), heard[s])
         /\ Tells(s, "Disconnection") <=> In(Disconnection(s), heard[s])
<1>1. heard[s] \in Seq(Events) /\ DOMAIN heard[s] = 1..Len(heard[s])
  BY DEF TypeOK
<1>2. \A i \in 1..Len(heard[s]) : heard[s][i] \in Events /\ heard[s][i].sock = s
  BY <1>1 DEF Life, Staged, In
<1>3. QED
  BY <1>1, <1>2, EventIs DEF Tells, In

(* A Disconnection that advertiseDisconnection queued is the last event of *)
(* a connection which the server did not end itself.                       *)
THEOREM NothingBehindHolds == Spec => []NothingBehindDisconnection
<1>1. ASSUME IInv
      PROVE  NothingBehindDisconnection
  <2>1. SUFFICES ASSUME NEW s \in Socks, cut[s] = "no"
                 PROVE  /\ \A i \in DOMAIN queue : queue[i] = Disconnection(s) =>
                             fifo[s] = <<>> /\ \A j \in (i + 1)..Len(queue) : queue[j].sock # s
                        /\ \A i \in DOMAIN fifo[s] : fifo[s][i].ev = "Disconnection" => i = Len(fifo[s])
                        /\ Tells(s, "Disconnection") =>
                             fifo[s] = <<>> /\ \A i \in DOMAIN queue : queue[i].sock # s
    BY DEF NothingBehindDisconnection
  <2> DEFINE d == Disconnection(s)
  <2>2. /\ TypeOK /\ Life(s) /\ \A b \in Events : ~Follows(s, d, b)
        /\ d \in Events /\ d.sock = s
    BY <1>1, <2>1, EventIs DEF IInv, Life, Ended
  <2>3. /\ queue \in Seq(Events) /\ DOMAIN queue = 1..Len(queue)
        /\ fifo[s] \in Seq(Events) /\ DOMAIN fifo[s] = 1..Len(fifo[s])
        /\ Len(queue) \in Nat /\ Len(fifo[s]) \in Nat
    BY <2>2 DEF TypeOK
  <2>4. \A i \in DOMAIN queue : queue[i] \in Events /\ In(queue[i], queue)
    BY <2>3 DEF In
  <2>5. \A i \in DOMAIN fifo[s] : fifo[s][i] \in Events /\ In(fifo[s][i], fifo[s]) /\ fifo[s][i].sock = s
    <3>1. \A i \in DOMAIN fifo[s] : fifo[s][i] \in Events /\ In(fifo[s][i], fifo[s])
      BY <2>3 DEF In
    <3>2. QED
      BY <2>2, <3>1 DEF Life, Staged
  <2>6. ASSUME In(d, queue) \/ In(d, heard[s])
        PROVE  fifo[s] = <<>>
    <3>1. \A i \in DOMAIN fifo[s] : FALSE
      BY <2>2, <2>5, <2>6 DEF Follows
    <3>2. fifo[s] # <<>> => 1 \in DOMAIN fifo[s]
      BY <2>3, EmptySeq
    <3>3. QED
      BY <3>1, <3>2
  <2> HIDE DEF d
  <2>7. ASSUME NEW i \in DOMAIN queue, queue[i] = d, NEW j \in (i + 1)..Len(queue)
        PROVE  queue[j].sock # s
    <3>1. j \in DOMAIN queue /\ i < j
      BY <2>3
    <3>2. Behind(d, queue[j], queue)
      BY <2>3, <2>7, <3>1 DEF Behind
    <3>3. QED
      BY <2>2, <2>4, <3>1, <3>2 DEF Follows
  <2>8. ASSUME NEW i \in DOMAIN fifo[s], fifo[s][i].ev = "Disconnection", i # Len(fifo[s])
        PROVE  FALSE
    <3>1. fifo[s][i] = d
      BY <2>5, <2>8, EventIs DEF d
    <3>2. Len(fifo[s]) \in DOMAIN fifo[s] /\ i < Len(fifo[s])
      BY <2>3, <2>8
    <3>3. Behind(d, fifo[s][Len(fifo[s])], fifo[s])
      BY <2>3, <3>1, <3>2 DEF Behind
    <3>4. QED
      BY <2>2, <2>5, <3>2, <3>3 DEF Follows
  <2>9. ASSUME In(d, heard[s])
        PROVE  \A i \in DOMAIN queue : queue[i].sock # s
    BY <2>2, <2>4, <2>9 DEF Follows
  <2>10. Tells(s, "Disconnection") => In(d, heard[s])
    BY <2>2, TellsIs DEF d
  <2>11. \A i \in DOMAIN queue : queue[i] = d => In(d, queue)
    BY <2>4
  <2>12. QED
    BY <2>6, <2>7, <2>8, <2>9, <2>10, <2>11 DEF d
<1>2. QED
  BY <1>1, InvariantHolds, PTL

(* When the server ends a connection, only the message a receive thread    *)
(* was queueing may be handled after the disconnection.                    *)
THEOREM OneLateHolds == Spec => []AtMostOneLate
<1>1. ASSUME IInv
      PROVE  AtMostOneLate
  <2>1. SUFFICES ASSUME NEW s \in Socks, cut[s] = "server", NEW i \in Late(s), NEW j \in Late(s),
                        i < j
                 PROVE  FALSE
    <3>1. heard \in [Socks -> Seq(Events)]
      BY <1>1 DEF IInv, TypeOK
    <3>2. \A s \in Socks : Late(s) \subseteq Nat
      BY <3>1 DEF Late
    <3>3. \A k, m \in Nat : k < m \/ m < k \/ k = m
      OBVIOUS
    <3>4. QED
      BY <2>1, <3>2, <3>3 DEF AtMostOneLate
  <2>2. /\ TypeOK /\ Life(s)
        /\ heard[s] \in Seq(Events) /\ DOMAIN heard[s] = 1..Len(heard[s]) /\ Len(heard[s]) \in Nat
    BY <1>1 DEF IInv, TypeOK
  <2>3. \A k \in 1..Len(heard[s]) : heard[s][k] \in Events /\ heard[s][k].sock = s
    BY <2>2 DEF Life, Staged, In
  <2>4. ASSUME NEW k \in Late(s)
        PROVE  k \in 1..Len(heard[s]) /\ Follows(s, Disconnection(s), heard[s][k])
    <3>1. PICK m \in 1..(k - 1) : heard[s][m].ev = "Disconnection"
      BY <2>4 DEF Late
    <3>2. k \in 1..Len(heard[s]) /\ m \in 1..Len(heard[s]) /\ m < k
      BY <2>2, <2>4, <3>1 DEF Late
    <3>3. heard[s][m] = Disconnection(s)
      BY <2>3, <3>1, <3>2, EventIs
    <3>4. QED
      BY <2>3, <3>2, <3>3, EventIs DEF Follows, Behind
  <2>5. PICK e \in Events : e = heard[s][i] /\ e = heard[s][j] /\ e.sock = s
    BY <2>1, <2>2, <2>3, <2>4 DEF Life, Ended
  <2>6. Follows(s, e, e)
    BY <2>1, <2>4, <2>5 DEF Follows, Behind
  <2>7. ~(e.n < e.n)
    BY <2>5, EventIs
  <2>8. QED
    BY <2>2, <2>5, <2>6, <2>7, EventIs DEF Life, Ordered
<1>2. QED
  BY <1>1, InvariantHolds, PTL

(* For every event in the queue of the server a byte is in the pipe, or    *)
(* will be as soon as the listen thread writes it: the main thread does    *)
(* not wait in the read for a byte nobody writes.                          *)
THEOREM PipeHolds == Spec => []PipeCoversQueue
<1> DEFINE P == PipeCoversQueue
<1>1. Init => P
  BY DEF Init, PipeCoversQueue
<1>2. ASSUME TypeOK, Placed, P, [Next]_vars
      PROVE  P'
  <2>0. /\ Len(queue) \in Nat /\ pipe \in Nat
        /\ Len(queue) <= pipe + (IF listening.sock # NoSock /\ ~listening.written THEN 1 ELSE 0)
    BY <1>2 DEF TypeOK, PipeCoversQueue
  <2>1. CASE UNCHANGED <<queue, pipe, listening>>
    BY <1>2, <2>1 DEF PipeCoversQueue
  <2>2. ASSUME NEW s \in Socks, Accept(s)
        PROVE  P'
    <3>1. /\ listening.sock = NoSock /\ listening'.sock = s /\ ~listening'.written
          /\ pipe' = pipe /\ Len(queue') = Len(queue) + 1
      BY <1>2, <2>2, EventIs, AppendProperties DEF Accept, TypeOK
    <3>2. QED
      BY <2>0, <3>1, SocksOK DEF PipeCoversQueue
  <2>3. CASE WriteByte
    <3>1. queue' = queue /\ pipe' = pipe + 1
      BY <2>3 DEF WriteByte, PutByte
    <3>2. Len(queue') <= pipe'
      BY <2>0, <3>1
    <3>3. pipe' \in Nat
      BY <2>0, <3>1
    <3>4. Len(queue') \in Nat
      BY <2>0, <3>1
    <3>5. QED
      BY <3>2, <3>3, <3>4 DEF PipeCoversQueue
  <2>4. ASSUME NEW t \in Tasks, Dispatch(t)
        PROVE  P'
    <3>1. listening.written /\ queue' = queue /\ pipe' = pipe
      BY <2>4 DEF Dispatch, mainVars
    <3>2. QED
      BY <2>0, <3>1 DEF PipeCoversQueue
  <2>5. ASSUME NEW t \in Tasks, TaskStep(t)
        PROVE  P'
    BY <2>1, <2>5 DEF TaskStep, NextTurn, Select, SkipForced, ReceivePart, ReceiveNothing,
                      PushMessage, mainVars
  <2>6. ASSUME NEW s \in Socks, RefillFrom(s)
        PROVE  P'
    <3>1. CASE fifo[s] = <<>>
      BY <2>1, <2>6, <3>1 DEF RefillFrom, threadVars
    <3>2. CASE fifo[s] # <<>>
      <4>1. fifo[s] \in Seq(Events) /\ queue \in Seq(Events) /\ Head(fifo[s]) \in Events
        BY <1>2, <3>2, HeadTailProperties DEF TypeOK
      <4>2. /\ listening' = listening /\ pipe' = pipe + 1
            /\ queue' = Append(queue, Head(fifo[s]))
        BY <2>6, <3>2 DEF RefillFrom, PutByte, threadVars
      <4>3. Len(queue') = Len(queue) + 1
        BY <4>1, <4>2, AppendProperties
      <4>4. QED
        BY <2>0, <4>2, <4>3 DEF PipeCoversQueue
    <3>3. QED
      BY <3>1, <3>2
  <2>7. ASSUME NEW ev, Front(ev), Pop, listening' = listening,
               pipe' = pipe \/ pipe' = pipe - 1
        PROVE  P'
    <3>1. Len(queue') = Len(queue) - 1
      BY <1>2, <2>7, FrontIs DEF Pop
    <3>2. QED
      BY <2>0, <2>7, <3>1 DEF PipeCoversQueue
  <2>8. CASE DropFront \/ ReceiveMessage \/ ReceiveConnection \/ ReceiveDisconnection
    BY <2>7, <2>8 DEF DropFront, ReceiveMessage, ReceiveConnection, ReceiveDisconnection,
                      ReadByte, threadVars
  <2>9. CASE DataAvailable \/ NothingAvailable \/ UpdateStep \/ ClientStep \/ UNCHANGED vars
    BY <2>1, <2>9 DEF DataAvailable, NothingAvailable, UpdateStep, UpdateOpen, UpdateClosed,
                      UpdateFails, UpdateTimeout, Advertise, Unchanged, ClientStep, Send, Close,
                      vars, threadVars, mainVars
  <2>10. QED
    BY <1>2, <2>2, <2>3, <2>4, <2>5, <2>6, <2>8, <2>9
       DEF Next, ListenStep, MainStep, DataStep
<1>3. IInv /\ P /\ [Next]_vars => P'
  BY <1>2 DEF IInv
<1>4. QED
  BY <1>1, <1>3, InvariantHolds, PTL DEF Spec

-----------------------------------------------------------------------------
(* The stream of each socket *)

Phase(s) == IF Tells(s, "Disconnection") THEN "closed"
            ELSE IF Tells(s, "Connection") THEN "open" ELSE "new"

(* A callback tells what the event it is called with says. *)
LEMMA TellsStep ==
  ASSUME TypeOK, NEW s \in Socks, NEW h, heard'[s] = Append(heard[s], h)
  PROVE  \A ev : Tells(s, ev)' <=> Tells(s, ev) \/ h.ev = ev
<1>1. heard[s] \in Seq(Events)
  BY DEF TypeOK
<1>2. /\ Len(heard[s]) \in Nat /\ DOMAIN heard[s] = 1..Len(heard[s])
      /\ DOMAIN heard'[s] = 1..(Len(heard[s]) + 1)
      /\ \A i \in 1..Len(heard[s]) : heard'[s][i] = heard[s][i]
      /\ heard'[s][Len(heard[s]) + 1] = h
  BY <1>1
<1>3. 1..(Len(heard[s]) + 1) = 1..Len(heard[s]) \cup {Len(heard[s]) + 1}
  BY <1>2
<1>4. QED
  BY <1>2, <1>3 DEF Tells

(* What the callbacks are called with, and when. *)
LEMMA HearSteps ==
  ASSUME TypeOK, Placed, \A s \in Socks : Life(s),
         NEW ev, Front(ev), Pop, Callback, UNCHANGED fifo,
         NEW h, h = Head(queue), NEW s, s = h.sock
  PROVE  /\ s \in Socks /\ ev \in {"User", "Connection", "Disconnection"}
         /\ heard' = [heard EXCEPT ![s] = Append(@, h)] /\ h.ev = ev
         /\ ev = "Connection" => Phase(s) = "new"
         /\ ev # "Connection" => Tells(s, "Connection")
         /\ cut[s] = "no" => ~Tells(s, "Disconnection")
         /\ ev = "Disconnection" => ~Tells(s, "Disconnection")
         /\ ev = "Disconnection" /\ cut[s] = "no" => Told(s) = sent[s]
         /\ ev = "User" => Told(s) < sent[s]
<1> DEFINE c == Connection(s)
           d == Disconnection(s)
<1>1. /\ h \in Events /\ h.ev = ev /\ s \in Socks /\ ev \in {"User", "Connection", "Disconnection"}
      /\ ev = "Connection" <=> h = c
      /\ ev = "Disconnection" <=> h = d
      /\ ev = "User" => h = User(s, h.n) /\ h.n \in Nat
      /\ c \in Events /\ c.sock = s /\ d \in Events /\ d.sock = s
      /\ c # d
  <2>1. h \in Events /\ h.ev = ev /\ s \in Socks
    BY FrontIs
  <2>2. QED
    BY <2>1, EventIs
<1>2. heard' = [heard EXCEPT ![s] = Append(@, h)]
  BY DEF Callback
<1>3. /\ \A a : In(a, queue) <=> a = h \/ In(a, queue)'
      /\ \A a : In(a, heard[s]) /\ a.sock = s => Follows(s, a, h)
      /\ \A a : (In(a, queue)' \/ In(a, fifo[s])) /\ a.sock = s => Follows(s, h, a)
  BY IsHeard
<1>4. /\ Tells(s, "Connection") <=> In(c, heard[s])
      /\ Tells(s, "Disconnection") <=> In(d, heard[s])
  BY <1>1, TellsIs
<1>5. Life(s)
  BY <1>1
<1>6. Has(s, h) /\ stage[s] # "none"
  <2>1. Has(s, h)
    BY <1>3 DEF Has
  <2>2. QED
    BY <1>1, <1>5, <2>1 DEF Life, Staged, New
<1> HIDE DEF c, d
<1>7. /\ \A a \in Events : ~Follows(s, a, c)
      /\ ~Follows(s, d, d)
      /\ cut[s] = "no" => \A b \in Events : ~Follows(s, d, b)
  BY <1>5 DEF Life, Ordered, Ended, c, d
<1>8. ev = "Connection" => Phase(s) = "new"
  BY <1>1, <1>3, <1>4, <1>7 DEF Phase
<1>9. ev # "Connection" => Tells(s, "Connection")
  <2>1. In(c, heard[s]) \/ In(c, queue)
    BY <1>5, <1>6 DEF Life, Staged, c
  <2>2. QED
    BY <1>1, <1>3, <1>4, <1>7, <2>1
<1>10. cut[s] = "no" => ~Tells(s, "Disconnection")
  BY <1>1, <1>3, <1>4, <1>7
<1>11. ev = "Disconnection" => ~Tells(s, "Disconnection")
  BY <1>1, <1>3, <1>4, <1>7
<1>12. /\ Told(s) \in Nat /\ got[s] \in Nat /\ sent[s] \in Nat
       /\ Told(s) <= got[s] /\ got[s] <= sent[s]
  BY <1>1, <1>5, ToldIs DEF TypeOK, Life, Counted, Ordered
<1>13. ASSUME ev = "Disconnection", cut[s] = "no"
       PROVE  Told(s) = sent[s]
  <2>1. h = d
    BY <1>1, <1>13
  <2>2. got[s] = sent[s] /\ ~BeingRead(s) /\ ~forced[s]
    <3>1. ~up[s] /\ ~forced[s]
      BY <1>5, <1>6, <1>13, <2>1 DEF Life, Ended, d
    <3>2. got[s] = sent[s] /\ \A t \in Tasks : s \notin rt[t].copy
      BY <1>5, <1>6, <1>13, <3>1 DEF Life, Ended
    <3>3. QED
      BY <1>1, <3>1, <3>2, SocksOK DEF BeingRead, Placed
  <2>3. stage[s] # "freed"
    BY <1>4, <1>5, <1>11, <1>13 DEF Life, Staged, d
  <2>4. \A m \in 1..got[s] : Has(s, User(s, m))
    BY <1>5, <2>2, <2>3 DEF Life, NothingLost
  <2>5. ASSUME NEW m \in 1..got[s]
        PROVE  m \in 1..Told(s)
    <3>1. User(s, m) \in Events /\ User(s, m).sock = s /\ User(s, m) # h /\ m \in Nat
      BY <1>1, <1>12, <2>1, EventIs DEF d
    <3>2. In(User(s, m), heard[s])
      BY <1>3, <1>7, <1>13, <2>1, <2>4, <3>1 DEF Has
    <3>3. QED
      BY <1>5, <2>2, <3>1, <3>2 DEF Life, Counted
  <2>6. got[s] = 0 \/ got[s] \in 1..got[s]
    BY <1>12
  <2>7. got[s] <= Told(s)
    BY <1>12, <2>5, <2>6
  <2>8. QED
    BY <1>12, <2>2, <2>7
<1>14. ev = "User" => Told(s) < sent[s]
  <2>1. \A n \in Nat : h = User(s, n) => Told(s) < n /\ n <= got[s]
    BY <1>3, <1>5, <1>6 DEF Life, Counted, Ordered
  <2>2. QED
    BY <1>1, <1>12, <2>1
<1>15. QED
  BY <1>1, <1>2, <1>8, <1>9, <1>10, <1>11, <1>13, <1>14

(* Only clients send. *)
LEMMA SentIs ==
  ASSUME [Next]_vars
  PROVE  sent' = sent \/ \E s \in Socks : Send(s)
<1>1. CASE UNCHANGED vars
  BY <1>1 DEF vars, sockVars
<1>2. CASE ClientStep \/ ListenStep
  BY <1>2 DEF ClientStep, Close, ListenStep, WriteByte, Accept, Dispatch, sockVars
<1>3. ASSUME NEW t \in Tasks, TaskStep(t)
      PROVE  sent' = sent
  BY <1>3 DEF TaskStep, NextTurn, Select, SkipForced, ReceivePart, ReceiveNothing, PushMessage,
              sockVars
<1>4. CASE DataStep
  BY <1>4 DEF DataStep, DataAvailable, RefillFrom, DropFront, ReceiveMessage, ReceiveConnection,
              ReceiveDisconnection, NothingAvailable, sockVars
<1>5. CASE UpdateStep
  BY <1>5 DEF UpdateStep, UpdateOpen, UpdateClosed, UpdateFails, UpdateTimeout, Unchanged
<1>6. QED
  BY <1>1, <1>2, <1>3, <1>4, <1>5 DEF Next, MainStep

(* A step of the threads is a step of the stream, or none of it. *)
LEMMA StreamStep ==
  ASSUME IInv, [Next]_vars
  PROVE  Stream!Next
<1> DEFINE phase == [s \in Socks |-> Phase(s)]
           told  == [s \in Socks |-> Told(s)]
           ended == [s \in Socks |-> cut[s] # "no"]
<1>1. TypeOK /\ Placed /\ \A s \in Socks : Life(s)
  BY DEF IInv
<1>2. /\ \A s \in Socks : ended[s] => ended'[s]
      /\ ended' \in [Socks -> BOOLEAN]
  BY <1>1, HeardGrows
<1>3. CASE heard' = heard /\ \E s \in Socks : Send(s)
  <2>1. PICK s \in Socks : Send(s)
    BY <1>3
  <2>2. phase' = phase /\ told' = told
    BY <1>3 DEF Phase, Told, Tells
  <2>3. ended' = ended /\ sent' = [sent EXCEPT ![s] = @ + 1]
    BY <2>1 DEF Send
  <2>4. Stream!Say(s)
    BY <2>2, <2>3 DEF Stream!Say, Phase
  <2>5. QED
    BY <2>4 DEF Stream!Next
<1>4. CASE heard' = heard /\ sent' = sent
  <2>1. phase' = phase /\ told' = told
    BY <1>4 DEF Phase, Told, Tells
  <2>2. Stream!Cut /\ Stream!Cuts
    BY <1>2, <1>4, <2>1 DEF Stream!Cut, Stream!Cuts, Phase
  <2>3. QED
    BY <2>2 DEF Stream!Next
<1>5. ASSUME NEW ev, Front(ev), Pop, Callback, UNCHANGED <<sent, fifo>>
      PROVE  Stream!Next
  <2>1. PICK h, s : h = Head(queue) /\ s = h.sock
    OBVIOUS
  <2>2. /\ s \in Socks /\ ev \in {"User", "Connection", "Disconnection"}
        /\ heard' = [heard EXCEPT ![s] = Append(@, h)] /\ h.ev = ev
        /\ ev = "Connection" => Phase(s) = "new"
        /\ ev # "Connection" => Tells(s, "Connection")
        /\ cut[s] = "no" => ~Tells(s, "Disconnection")
        /\ ev = "Disconnection" => ~Tells(s, "Disconnection")
        /\ ev = "Disconnection" /\ cut[s] = "no" => Told(s) = sent[s]
        /\ ev = "User" => Told(s) < sent[s]
    BY <1>1, <1>5, <2>1, HearSteps
  <2>3. heard'[s] = Append(heard[s], h) /\ \A x \in Socks : x # s => heard'[x] = heard[x]
    BY <1>1, <2>2 DEF TypeOK
  <2>4. /\ \A e : Tells(s, e)' <=> Tells(s, e) \/ ev = e
        /\ Told(s)' = IF ev = "User" THEN Told(s) + 1 ELSE Told(s)
    BY <1>1, <2>2, <2>3, TellsStep, ToldStep
  <2>5. \A x \in Socks : x # s => Phase(x)' = Phase(x) /\ Told(x)' = Told(x)
    BY <2>3 DEF Phase, Told, Tells
  <2>6. CASE ev = "Connection"
    <3>1. Phase(s)' = "open" /\ ~Tells(s, "Disconnection")
      BY <2>2, <2>4, <2>6 DEF Phase
    <3>2. phase[s] = "new" /\ phase' = [phase EXCEPT ![s] = "open"] /\ told' = told
      BY <2>2, <2>4, <2>5, <2>6, <3>1
    <3>3. Stream!Connect(s) /\ Stream!Cuts
      BY <1>2, <1>5, <3>2 DEF Stream!Connect, Stream!Cuts, Phase
    <3>4. QED
      BY <2>2, <3>3 DEF Stream!Next
  <2>7. CASE ev = "User"
    <3>1. Phase(s)' = Phase(s) /\ (Phase(s) = "open" \/ (Phase(s) = "closed" /\ cut[s] # "no"))
      BY <2>2, <2>4, <2>7 DEF Phase
    <3>2. /\ phase[s] = "open" \/ (phase[s] = "closed" /\ ended[s])
          /\ phase' = phase /\ told[s] < sent[s]
          /\ told' = [told EXCEPT ![s] = @ + 1]
      BY <2>2, <2>4, <2>5, <2>7, <3>1
    <3>3. Stream!Hear(s) /\ Stream!Cuts
      BY <1>2, <1>5, <3>2 DEF Stream!Hear, Stream!Cuts, Phase
    <3>4. QED
      BY <2>2, <3>3 DEF Stream!Next
  <2>8. CASE ev = "Disconnection"
    <3>1. Phase(s) = "open" /\ Phase(s)' = "closed"
      BY <2>2, <2>4, <2>8 DEF Phase
    <3>2. /\ phase[s] = "open" /\ (ended[s] \/ told[s] = sent[s])
          /\ phase' = [phase EXCEPT ![s] = "closed"] /\ told' = told
      BY <2>2, <2>4, <2>5, <2>8, <3>1
    <3>3. Stream!Disconnect(s) /\ Stream!Cuts
      BY <1>2, <1>5, <3>2 DEF Stream!Disconnect, Stream!Cuts, Phase
    <3>4. QED
      BY <2>2, <3>3 DEF Stream!Next
  <2>9. QED
    BY <2>2, <2>6, <2>7, <2>8
<1>6. QED
  BY <1>1, <1>3, <1>4, <1>5, HeardGrows, SentIs

(* The receiving side of a server implements the stream of SocketStream:   *)
(* one connection, the messages in order, one disconnection, and none of   *)
(* the messages left out unless the server ended the connection.           *)
THEOREM StreamHolds == Spec => StreamKept
<1>1. Init => Stream!Init
  <2>1. ASSUME Init, NEW s \in Socks
        PROVE  Told(s) = 0 /\ Phase(s) = "new" /\ cut[s] = "no"
    <3>1. {i \in DOMAIN heard[s] : heard[s][i].ev = "User"} = {}
      BY <2>1 DEF Init
    <3>2. QED
      BY <2>1, <3>1, FS_EmptySet DEF Init, Told, Phase, Tells
  <2>2. QED
    BY <2>1 DEF Init, Stream!Init, Phase
<1>2. IInv /\ [Next]_vars => Stream!Next
  BY StreamStep
<1>3. QED
  BY <1>1, <1>2, InvariantHolds, PTL DEF Spec, StreamKept, Stream!Spec
=============================================================================
