---------------------------- MODULE ReceiveQueue ----------------------------
(***************************************************************************)
(* CBufServer: the receiving side of a server of the network library.      *)
(*                                                                         *)
(* A listen thread accepts sockets, receive threads read messages into the *)
(* queue of each socket, and the main thread moves them one per socket and *)
(* pass into the queue of the server, whose events it hands to callbacks.  *)
(* The Unix build is modelled: a pipe that carries one byte per message of *)
(* the server's queue, and one wake-up pipe per receive thread.            *)
(***************************************************************************)
EXTENDS Naturals, Sequences, FiniteSets

CONSTANTS
  Socks,       \* the connections clients open (a CServerBufSock each)
  NoSock,      \* no socket
  Tasks,       \* the receive threads there can be (_MaxThreads of them)
  MaxSent,     \* bound: the messages each client sends
  FifoSize,    \* the messages a socket's queue has room for
  PipeSize,    \* the bytes the data-available pipe has room for
  Closable     \* the sockets that handlers disconnect and force-close

ASSUME SocksOK == NoSock \notin Socks /\ IsFiniteSet(Socks)
ASSUME TasksOK == Tasks # {} /\ IsFiniteSet(Tasks)
ASSUME SizesOK == MaxSent \in [Socks -> Nat] /\ FifoSize \in Nat /\ PipeSize \in Nat
ASSUME ClosableOK == Closable \subseteq Socks

VARIABLES
  stage,       \* how far a socket has got: none, accepted, pooled, freed
  sent, got,   \* messages sent by the client, and read off the socket
  fin,         \* the client has closed its side
  up,          \* Sock->connected()
  forced,      \* Sock->forceClosed()
  known,       \* _KnowConnected
  fifo,        \* _RecvFifo of a CServerBufSock
  listening,   \* listen thread: the socket it accepts, whether it wrote its byte
  pool,        \* _ThreadPool
  conns,       \* _Connections of a receive task
  rt,          \* receive threads: where they are in run()
  removeSet,   \* _RemoveSet of a receive task
  wake,        \* bytes in the wake-up pipe of a receive task
  queue,       \* _RecvFifo of the server; _DataAvailable: it is not empty
  pipe,        \* bytes in the data-available pipe
  main,        \* main thread: where it is in update()
  todo,        \* sockets the main thread's pass over the pool has yet to visit
  clients,     \* _ConnectedClients
  heard,       \* what the callbacks were called with, per socket
  cut          \* how the server ended a connection: no, server, flush

sockVars   == <<stage, sent, got, fin, up, forced, known, fifo>>
threadVars == <<listening, pool, conns, rt, removeSet, wake>>
mainVars   == <<queue, pipe, main, todo, clients>>
vars == <<sockVars, threadVars, mainVars, heard, cut>>

(* An event of a queue: TEventType, its socket and the number of a message. *)
User(s, n)       == [ev |-> "User", sock |-> s, n |-> n]
Connection(s)    == [ev |-> "Connection", sock |-> s, n |-> 0]
Disconnection(s) == [ev |-> "Disconnection", sock |-> s, n |-> 0]
Events == [ev : {"User"}, sock : Socks, n : Nat]
          \cup [ev : {"Connection", "Disconnection"}, sock : Socks, n : {0}]

(* The sockets of the whole pool. *)
Pooled == UNION {conns[t] : t \in Tasks}

(* A thread that has done everything of one turn of its loop. *)
Idle == [at |-> "read", copy |-> {}, msg |-> NoSock, skip |-> TRUE, woken |-> FALSE]

Init ==
  /\ stage = [s \in Socks |-> "none"]
  /\ sent = [s \in Socks |-> 0] /\ got = [s \in Socks |-> 0]
  /\ fin = [s \in Socks |-> FALSE] /\ up = [s \in Socks |-> FALSE]
  /\ forced = [s \in Socks |-> FALSE] /\ known = [s \in Socks |-> FALSE]
  /\ fifo = [s \in Socks |-> <<>>]
  /\ listening = [sock |-> NoSock, written |-> FALSE]
  /\ pool = {} /\ conns = [t \in Tasks |-> {}]
  /\ rt = [t \in Tasks |-> Idle]
  /\ removeSet = [t \in Tasks |-> {}] /\ wake = [t \in Tasks |-> 0]
  /\ queue = <<>> /\ pipe = 0 /\ main = "update" /\ todo = {} /\ clients = {}
  /\ heard = [s \in Socks |-> <<>>]
  /\ cut = [s \in Socks |-> "no"]
-----------------------------------------------------------------------------
(* The clients. *)
Send(s) == /\ up[s] /\ ~fin[s] /\ sent[s] < MaxSent[s]
           /\ sent' = [sent EXCEPT ![s] = @ + 1]
           /\ UNCHANGED <<stage, got, fin, up, forced, known, fifo,
                          threadVars, mainVars, heard, cut>>
Close(s) == /\ up[s] /\ ~fin[s]
            /\ fin' = [fin EXCEPT ![s] = TRUE]
            /\ UNCHANGED <<stage, sent, got, up, forced, known, fifo,
                           threadVars, mainVars, heard, cut>>
-----------------------------------------------------------------------------
(* A byte is written to the pipe for every event; a full pipe blocks. *)
PutNoByte == UNCHANGED pipe
PutByte   == pipe < PipeSize /\ pipe' = pipe + 1
(* CServerTask::wakeUp *)
NoWakeUp(t) == UNCHANGED wake
WakeUp(t)   == wake' = [wake EXCEPT ![t] = @ + 1]

(* The listen thread.  The Connection event goes straight into the queue   *)
(* of the server; its byte is written after the queue is unlocked.         *)
Accept(s) ==
  /\ listening.sock = NoSock /\ stage[s] = "none"
  /\ listening' = [sock |-> s, written |-> FALSE]
  /\ stage' = [stage EXCEPT ![s] = "accepted"]
  /\ up' = [up EXCEPT ![s] = TRUE]
  /\ queue' = Append(queue, Connection(s))
  /\ UNCHANGED <<sent, got, fin, forced, known, fifo, pool, conns, rt, removeSet,
                 wake, pipe, main, todo, clients, heard, cut>>
WriteByte ==
  /\ listening.sock # NoSock /\ ~listening.written
  /\ listening' = [listening EXCEPT !.written = TRUE]
  /\ PutByte
  /\ UNCHANGED <<sockVars, pool, conns, rt, removeSet, wake, queue, main, todo,
                 clients, heard, cut>>

(* SpreadSockets: the task with the fewest connections, or a new one when  *)
(* they have equally many and there is room for another thread.            *)
Fewest(t) == t \in pool /\ \A x \in pool : Cardinality(conns[t]) <= Cardinality(conns[x])
Even      == \A x, y \in pool : Cardinality(conns[x]) = Cardinality(conns[y])
TaskForNew(t) == IF Even /\ pool # Tasks THEN t \notin pool ELSE Fewest(t)

(* The pool is locked while the main thread walks through it. *)
Dispatch(t) ==
  LET s == listening.sock IN
  /\ listening.written /\ todo = {} /\ TaskForNew(t)
  /\ known' = [known EXCEPT ![s] = TRUE]
  /\ stage' = [stage EXCEPT ![s] = "pooled"]
  /\ conns' = [conns EXCEPT ![t] = @ \cup {s}]
  /\ pool' = pool \cup {t}
  /\ IF t \in pool THEN WakeUp(t) ELSE UNCHANGED wake
  /\ listening' = [sock |-> NoSock, written |-> FALSE]
  /\ UNCHANGED <<sent, got, fin, up, forced, fifo, rt, removeSet, mainVars, heard, cut>>
-----------------------------------------------------------------------------
(* A receive thread.  It and the main thread lock the connections of a     *)
(* task while they walk through them: `todo` holds some of them, not all,  *)
(* while the main thread is among them.                                    *)
Unlocked(t) == todo \cap conns[t] \in {{}, conns[t]}
At(t, at)   == t \in pool /\ rt[t].at = at

(* Disconnected sockets that are not deleted yet are not selected. *)
SelectableAny(s) == TRUE
Selectable(s)    == up[s] /\ ~forced[s]

(* A turn of the loop: the end of the last one, which reads the byte it was *)
(* woken up with, clearClosedConnections, which deletes the sockets of the *)
(* remove set, and the copy of the connections to select from.             *)
NextTurn(t) ==
  LET kept == conns[t] \ removeSet[t] IN
  /\ At(t, "read") /\ rt[t].copy = {} /\ rt[t].msg = NoSock /\ Unlocked(t)
  /\ wake' = IF rt[t].woken /\ ~rt[t].skip THEN [wake EXCEPT ![t] = @ - 1] ELSE wake
  /\ conns' = [conns EXCEPT ![t] = kept]
  /\ stage' = [s \in Socks |-> IF s \in removeSet[t] THEN "freed" ELSE stage[s]]
  /\ fifo' = [s \in Socks |-> IF s \in removeSet[t] THEN <<>> ELSE fifo[s]]
  /\ todo' = todo \ removeSet[t]
  /\ removeSet' = [removeSet EXCEPT ![t] = {}]
  /\ rt' = [rt EXCEPT ![t].at = "select", ![t].skip = (kept = {}),
                      ![t].copy = {s \in kept : Selectable(s)}]
  /\ UNCHANGED <<sent, got, fin, up, forced, known, listening, pool,
                 queue, pipe, main, clients, heard, cut>>

(* select() returns when a socket has a message or has been closed, or     *)
(* when the thread is woken up.                                            *)
Readable(s) == got[s] < sent[s] \/ fin[s] \/ ~up[s]
Select(t) ==
  LET ready == {s \in rt[t].copy : Readable(s)} IN
  /\ At(t, "select") /\ (ready # {} \/ wake[t] > 0)
  /\ rt' = [rt EXCEPT ![t].at = "read", ![t].copy = ready, ![t].woken = (wake[t] > 0)]
  /\ UNCHANGED <<sockVars, listening, pool, conns, removeSet, wake, mainVars, heard, cut>>

Done(t, s) == rt' = [rt EXCEPT ![t].copy = @ \ {s}, ![t].msg = NoSock]
Reads(t, s) == At(t, "read") /\ rt[t].msg = NoSock /\ s \in rt[t].copy
SkipForced(t, s) ==
  /\ Reads(t, s) /\ forced[s]
  /\ Done(t, s)
  /\ UNCHANGED <<sockVars, listening, pool, conns, removeSet, wake, mainVars, heard, cut>>
(* receivePart: a whole message is in the receive buffer of the socket, ... *)
ReceivePart(t, s) ==
  /\ Reads(t, s) /\ ~forced[s] /\ got[s] < sent[s]
  /\ got' = [got EXCEPT ![s] = @ + 1]
  /\ rt' = [rt EXCEPT ![t].msg = s]
  /\ UNCHANGED <<stage, sent, fin, up, forced, known, fifo, listening, pool, conns,
                 removeSet, wake, mainVars, heard, cut>>
NothingLeftOrFin(s) == got[s] = sent[s] \/ fin[s]
NothingLeft(s)      == got[s] = sent[s]
(* ... or the client has closed, or the server has shut the socket down. *)
ReceiveNothing(t, s) ==
  /\ Reads(t, s) /\ ~forced[s] /\ NothingLeft(s)
  /\ up' = [up EXCEPT ![s] = FALSE]
  /\ Done(t, s)
  /\ UNCHANGED <<stage, sent, got, fin, forced, known, fifo, listening, pool, conns,
                 removeSet, wake, mainVars, heard, cut>>
(* pushMessageIntoReceiveQueue: a socket whose queue is full is closed. *)
OverflowDrops(s) == UNCHANGED <<up, forced, cut>>
Overflow(s) == /\ up' = [up EXCEPT ![s] = FALSE]
               /\ forced' = [forced EXCEPT ![s] = TRUE]
               /\ cut' = [cut EXCEPT ![s] = IF @ = "no" THEN "server" ELSE @]
PushMessage(t) ==
  LET s == rt[t].msg IN
  /\ At(t, "read") /\ s # NoSock
  /\ IF Len(fifo[s]) < FifoSize
     THEN /\ fifo' = [fifo EXCEPT ![s] = Append(@, User(s, got[s]))]
          /\ UNCHANGED <<up, forced, cut>>
     ELSE Overflow(s) /\ UNCHANGED fifo
  /\ Done(t, s)
  /\ UNCHANGED <<stage, sent, got, fin, known, listening, pool, conns, removeSet,
                 wake, mainVars, heard>>
-----------------------------------------------------------------------------
(* The main thread: dataAvailable, receive and a handler, again and again, *)
(* then CBufServer::update.                                                *)
(* A pass visits every socket of every task. *)
FirstOnly == IF Pooled = {} THEN {} ELSE {CHOOSE s \in Pooled : TRUE}
Visited   == Pooled

DataAvailable ==
  /\ main = "update" /\ todo = {}
  /\ main' = "receive"
  /\ todo' = IF queue = <<>> THEN Visited ELSE {}
  /\ UNCHANGED <<sockVars, threadVars, queue, pipe, clients, heard, cut>>

(* RefillFromClientBuffer: one message of every socket.  A full pipe makes *)
(* the main thread wait, with the queue and the connections locked.        *)
RefillFrom(s) ==
  /\ main = "receive" /\ s \in todo
  /\ todo' = todo \ {s}
  /\ IF fifo[s] = <<>>
     THEN UNCHANGED <<fifo, queue, pipe>>
     ELSE /\ PutByte
          /\ queue' = Append(queue, Head(fifo[s]))
          /\ fifo' = [fifo EXCEPT ![s] = Tail(@)]
  /\ UNCHANGED <<stage, sent, got, fin, up, forced, known, threadVars, main,
                 clients, heard, cut>>
Front(ev) == main = "receive" /\ todo = {} /\ queue # <<>> /\ Head(queue).ev = ev
Pop       == queue' = Tail(queue)
ReadUnasked == pipe' = pipe - 1
ReadByte  == pipe > 0 /\ pipe' = pipe - 1
Callback == LET e == Head(queue) IN heard' = [heard EXCEPT ![e.sock] = Append(@, e)]
(* disconnect and forceClose: nothing happens to a socket that is not of a *)
(* connected client.                                                       *)
CloseSock(s, hard) ==
  /\ up' = [up EXCEPT ![s] = FALSE]
  /\ forced' = [forced EXCEPT ![s] = @ \/ hard]
  /\ cut' = [cut EXCEPT ![s] = IF @ = "no" THEN "server" ELSE @]
Handler(whom) ==
  \/ UNCHANGED <<up, forced, cut>>
  \/ \E s \in whom \cap Closable, hard \in BOOLEAN : up[s] /\ CloseSock(s, hard)

(* forceClosed() of a socket that is deleted reads freed memory: whatever  *)
(* it returns.  The byte of a message that is dropped stays in the pipe.   *)
DropFront ==
  LET s == Head(queue).sock IN
  /\ Front("User") /\ (forced[s] \/ stage[s] = "freed")
  /\ Pop
  /\ UNCHANGED <<sockVars, threadVars, pipe, main, todo, clients, heard, cut>>
(* After a message dataAvailable is called again, or the update loop has   *)
(* run out of its time.                                                    *)
ReceiveMessage ==
  LET s == Head(queue).sock IN
  /\ Front("User") /\ (~forced[s] \/ stage[s] = "freed")
  /\ ReadByte /\ Pop /\ Callback
  /\ Handler(clients)
  /\ main' = "update" /\ todo' \in {{}, Visited}
  /\ UNCHANGED <<stage, sent, got, fin, known, fifo, threadVars, clients>>
ReceiveConnection ==
  LET s == Head(queue).sock IN
  /\ Front("Connection")
  /\ ReadByte /\ Pop /\ Callback
  /\ clients' = clients \cup {s}
  /\ Handler(clients')
  /\ UNCHANGED <<stage, sent, got, fin, known, fifo, threadVars, main, todo>>
Everyone(s)  == clients
Remaining(s) == clients \ {s}
ReceiveDisconnection ==
  LET s == Head(queue).sock IN
  /\ Front("Disconnection")
  /\ ReadByte /\ Pop /\ Callback
  /\ Handler(clients)
  /\ clients' = Remaining(s)
  /\ \E t \in Tasks : /\ s \in conns[t]
                      /\ removeSet' = [removeSet EXCEPT ![t] = @ \cup {s}]
                      /\ WakeUp(t)
  /\ UNCHANGED <<stage, sent, got, fin, known, fifo, listening, pool, conns, rt,
                 main, todo>>
NothingAvailable ==
  /\ main = "receive" /\ todo = {} /\ queue = <<>>
  /\ main' = "update" /\ todo' = Visited
  /\ UNCHANGED <<sockVars, threadVars, queue, pipe, clients, heard, cut>>

(* advertiseDisconnection: once, behind the messages of the socket. *)
AdvertiseToServer(s) ==
  IF known[s] THEN /\ queue' = Append(queue, Disconnection(s)) /\ PutByte
                   /\ known' = [known EXCEPT ![s] = FALSE]
                   /\ UNCHANGED fifo
              ELSE UNCHANGED <<fifo, known, queue, pipe>>
Advertise(s) ==
  /\ IF known[s] THEN /\ fifo' = [fifo EXCEPT ![s] = Append(@, Disconnection(s))]
                      /\ known' = [known EXCEPT ![s] = FALSE]
                 ELSE UNCHANGED <<fifo, known>>
  /\ UNCHANGED <<queue, pipe>>
Updates(s) == main = "update" /\ s \in todo /\ todo' = todo \ {s}
Unchanged  == UNCHANGED <<stage, sent, got, fin, threadVars, main, clients, heard>>
UpdateOpen(s)   == /\ Updates(s) /\ up[s]
                   /\ UNCHANGED <<up, forced, known, fifo, queue, pipe, cut>> /\ Unchanged
UpdateClosed(s) == /\ Updates(s) /\ ~up[s]
                   /\ Advertise(s)
                   /\ UNCHANGED <<up, forced, cut>> /\ Unchanged
(* CBufSock::update: what is to be sent finds the client gone; or a client *)
(* that has not authorised itself in time is force-closed.                 *)
UpdateFails(s)  == /\ Updates(s) /\ up[s] /\ fin[s]
                   /\ Advertise(s)
                   /\ cut' = [cut EXCEPT ![s] = IF @ = "no" THEN "flush" ELSE @]
                   /\ UNCHANGED <<up, forced>> /\ Unchanged
UpdateTimeout(s) == /\ Updates(s) /\ up[s] /\ s \in Closable
                    /\ CloseSock(s, TRUE)
                    /\ UNCHANGED <<known, fifo, queue, pipe>> /\ Unchanged
-----------------------------------------------------------------------------
ClientStep == \E s \in Socks : Send(s) \/ Close(s)
ListenStep == WriteByte \/ (\E s \in Socks : Accept(s)) \/ (\E t \in Tasks : Dispatch(t))
TaskStep(t) ==
  \/ NextTurn(t) \/ Select(t) \/ PushMessage(t)
  \/ \E s \in Socks : SkipForced(t, s) \/ ReceivePart(t, s) \/ ReceiveNothing(t, s)
DataStep == \/ DataAvailable \/ (\E s \in Socks : RefillFrom(s))
            \/ DropFront \/ ReceiveMessage \/ ReceiveConnection
            \/ ReceiveDisconnection \/ NothingAvailable
UpdateStep == \E s \in Socks : \/ UpdateOpen(s) \/ UpdateClosed(s)
                               \/ UpdateFails(s) \/ UpdateTimeout(s)
MainStep == DataStep \/ UpdateStep

Next == ClientStep \/ ListenStep \/ MainStep \/ \E t \in Tasks : TaskStep(t)
Spec == Init /\ [][Next]_vars

(* Every thread keeps running and gets a mutex that is free again and      *)
(* again; clients do as they like.                                         *)
FairSpec == /\ Spec /\ SF_vars(ListenStep) /\ WF_vars(MainStep)
            /\ \A t \in Tasks : SF_vars(TaskStep(t))
-----------------------------------------------------------------------------
Tells(s, ev) == \E i \in DOMAIN heard[s] : heard[s][i].ev = ev
Told(s)      == Cardinality({i \in DOMAIN heard[s] : heard[s][i].ev = "User"})

TypeOK ==
  /\ stage \in [Socks -> {"none", "accepted", "pooled", "freed"}]
  /\ sent \in [Socks -> Nat] /\ got \in [Socks -> Nat]
  /\ fin \in [Socks -> BOOLEAN] /\ up \in [Socks -> BOOLEAN]
  /\ forced \in [Socks -> BOOLEAN] /\ known \in [Socks -> BOOLEAN]
  /\ fifo \in [Socks -> Seq(Events)]
  /\ listening \in [sock : Socks \cup {NoSock}, written : BOOLEAN]
  /\ pool \in SUBSET Tasks /\ conns \in [Tasks -> SUBSET Socks]
  /\ rt \in [Tasks -> [at : {"select", "read"}, copy : SUBSET Socks,
                       msg : Socks \cup {NoSock}, skip : BOOLEAN, woken : BOOLEAN]]
  /\ removeSet \in [Tasks -> SUBSET Socks] /\ wake \in [Tasks -> Nat]
  /\ queue \in Seq(Events) /\ pipe \in Nat
  /\ main \in {"receive", "update"}
  /\ todo \in SUBSET Socks /\ clients \in SUBSET Socks
  /\ heard \in [Socks -> Seq(Events)] /\ cut \in [Socks -> {"no", "server", "flush"}]

(* A deleted socket is out of every thread's reach: the receive thread     *)
(* does not read it, the main thread does not visit, send to or close it.  *)
FreedIsForgotten ==
  \A s \in Socks : stage[s] = "freed" =>
    /\ s \notin clients \cup todo
    /\ \A t \in Tasks : s \notin conns[t] \cup removeSet[t] \cup rt[t].copy

(* The messages of a socket reach their handler in the order in which they *)
(* were sent and none twice; none is skipped unless it is force-closed.    *)
HeardInOrder ==
  \A s \in Socks : \A i \in DOMAIN heard[s] :
    LET e == heard[s][i]
    IN  e.ev = "User" =>
          /\ \A j \in 1..(i - 1) : heard[s][j].ev = "User" => heard[s][j].n < e.n
          /\ ~forced[s] => \A m \in 1..(e.n - 1) :
                             \E j \in 1..(i - 1) : heard[s][j] = User(s, m)

(* As long as the server does not end a connection, its Disconnection is   *)
(* the last thing in the queues, so no event refers to a deleted socket.   *)
NothingBehindDisconnection ==
  \A s \in Socks : cut[s] = "no" =>
    /\ \A i \in DOMAIN queue : queue[i] = Disconnection(s) =>
         fifo[s] = <<>> /\ \A j \in (i + 1)..Len(queue) : queue[j].sock # s
    /\ \A i \in DOMAIN fifo[s] : fifo[s][i].ev = "Disconnection" => i = Len(fifo[s])
    /\ Tells(s, "Disconnection") =>
         fifo[s] = <<>> /\ \A i \in DOMAIN queue : queue[i].sock # s

(* A connection the server closes may have one message handled after its   *)
(* disconnection, the one its receive thread was reading, and no second.   *)
Late(s) == {i \in DOMAIN heard[s] :
              \E j \in 1..(i - 1) : heard[s][j].ev = "Disconnection"}
AtMostOneLate == \A s \in Socks : cut[s] = "server" => \A i, j \in Late(s) : i = j

(* The main thread reads a byte for an event it finds in the queue, and    *)
(* would wait for ever in that read if there were fewer bytes than events. *)
PipeCoversQueue ==
  Len(queue) <= pipe + (IF listening.sock # NoSock /\ ~listening.written THEN 1 ELSE 0)

(* What SocketStream promises of every socket. *)
Stream == INSTANCE SocketStream WITH
  phase <- [s \in Socks |-> IF Tells(s, "Disconnection") THEN "closed"
                            ELSE IF Tells(s, "Connection") THEN "open" ELSE "new"],
  told  <- [s \in Socks |-> Told(s)],
  cut   <- [s \in Socks |-> cut[s] # "no"]
StreamKept == Stream!Spec

(* Every message is handled in the end unless the server ends the          *)
(* connection: no client is starved by the others.                         *)
SentIsHandled ==
  \A s \in Socks : \A n \in 1..MaxSent[s] : sent[s] = n ~> Told(s) >= n \/ cut[s] # "no"

(* A socket that is closed by either side is deleted in the end: neither   *)
(* its Disconnection nor the wake-up of its receive thread gets lost.      *)
ClosedIsFreed == \A s \in Socks : fin[s] \/ forced[s] ~> stage[s] = "freed"
=============================================================================
