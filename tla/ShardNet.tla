------------------------------ MODULE ShardNet ------------------------------
(***************************************************************************)
(* The processes of the shard family and the links between them.           *)
(*                                                                         *)
(* One login service (LS), one start-service slave (SS), one welcome       *)
(* service per shard (named by its shard), several front ends per shard.   *)
(* CUnifiedNetwork keeps one TCP connection per pair of services, so a     *)
(* link is a FIFO sequence of messages.                                    *)
(***************************************************************************)
EXTENDS Naturals, Sequences

CONSTANTS
  Users,        \* user ids (UID); every user owns a family
  Shards,       \* shards; a shard also names its welcome service
  Fess,         \* front-end services
  LS, SS,       \* the login service and the start-service slave
  NoShard,      \* "shard id 0" / map::end()
  NoFes,        \* "service id 0" / map::end()
  ShardOf,      \* the shard each front end belongs to
  MainShard,    \* the shard a family was created on (top byte of the FID)
  ClientsWait,  \* whether a client waits for what it is owed: it asks for one
                \* shard at a time and stays connected until it has entered
  MaxDbFaults   \* bound: how many database queries fail in a behaviour

Nodes == {LS, SS} \cup Shards \cup Fess

ASSUME NodesDistinct ==
  /\ LS # SS
  /\ {LS, SS} \cap (Shards \cup Fess) = {}
  /\ Shards \cap Fess = {}
ASSUME NullsDistinct == NoShard \notin Shards /\ NoFes \notin Fess
ASSUME SomeUser == Users # {}
ASSUME PlacesOK ==
  /\ ShardOf \in [Fess -> Shards]
  /\ MainShard \in [Users -> Shards]
ASSUME BehavioursOK == ClientsWait \in BOOLEAN /\ MaxDbFaults \in Nat

(***************************************************************************)
(* CLoginCookie: `key` stands for the random UserKey (unique per cookie),  *)
(* `sock` for UserAddr, the socket of the SS login that asked for it.      *)
(***************************************************************************)
Cookie   == [key : Nat, sock : Nat]
NoCookie == [key |-> 0, sock |-> 0]

ShardOrNone == Shards \cup {NoShard}
FesOrNone   == Fess \cup {NoFes}

(* Message kinds of the session protocol, by their names in Packet.h. *)
Kinds == { "M_SC_SHARDS", "M_ENTER_SHARD_REQUEST", "M_ENTER_SHARD_ANSWER",
           "M_CLIENT_DISCONNECT", "M_CLIENT_CONNECT_STATUS", "M_SC_FAIL",
           "M_NT_REQ_FORCE_LOGOFF", "M_LS_RELOGOFF", "M_LOGIN_SERVER_RPC",
           "M_ENTER__SHARD", "M_CS_CHANGE_SHARD_REQ", "M_SC_CHANGE_SHARD_ANS",
           "M_NT_MOVE_USER_DATA_REQ", "M_NT_SEND_USER_DATA",
           "M_NT_MOVE_USER_DATA_END" }

(* One record shape for every message. s: a shard; f: the front end whose  *)
(* address is offered; fsSid: the front end the client is on; v: con, an   *)
(* error code (0: ERR_NOERR), a socket, a generation or a data version.    *)
(* An answer without an error offers an address.                           *)
Answers == {"M_ENTER_SHARD_ANSWER", "M_SC_CHANGE_SHARD_ANS"}
Message ==
  {m \in [kind : Kinds, u : Users, ck : Cookie, s : ShardOrNone,
          f : FesOrNone, fsSid : FesOrNone, v : Nat] :
     m.kind \in Answers /\ m.v = 0 => m.f # NoFes}

Msg(kind, u) == [kind |-> kind, u |-> u, ck |-> NoCookie, s |-> NoShard,
                 f |-> NoFes, fsSid |-> NoFes, v |-> 0]

Links == {<<SS, LS>>, <<LS, SS>>}
         \cup {<<LS, s>> : s \in Shards} \cup {<<s, LS>> : s \in Shards}
         \cup {l \in Shards \X Shards : l[1] # l[2]}
         \cup {<<ShardOf[f], f>> : f \in Fess} \cup {<<f, ShardOf[f]>> : f \in Fess}

VARIABLES
  net,          \* the messages in flight on every link
  dbFaults,     \* database queries that have failed so far
  dbOnline,     \* main database: the shard a user is recorded online on
  dbCur         \* main database: the shard that holds a user's data

netVars == <<net, dbFaults>>
dbVars  == <<dbOnline, dbCur>>

(* What one handler sends: a sequence of messages for each destination. *)
Outbox    == [Nodes -> Seq(Message)]
Silent    == [n \in Nodes |-> << >>]
To(n, m)  == [Silent EXCEPT ![n] = <<m>>]
a \oplus b == [n \in Nodes |-> a[n] \o b[n]]

(* `me` handles the head of the link from `src` and sends `outs`; a message *)
(* for a service `me` has no connection to is dropped, as send() does.      *)
Pending(src, me, kind) ==
  /\ net[<<src, me>>] # << >>
  /\ Head(net[<<src, me>>]).kind = kind
Receive(src, me, outs) ==
  net' = [l \in Links |->
            IF l = <<src, me>> THEN Tail(net[l])
            ELSE IF l[1] = me THEN net[l] \o outs[l[2]] ELSE net[l]]
(* `me` sends `outs` without having received anything. *)
Emit(me, outs) ==
  net' = [l \in Links |-> IF l[1] = me THEN net[l] \o outs[l[2]] ELSE net[l]]

(* Every database query succeeds or, within the bound, fails. *)
Queries(failed) ==
  LET n == IF failed THEN 1 ELSE 0
  IN  /\ dbFaults + n <= MaxDbFaults
      /\ dbFaults' = dbFaults + n

NetInit ==
  /\ net = [l \in Links |-> << >>]
  /\ dbFaults = 0
NetTypeOK ==
  /\ net \in [Links -> Seq(Message)]
  /\ dbFaults \in Nat
  /\ dbOnline \in [Users -> ShardOrNone]
  /\ dbCur \in [Users -> ShardOrNone]
=============================================================================
