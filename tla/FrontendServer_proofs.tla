----------------------- MODULE FrontendServer_proofs -----------------------
(***************************************************************************)
(* A front end and its clients keep their state well typed; a front end    *)
(* never has both a session and a cookie of a user, nor two cookies; its   *)
(* receive queue tells the life of its sockets in order, what becomes of a *)
(* session that ends, and that a user has one session as long as no cookie *)
(* it awaits is in the queue already.                                      *)
(***************************************************************************)
EXTENDS FrontendServer, Services_proofs

FSTyped == NetTyped /\ dbFaults \in Nat /\ FSTypeOK

(* The null values, the homes of the front ends and a free socket are      *)
(* typed.                                                                  *)
LEMMA FSNulls == /\ NoCookie \in Cookie /\ NoShard \in ShardOrNone /\ NoFes \in FesOrNone
                 /\ Fess \subseteq FesOrNone /\ Shards \subseteq ShardOrNone
                 /\ \A f \in Fess : ShardOf[f] \in Shards
                 /\ FreeConn \in Conn
BY PlacesOK, SomeUser
   DEF NoCookie, Cookie, ShardOrNone, FesOrNone, FreeConn, Conn

(* A message for a front end, and what is known of it. *)
LEMMA FSHeadTyped ==
  ASSUME FSTyped, NEW f \in Fess, NEW kind, Pending(ShardOf[f], f, kind)
  PROVE  LET m == Head(net[<<ShardOf[f], f>>])
         IN  /\ <<ShardOf[f], f>> \in Links /\ NetTyped
             /\ m \in Message /\ m.kind = kind /\ m.u \in Users /\ m.ck \in Cookie
<1>1. <<ShardOf[f], f>> \in Links /\ NetTyped
  BY LinksAre DEF FSTyped
<1>2. /\ Head(net[<<ShardOf[f], f>>]) \in Message
      /\ Head(net[<<ShardOf[f], f>>]).kind = kind
  BY <1>1, PendingTyped
<1>3. QED
  BY <1>1, <1>2, MessageIs

(* The head of the receive queue. *)
LEMMA EventTyped ==
  ASSUME FSTyped, NEW f \in Fess, events[f] # << >>
  PROVE  /\ Head(events[f]) \in Event /\ Tail(events[f]) \in Seq(Event)
         /\ Head(events[f]).k \in Conns /\ Head(events[f]).ck \in Cookie
         /\ conn[f][Head(events[f]).k] \in Conn
         /\ conn[f][Head(events[f]).k].u \in Users
<1>1. events[f] \in Seq(Event)
  BY DEF FSTyped, FSTypeOK
<1>2. Head(events[f]) \in Event /\ Tail(events[f]) \in Seq(Event)
  BY <1>1, HeadTailProperties
<1>3. Head(events[f]).k \in Conns /\ Head(events[f]).ck \in Cookie
  BY <1>2 DEF Event
<1>4. conn[f][Head(events[f]).k] \in Conn
  BY <1>3 DEF FSTyped, FSTypeOK
<1>5. QED
  BY <1>2, <1>3, <1>4 DEF Conn

(* Queueing a disconnection keeps the receive queue typed. *)
LEMMA AdvertisedTyped ==
  ASSUME NEW f, NEW evs \in Seq(Event), NEW k
  PROVE  Advertised(f, evs, k) \in Seq(Event)
<1>1. ASSUME k \in Conns
      PROVE  Disconnection(k) \in Event
  BY <1>1, FSNulls DEF Disconnection, Event
<1>2. QED
  BY <1>1, AppendProperties DEF Advertised

(* A socket stays a socket whatever flag of it changes. *)
LEMMA ConnTyped ==
  ASSUME NEW c \in Conn, NEW b \in BOOLEAN
  PROVE  /\ [c EXCEPT !.open = b] \in Conn /\ [c EXCEPT !.app = b] \in Conn
         /\ [c EXCEPT !.entered = b] \in Conn /\ [c EXCEPT !.asked = b] \in Conn
BY DEF Conn

(* Closing any set of sockets of a front end keeps them sockets. *)
LEMMA ClosedTyped ==
  ASSUME FSTypeOK, NEW f \in Fess, NEW K
  PROVE  Closed(f, K) \in [Conns -> Conn]
<1>1. ASSUME NEW k \in Conns
      PROVE  conn[f][k] \in Conn /\ [conn[f][k] EXCEPT !.open = FALSE] \in Conn
  BY ZenonT(30), ConnTyped DEF FSTypeOK
<1>2. QED
  BY <1>1 DEF Closed

(* DisconnectAccount keeps sockets, receive queues and associations typed. *)
LEMMA DisconnectAccountTyped ==
  ASSUME FSTypeOK, NEW f \in Fess, NEW u \in Users, DisconnectAccount(f, u)
  PROVE  /\ conn' \in [Fess -> [Conns -> Conn]]
         /\ events' \in [Fess -> Seq(Event)]
         /\ assoc' \in [Fess -> [Users -> Nat]]
<1>1. conn' \in [Fess -> [Conns -> Conn]]
  BY ClosedTyped DEF DisconnectAccount, FSTypeOK
<1>2. events' \in [Fess -> Seq(Event)]
  <2>1. events[f] \in Seq(Event)
    BY DEF FSTypeOK
  <2>2. Advertised(f, events[f], assoc[f][u]) \in Seq(Event)
    BY <2>1, AdvertisedTyped
  <2>3. QED
    BY <2>2 DEF DisconnectAccount, FSTypeOK
<1>3. assoc' \in [Fess -> [Users -> Nat]]
  BY DEF DisconnectAccount, FSTypeOK
<1>4. QED
  BY <1>1, <1>2, <1>3

(* What a front end does with a message of its WS keeps the types. *)
LEMMA FSFromWSTyped ==
  ASSUME FSTyped, NEW f \in Fess,
         FSChooseShard(f) \/ FSDisconnectClient(f) \/ FSEnterShardOk(f)
           \/ FSChangeShardAns(f)
  PROVE  FSTyped'
<1> DEFINE s == ShardOf[f]
           m == Head(net[<<s, f>>])
<1>1. CASE FSChooseShard(f)
  <2> DEFINE ans == [m EXCEPT !.kind = "M_ENTER_SHARD_ANSWER", !.f = f, !.v = 0]
  <2>1. /\ Pending(s, f, "M_ENTER_SHARD_REQUEST") /\ DisconnectAccount(f, m.u)
        /\ pending' = [pending EXCEPT ![f] = Announced(f, m.u, m.ck)]
        /\ Receive(s, f, To(s, ans))
    BY <1>1 DEF FSChooseShard
  <2>2. /\ m \in Message /\ m.u \in Users /\ m.ck \in Cookie
        /\ <<s, f>> \in Links /\ NetTyped
    BY <2>1, FSHeadTyped
  <2>3. ans \in Message
    <3> HIDE DEF m
    <3> QED
      BY <2>2, OfferTyped
  <2>4. NetTyped'
    <3> HIDE DEF ans
    <3> QED
      BY <2>1, <2>2, <2>3, ToTyped, ReceiveTyped
  <2>5. pending' \in [Fess -> SUBSET [u : Users, ck : Cookie]]
    <3>1. pending[f] \in SUBSET [u : Users, ck : Cookie]
      BY DEF FSTyped, FSTypeOK
    <3> HIDE DEF m
    <3>2. Announced(f, m.u, m.ck) \in SUBSET [u : Users, ck : Cookie]
      BY <2>2, <3>1 DEF Announced
    <3>3. QED
      BY <2>1, <3>2 DEF FSTyped, FSTypeOK
  <2>6. QED
    BY <1>1, <2>1, <2>2, <2>4, <2>5, DisconnectAccountTyped
       DEF FSChooseShard, FSTyped, FSTypeOK
<1>2. CASE FSDisconnectClient(f)
  <2>1. Pending(s, f, "M_CLIENT_DISCONNECT") /\ DisconnectAccount(f, m.u)
        /\ Receive(s, f, Silent)
    BY <1>2 DEF FSDisconnectClient
  <2>2. m.u \in Users /\ <<s, f>> \in Links /\ NetTyped
    BY <2>1, FSHeadTyped
  <2>3. NetTyped'
    BY <2>1, <2>2, SilentTyped, ReceiveTyped
  <2>4. QED
    BY <1>2, <2>1, <2>2, <2>3, DisconnectAccountTyped
       DEF FSDisconnectClient, FSTyped, FSTypeOK
<1>3. CASE FSEnterShardOk(f)
  <2> DEFINE k == assoc[f][m.u]
  <2>1. /\ Pending(s, f, "M_ENTER__SHARD") /\ Receive(s, f, Silent)
        /\ conn' = IF k = 0 THEN conn
                   ELSE [conn EXCEPT ![f][k].entered = conn[f][k].open]
    BY <1>3 DEF FSEnterShardOk
  <2>2. m.u \in Users /\ <<s, f>> \in Links /\ NetTyped
    BY <2>1, FSHeadTyped
  <2>3. NetTyped'
    BY <2>1, <2>2, SilentTyped, ReceiveTyped
  <2>4. conn' \in [Fess -> [Conns -> Conn]]
    <3> HIDE DEF k
    <3>1. conn \in [Fess -> [Conns -> Conn]]
      BY DEF FSTyped, FSTypeOK
    <3>2. CASE k \in Conns
      <4>1. [conn[f][k] EXCEPT !.entered = conn[f][k].open] \in Conn
        BY <3>1, <3>2 DEF Conn
      <4>2. QED
        BY <2>1, <3>1, <3>2, <4>1
    <3>3. CASE k \notin Conns
      BY <2>1, <3>1, <3>3
    <3>4. QED
      BY <3>2, <3>3
  <2>5. QED
    BY <1>3, <2>3, <2>4 DEF FSEnterShardOk, FSTyped, FSTypeOK
<1>4. CASE FSChangeShardAns(f)
  <2> DEFINE K == {k \in Conns : /\ conn[f][k].u = m.u
                                 /\ conn[f][k].open /\ conn[f][k].entered}
  <2>1. /\ Pending(s, f, "M_SC_CHANGE_SHARD_ANS") /\ Receive(s, f, Silent)
        /\ offers' = [offers EXCEPT ![m.u] =
             IF K # {} /\ m.v = 0 THEN @ \cup {[ck |-> m.ck, f |-> m.f]} ELSE @]
        /\ conn' = [conn EXCEPT ![f] = [k \in Conns |->
             IF k \in K THEN [@[k] EXCEPT !.asked = FALSE] ELSE @[k]]]
    BY <1>4 DEF FSChangeShardAns
  <2>2. /\ m \in Message /\ m.kind = "M_SC_CHANGE_SHARD_ANS"
        /\ m.u \in Users /\ m.ck \in Cookie /\ <<s, f>> \in Links /\ NetTyped
    BY <2>1, FSHeadTyped
  <2>3. NetTyped'
    BY <2>1, <2>2, SilentTyped, ReceiveTyped
  <2>4. offers' \in [Users -> SUBSET Offer]
    <3>1. m.v = 0 => [ck |-> m.ck, f |-> m.f] \in Offer
      <4>1. m.v = 0 => m.f \in Fess
        BY <2>2, MessageIs DEF Answers, FesOrNone
      <4>2. QED
        BY <2>2, <4>1 DEF Offer
    <3> HIDE DEF K, m
    <3>2. QED
      BY <2>1, <2>2, <3>1 DEF FSTyped, FSTypeOK
  <2>5. conn' \in [Fess -> [Conns -> Conn]]
    <3> HIDE DEF K
    <3>1. conn \in [Fess -> [Conns -> Conn]]
      BY DEF FSTyped, FSTypeOK
    <3>2. \A k \in Conns : [conn[f][k] EXCEPT !.asked = FALSE] \in Conn
      BY <3>1, ConnTyped
    <3>3. [k \in Conns |-> IF k \in K THEN [conn[f][k] EXCEPT !.asked = FALSE]
                           ELSE conn[f][k]] \in [Conns -> Conn]
      BY <3>1, <3>2
    <3>4. QED
      BY <2>1, <3>1, <3>3
  <2>6. QED
    BY <1>4, <2>3, <2>4, <2>5 DEF FSChangeShardAns, FSTyped, FSTypeOK
<1>5. QED
  BY <1>1, <1>2, <1>3, <1>4

(* What a front end does with an event of its receive queue, or on its     *)
(* timer, keeps the types.                                                 *)
LEMMA FSFromClientsTyped ==
  ASSUME FSTyped, NEW f \in Fess,
         FSShardValidation(f) \/ FSInvalidCookie(f) \/ FSDisconnected(f)
           \/ FSRefreshPending(f)
  PROVE  FSTyped'
<1> DEFINE e == Head(events[f])
           u == conn[f][e.k].u
<1>0. /\ NetTyped /\ pending \in [Fess -> SUBSET [u : Users, ck : Cookie]]
      /\ conn \in [Fess -> [Conns -> Conn]] /\ events \in [Fess -> Seq(Event)]
      /\ assoc \in [Fess -> [Users -> Nat]]
      /\ "M_CLIENT_CONNECT_STATUS" \in Kinds \ Answers
      /\ "M_LOGIN_SERVER_RPC" \in Kinds \ Answers
  BY DEF FSTyped, FSTypeOK, Kinds, Answers
<1>1. CASE FSShardValidation(f)
  <2> DEFINE p == [u |-> u, ck |-> e.ck]
             out == [Msg("M_CLIENT_CONNECT_STATUS", u) EXCEPT !.v = 1, !.ck = e.ck]
             D == Closed(f, {assoc[f][u]})
             C == [D EXCEPT ![e.k].app = TRUE]
  <2>1. /\ events[f] # << >>
        /\ pending' = [pending EXCEPT ![f] = @ \ {p}]
        /\ conn' = [conn EXCEPT ![f] = C]
        /\ events' = [events EXCEPT ![f] = Advertised(f, Tail(@), assoc[f][u])]
        /\ assoc' = [assoc EXCEPT ![f][u] = e.k]
        /\ Emit(f, To(ShardOf[f], out))
    BY <1>1 DEF FSShardValidation
  <2>2. u \in Users /\ e.k \in Conns /\ e.ck \in Cookie /\ Tail(events[f]) \in Seq(Event)
    BY <2>1, EventTyped
  <2>3. out \in Message
    <3> HIDE DEF u, e
    <3>1. 1 \in Nat
      OBVIOUS
    <3> QED
      BY <1>0, <2>2, <3>1, MsgTyped, FSNulls
  <2>4. NetTyped'
    <3> HIDE DEF out
    <3> QED
      BY <1>0, <2>1, <2>3, ToTyped, EmitTyped
  <2>5. C \in [Conns -> Conn]
    <3>1. D \in [Conns -> Conn]
      BY ClosedTyped DEF FSTyped
    <3>2. [D[e.k] EXCEPT !.app = TRUE] \in Conn
      <4> HIDE DEF D, e
      <4> QED
        BY <2>2, <3>1, ConnTyped
    <3> HIDE DEF D, e
    <3> QED
      BY <2>2, <3>1, <3>2
  <2>6. Advertised(f, Tail(events[f]), assoc[f][u]) \in Seq(Event)
    BY <2>2, AdvertisedTyped
  <2>7. /\ pending' \in [Fess -> SUBSET [u : Users, ck : Cookie]]
        /\ conn' \in [Fess -> [Conns -> Conn]] /\ events' \in [Fess -> Seq(Event)]
    <3> HIDE DEF p, C, u
    <3> QED
      BY <1>0, <2>1, <2>5, <2>6
  <2>8. assoc' \in [Fess -> [Users -> Nat]]
    <3>1. e.k \in Nat
      BY <2>2 DEF Conns
    <3> HIDE DEF e, u
    <3> QED
      BY <1>0, <2>1, <3>1
  <2>9. QED
    BY <1>1, <2>4, <2>7, <2>8 DEF FSShardValidation, FSTyped, FSTypeOK
<1>2. CASE FSInvalidCookie(f)
  <2>1. /\ events[f] # << >>
        /\ conn' = [conn EXCEPT ![f] = Closed(f, {assoc[f][u], e.k})]
        /\ events' = [events EXCEPT ![f] =
             Advertised(f, Advertised(f, Tail(@), assoc[f][u]), e.k)]
        /\ assoc' = [assoc EXCEPT ![f][u] = 0]
    BY <1>2 DEF FSInvalidCookie
  <2>2. Tail(events[f]) \in Seq(Event)
    BY <2>1, EventTyped
  <2>3. Advertised(f, Advertised(f, Tail(events[f]), assoc[f][u]), e.k) \in Seq(Event)
    BY <2>2, AdvertisedTyped
  <2>4. Closed(f, {assoc[f][u], e.k}) \in [Conns -> Conn]
    BY ClosedTyped DEF FSTyped
  <2>5. /\ conn' \in [Fess -> [Conns -> Conn]] /\ events' \in [Fess -> Seq(Event)]
        /\ assoc' \in [Fess -> [Users -> Nat]]
    <3> HIDE DEF u, e
    <3> QED
      BY <1>0, <2>1, <2>3, <2>4
  <2>6. QED
    BY <1>2, <2>5 DEF FSInvalidCookie, FSTyped, FSTypeOK, NetTyped, netVars
<1>3. CASE FSDisconnected(f)
  <2>1. /\ events[f] # << >>
        /\ conn' = [conn EXCEPT ![f][e.k] = FreeConn]
        /\ events' = [events EXCEPT ![f] = Tail(@)]
        /\ \/ /\ assoc' = [assoc EXCEPT ![f][u] = 0]
              /\ Emit(f, To(ShardOf[f], Msg("M_CLIENT_CONNECT_STATUS", u)))
           \/ UNCHANGED <<assoc, net>>
    BY <1>3 DEF FSDisconnected
  <2>2. u \in Users /\ e.k \in Conns /\ Tail(events[f]) \in Seq(Event)
    BY <2>1, EventTyped
  <2>3. Msg("M_CLIENT_CONNECT_STATUS", u) \in Message
    <3> HIDE DEF u
    <3> QED
      BY <1>0, <2>2, MsgTyped, FSNulls
  <2>4. NetTyped'
    <3>1. CASE UNCHANGED net
      BY <1>0, <3>1 DEF NetTyped
    <3>2. CASE Emit(f, To(ShardOf[f], Msg("M_CLIENT_CONNECT_STATUS", u)))
      BY <1>0, <2>3, <3>2, ToTyped, EmitTyped
    <3>3. QED
      BY <2>1, <3>1, <3>2
  <2>5. /\ conn' \in [Fess -> [Conns -> Conn]] /\ events' \in [Fess -> Seq(Event)]
        /\ assoc' \in [Fess -> [Users -> Nat]]
    <3> HIDE DEF u, e
    <3>1. conn' \in [Fess -> [Conns -> Conn]]
      <4>1. [conn[f] EXCEPT ![e.k] = FreeConn] \in [Conns -> Conn]
        BY <1>0, FSNulls
      <4>2. QED
        BY <1>0, <2>1, <4>1
    <3>2. events' \in [Fess -> Seq(Event)]
      BY <1>0, <2>1, <2>2
    <3>3. assoc' \in [Fess -> [Users -> Nat]]
      <4>1. [assoc[f] EXCEPT ![u] = 0] \in [Users -> Nat]
        BY <1>0
      <4>2. assoc' = assoc \/ assoc' = [assoc EXCEPT ![f][u] = 0]
        BY <2>1
      <4>3. QED
        BY <1>0, <4>1, <4>2
    <3> QED
      BY <3>1, <3>2, <3>3
  <2>6. QED
    BY <1>3, <2>4, <2>5 DEF FSDisconnected, FSTyped, FSTypeOK
<1>4. CASE FSRefreshPending(f)
  <2>1. PICK p \in pending[f] :
          /\ pending' = [pending EXCEPT ![f] = @ \ {p}]
          /\ Emit(f, To(ShardOf[f], [Msg("M_LOGIN_SERVER_RPC", p.u) EXCEPT !.ck = p.ck]))
    BY <1>4 DEF FSRefreshPending
  <2>2. p.u \in Users /\ p.ck \in Cookie
    BY <1>0
  <2>3. [Msg("M_LOGIN_SERVER_RPC", p.u) EXCEPT !.ck = p.ck] \in Message
    BY <1>0, <2>2, MsgTyped, FSNulls
  <2>4. NetTyped'
    BY <1>0, <2>1, <2>3, ToTyped, EmitTyped
  <2>5. pending' \in [Fess -> SUBSET [u : Users, ck : Cookie]]
    BY <1>0, <2>1
  <2>6. QED
    BY <1>4, <2>4, <2>5 DEF FSRefreshPending, FSTyped, FSTypeOK
<1>5. QED
  BY <1>1, <1>2, <1>3, <1>4

(* Every step of a front end keeps the types. *)
LEMMA FSNextTyped ==
  ASSUME FSTyped, FSNext
  PROVE  FSTyped'
BY FSFromWSTyped, FSFromClientsTyped DEF FSNext

(* Every step of a client keeps the types. *)
LEMMA ClientsTyped ==
  ASSUME FSTyped,
         \/ \E u \in Users : ClientConnect(u)
         \/ \E f \in Fess, k \in Conns : ClientClose(f, k) \/ FSChangeShardReq(f, k)
  PROVE  FSTyped'
<1>0. /\ NetTyped /\ offers \in [Users -> SUBSET Offer]
      /\ conn \in [Fess -> [Conns -> Conn]] /\ events \in [Fess -> Seq(Event)]
      /\ "M_CS_CHANGE_SHARD_REQ" \in Kinds \ Answers
  BY DEF FSTyped, FSTypeOK, Kinds, Answers
<1>1. ASSUME NEW u \in Users, ClientConnect(u)
      PROVE  FSTyped'
  <2>1. PICK o \in offers[u], k \in Conns :
          /\ offers' = [offers EXCEPT ![u] = @ \ {o}]
          /\ conn' = [conn EXCEPT ![o.f][k] =
               [FreeConn EXCEPT !.u = u, !.used = TRUE, !.open = TRUE]]
          /\ events' = [events EXCEPT ![o.f] =
               Append(@, [ev |-> "validation", k |-> k, ck |-> o.ck])]
    BY <1>1 DEF ClientConnect
  <2>2. o.f \in Fess /\ o.ck \in Cookie
    BY <1>0, <2>1 DEF Offer
  <2> DEFINE new == [FreeConn EXCEPT !.u = u, !.used = TRUE, !.open = TRUE]
             first == [ev |-> "validation", k |-> k, ck |-> o.ck]
  <2>3. new \in Conn /\ first \in Event
    BY <2>2, FSNulls DEF Conn, Event
  <2>4. Append(events[o.f], first) \in Seq(Event)
    <3> HIDE DEF first
    <3> QED
      BY <1>0, <2>2, <2>3, AppendProperties
  <2>5. offers' \in [Users -> SUBSET Offer] /\ events' \in [Fess -> Seq(Event)]
        /\ conn' \in [Fess -> [Conns -> Conn]]
    <3> HIDE DEF new, first
    <3>1. offers' \in [Users -> SUBSET Offer]
      BY <1>0, <2>1
    <3>2. events' \in [Fess -> Seq(Event)]
      <4>1. events' = [events EXCEPT ![o.f] = Append(@, first)]
        BY <2>1 DEF first
      <4>2. QED
        BY <1>0, <2>2, <2>4, <4>1
    <3>3. conn' \in [Fess -> [Conns -> Conn]]
      <4>1. conn' = [conn EXCEPT ![o.f][k] = new]
        BY <2>1 DEF new
      <4>2. [conn[o.f] EXCEPT ![k] = new] \in [Conns -> Conn]
        BY <1>0, <2>2, <2>3
      <4>3. QED
        BY <1>0, <2>2, <4>1, <4>2
    <3> QED
      BY <3>1, <3>2, <3>3
  <2>6. QED
    BY <1>1, <2>5 DEF ClientConnect, FSTyped, FSTypeOK, NetTyped, netVars
<1>2. ASSUME NEW f \in Fess, NEW k \in Conns, ClientClose(f, k)
      PROVE  FSTyped'
  <2>1. Closed(f, {k}) \in [Conns -> Conn] /\ Advertised(f, events[f], k) \in Seq(Event)
    BY <1>0, ClosedTyped, AdvertisedTyped DEF FSTyped
  <2>2. conn' \in [Fess -> [Conns -> Conn]] /\ events' \in [Fess -> Seq(Event)]
    BY <1>0, <1>2, <2>1 DEF ClientClose
  <2>3. QED
    BY <1>2, <2>2 DEF ClientClose, FSTyped, FSTypeOK, NetTyped, netVars
<1>3. ASSUME NEW f \in Fess, NEW k \in Conns, FSChangeShardReq(f, k)
      PROVE  FSTyped'
  <2>1. PICK s \in Shards : Emit(f, To(ShardOf[f],
          [Msg("M_CS_CHANGE_SHARD_REQ", conn[f][k].u) EXCEPT !.s = s]))
    BY <1>3 DEF FSChangeShardReq
  <2>2. conn[f][k] \in Conn /\ conn[f][k].u \in Users
    BY <1>0 DEF Conn
  <2>3. [Msg("M_CS_CHANGE_SHARD_REQ", conn[f][k].u) EXCEPT !.s = s] \in Message
    BY <1>0, <2>2, MsgTyped, FSNulls
  <2>4. NetTyped'
    BY <1>0, <2>1, <2>3, ToTyped, EmitTyped
  <2>5. conn' \in [Fess -> [Conns -> Conn]]
    <3>1. [conn[f][k] EXCEPT !.asked = TRUE] \in Conn
      BY <2>2, ConnTyped
    <3>2. QED
      BY <1>0, <1>3, <3>1 DEF FSChangeShardReq
  <2>6. QED
    BY <1>3, <2>4, <2>5 DEF FSChangeShardReq, FSTyped, FSTypeOK
<1>4. QED
  BY <1>1, <1>2, <1>3

-----------------------------------------------------------------------------
(* Every step keeps CookieOrSession: only FSChooseShard adds a cookie, and *)
(* it ends the session; only FSShardValidation starts one, and it spends   *)
(* the cookie.                                                             *)

(* A step that adds neither cookies nor sessions. *)
LEMMA FewerCookies ==
  ASSUME CookieOrSession,
         \A f \in Fess : pending'[f] \subseteq pending[f],
         \A f \in Fess, u \in Users : assoc'[f][u] \in {0, assoc[f][u]}
  PROVE  CookieOrSession'
BY DEF CookieOrSession, CookiesOf

(* No step of a front end leaves a user with a session and a cookie, or    *)
(* with two cookies.                                                       *)
LEMMA FSNextKeepsCookieOrSession ==
  ASSUME FSTyped, CookieOrSession, FSNext
  PROVE  CookieOrSession'
<1>0. /\ assoc \in [Fess -> [Users -> Nat]]
      /\ pending \in [Fess -> SUBSET [u : Users, ck : Cookie]]
  BY DEF FSTyped, FSTypeOK
<1>1. ASSUME NEW f \in Fess, FSChooseShard(f)
      PROVE  CookieOrSession'
  <2> DEFINE m == Head(net[<<ShardOf[f], f>>])
  <2>1. /\ Pending(ShardOf[f], f, "M_ENTER_SHARD_REQUEST")
        /\ pending' = [pending EXCEPT ![f] = Announced(f, m.u, m.ck)]
        /\ assoc' = [assoc EXCEPT ![f][m.u] = 0]
    BY <1>1 DEF FSChooseShard, DisconnectAccount
  <2>2. m.u \in Users
    BY <2>1, FSHeadTyped
  <2> HIDE DEF m
  <2>3. ASSUME NEW g \in Fess, NEW v \in Users
        PROVE  /\ assoc'[g][v] = 0 \/ CookiesOf(g, v)' = {}
               /\ \A p, q \in CookiesOf(g, v)' : p = q
    <3>1. CASE g = f /\ v = m.u
      <4>1. assoc'[g][v] = 0
        BY <1>0, <2>1, <3>1
      <4>2. CookiesOf(g, v)' \subseteq {[u |-> m.u, ck |-> m.ck]}
        BY <1>0, <2>1, <3>1 DEF CookiesOf, Announced
      <4>3. QED
        BY <4>1, <4>2
    <3>2. CASE g # f \/ v # m.u
      <4>1. assoc'[g][v] = assoc[g][v]
        BY <1>0, <2>1, <3>2
      <4>2. CookiesOf(g, v)' \subseteq CookiesOf(g, v)
        BY <1>0, <2>1, <3>2 DEF CookiesOf, Announced
      <4>3. QED
        BY <4>1, <4>2 DEF CookieOrSession
    <3>3. QED
      BY <3>1, <3>2
  <2>4. QED
    BY <2>3 DEF CookieOrSession
<1>2. ASSUME NEW f \in Fess, FSShardValidation(f)
      PROVE  CookieOrSession'
  <2> DEFINE e == Head(events[f])
             u == conn[f][e.k].u
             p == [u |-> u, ck |-> e.ck]
  <2>1. /\ p \in pending[f] /\ events[f] # << >>
        /\ pending' = [pending EXCEPT ![f] = @ \ {p}]
        /\ assoc' = [assoc EXCEPT ![f][u] = e.k]
    BY <1>2 DEF FSShardValidation
  <2>2. u \in Users /\ p.u = u
    BY <2>1, EventTyped
  <2> HIDE DEF e, u, p
  <2>3. ASSUME NEW g \in Fess, NEW v \in Users
        PROVE  /\ assoc'[g][v] = 0 \/ CookiesOf(g, v)' = {}
               /\ \A a, b \in CookiesOf(g, v)' : a = b
    <3>1. CookiesOf(g, v)' \subseteq CookiesOf(g, v)
      BY <1>0, <2>1 DEF CookiesOf
    <3>2. CASE g = f /\ v = u
      <4>1. p \in CookiesOf(g, v) /\ p \notin CookiesOf(g, v)'
        BY <1>0, <2>1, <2>2, <3>2 DEF CookiesOf
      <4>2. CookiesOf(g, v)' = {}
        BY <3>1, <4>1 DEF CookieOrSession
      <4>3. QED
        BY <4>2
    <3>3. CASE g # f \/ v # u
      <4>1. assoc'[g][v] = assoc[g][v]
        BY <1>0, <2>1, <3>3
      <4>2. QED
        BY <3>1, <4>1 DEF CookieOrSession
    <3>4. QED
      BY <3>2, <3>3
  <2>4. QED
    BY <2>3 DEF CookieOrSession
<1>3. ASSUME NEW f \in Fess, NEW u,
             UNCHANGED pending, assoc' = [assoc EXCEPT ![f][u] = 0]
      PROVE  CookieOrSession'
  <2>1. \A g \in Fess, v \in Users : assoc'[g][v] \in {0, assoc[g][v]}
    BY <1>0, <1>3
  <2>2. QED
    BY <1>3, <2>1, FewerCookies
<1>4. ASSUME NEW f \in Fess, FSRefreshPending(f)
      PROVE  CookieOrSession'
  <2>1. \A g \in Fess : pending'[g] \subseteq pending[g]
    BY <1>0, <1>4 DEF FSRefreshPending
  <2>2. QED
    BY <1>4, <2>1, FewerCookies DEF FSRefreshPending
<1>5. CASE UNCHANGED <<pending, assoc>>
  BY <1>5 DEF CookieOrSession, CookiesOf
<1>6. PICK f \in Fess :
        \/ FSChooseShard(f) \/ FSShardValidation(f) \/ FSRefreshPending(f)
        \/ UNCHANGED pending /\ \E u : assoc' = [assoc EXCEPT ![f][u] = 0]
        \/ UNCHANGED <<pending, assoc>>
  BY DEF FSNext, FSDisconnectClient, DisconnectAccount, FSEnterShardOk,
         FSChangeShardAns, FSInvalidCookie, FSDisconnected
<1>7. QED
  BY <1>1, <1>2, <1>3, <1>4, <1>5, <1>6

-----------------------------------------------------------------------------
(* The receive queue tells the life of every socket in order.              *)

(* A socket in use is open or its disconnection is queued; it is validated *)
(* at most once, and nothing is queued behind its disconnection.           *)
InOrder(q, c) ==
  /\ \A k \in Conns : c[k].open => c[k].used
  /\ \A k \in Conns : c[k].used => c[k].open \/ \E i \in DOMAIN q : q[i] = Disconnection(k)
  /\ \A i \in DOMAIN q :
       /\ c[q[i].k].used
       /\ q[i].ev = "validation" => ~c[q[i].k].app
       /\ q[i].ev = "disconnection" => q[i] = Disconnection(q[i].k) /\ ~c[q[i].k].open
  /\ \A i, j \in DOMAIN q :
       i < j /\ q[i].k = q[j].k => q[i].ev = "validation" /\ q[j].ev = "disconnection"

Shut(c, K) == [k \in Conns |-> IF k \in K THEN [c[k] EXCEPT !.open = FALSE] ELSE c[k]]

(* What is in the queue. *)
LEMMA QueuedTyped ==
  ASSUME NEW q \in Seq(Event), NEW i \in DOMAIN q
  PROVE  q[i] \in Event /\ q[i].k \in Conns /\ q[i].ev \in {"validation", "disconnection"}
<1>1. q[i] \in Event
  BY LenProperties, ElementOfSeq
<1>2. QED
  BY <1>1 DEF Event

(* A socket that was open is closed and its disconnection queued. *)
LEMMA ShutInOrder ==
  ASSUME NEW q \in Seq(Event), NEW c \in [Conns -> Conn], InOrder(q, c),
         NEW k \in Conns, c[k].open
  PROVE  /\ InOrder(Append(q, Disconnection(k)), Shut(c, {k}))
         /\ Shut(c, {k}) \in [Conns -> Conn] /\ Append(q, Disconnection(k)) \in Seq(Event)
<1> DEFINE e == Disconnection(k)
           d == Shut(c, {k})
           n == Len(q) + 1
           r == q \o <<e>>
<1>1. e \in Event /\ e.ev = "disconnection" /\ e.k = k
  BY FSNulls DEF Disconnection, Event
<1>2. /\ Append(q, e) = r /\ r \in Seq(Event) /\ n \in Nat /\ DOMAIN q = 1..(n - 1)
      /\ DOMAIN r = 1..n /\ r[n] = e /\ \A i \in DOMAIN q : r[i] = q[i]
  <2> HIDE DEF e
  <2> QED
    BY <1>1, PositionsSent
<1>3. \A i \in DOMAIN q : q[i] \in Event /\ q[i].k \in Conns /\ q[i].ev \in {"validation", "disconnection"}
  BY QueuedTyped
<1>4. /\ d \in [Conns -> Conn] /\ ~d[k].open
      /\ \A j \in Conns : /\ d[j].used = c[j].used /\ d[j].app = c[j].app
                          /\ j # k => d[j] = c[j]
  BY DEF Shut, Conn
<1> HIDE DEF e, d, n, r
<1>5. \A i \in DOMAIN q : q[i].ev = "disconnection" => q[i].k # k
  BY DEF InOrder
<1>6. \A j \in Conns : d[j].open => d[j].used
  BY <1>4 DEF InOrder
<1>7. \A j \in Conns : d[j].used => d[j].open \/ \E i \in DOMAIN r : r[i] = Disconnection(j)
  <2> SUFFICES ASSUME NEW j \in Conns, d[j].used, ~d[j].open
               PROVE  \E i \in DOMAIN r : r[i] = Disconnection(j)
    OBVIOUS
  <2>1. CASE j = k
    BY <1>2, <2>1 DEF e
  <2>2. CASE j # k
    <3>1. PICK i \in DOMAIN q : q[i] = Disconnection(j)
      BY <1>4, <2>2 DEF InOrder
    <3>2. i \in DOMAIN r /\ r[i] = q[i]
      BY <1>2
    <3>3. QED
      BY <3>1, <3>2
  <2>3. QED
    BY <2>1, <2>2
<1>8. ASSUME NEW i \in DOMAIN r
      PROVE  /\ d[r[i].k].used
             /\ r[i].ev = "validation" => ~d[r[i].k].app
             /\ r[i].ev = "disconnection" => r[i] = Disconnection(r[i].k) /\ ~d[r[i].k].open
  <2>1. CASE i \in DOMAIN q
    BY <1>2, <1>3, <1>4, <1>5, <2>1 DEF InOrder
  <2>2. CASE i = n
    <3>1. r[i].k = k /\ r[i].ev = "disconnection" /\ r[i] = Disconnection(k)
      BY <1>1, <1>2, <2>2 DEF e
    <3>2. c[k].used
      BY DEF InOrder
    <3>3. QED
      BY <1>4, <3>1, <3>2
  <2>3. QED
    BY <1>2, <2>1, <2>2
<1>9. ASSUME NEW i \in DOMAIN r, NEW j \in DOMAIN r, i < j, r[i].k = r[j].k
      PROVE  r[i].ev = "validation" /\ r[j].ev = "disconnection"
  <2>1. i \in DOMAIN q
    BY <1>2, <1>9
  <2>2. CASE j \in DOMAIN q
    BY <1>2, <1>9, <2>1, <2>2 DEF InOrder
  <2>3. CASE j = n
    BY <1>1, <1>2, <1>3, <1>5, <1>9, <2>1, <2>3
  <2>4. QED
    BY <1>2, <2>2, <2>3
<1>10. InOrder(r, d)
  BY <1>6, <1>7, <1>8, <1>9 DEF InOrder
<1>11. QED
  BY <1>2, <1>4, <1>10 DEF e, d

(* The queue and the sockets after CCallbackServer::disconnect on k, which *)
(* may be no socket at all.                                                *)
Hung(q, c, k) == IF k \in Conns /\ c[k].open THEN Append(q, Disconnection(k)) ELSE q
LEMMA HungInOrder ==
  ASSUME NEW q \in Seq(Event), NEW c \in [Conns -> Conn], InOrder(q, c), NEW k
  PROVE  /\ InOrder(Hung(q, c, k), Shut(c, {k}))
         /\ Shut(c, {k}) \in [Conns -> Conn] /\ Hung(q, c, k) \in Seq(Event)
<1>1. CASE k \in Conns /\ c[k].open
  BY <1>1, ShutInOrder DEF Hung
<1>2. CASE ~(k \in Conns /\ c[k].open)
  <2>1. Shut(c, {k}) = c
    BY <1>2 DEF Shut, Conn
  <2>2. QED
    BY <1>2, <2>1 DEF Hung
<1>3. QED
  BY <1>1, <1>2

(* Flags that the queue does not speak of. *)
LEMMA FlagsInOrder ==
  ASSUME NEW q \in Seq(Event), NEW c \in [Conns -> Conn], InOrder(q, c), NEW d,
         \A k \in Conns : /\ d[k].used = c[k].used /\ d[k].open = c[k].open
                          /\ d[k].app = c[k].app
  PROVE  InOrder(q, d)
<1>1. \A i \in DOMAIN q : q[i].k \in Conns
  BY QueuedTyped
<1>2. QED
  BY <1>1 DEF InOrder

(* A socket whose appId is set. *)
App(c, k) == [c EXCEPT ![k].app = TRUE]
LEMMA AppIs ==
  ASSUME NEW c \in [Conns -> Conn], NEW k \in Conns
  PROVE  /\ App(c, k) \in [Conns -> Conn] /\ App(c, k)[k].app
         /\ \A j \in Conns : /\ App(c, k)[j].used = c[j].used /\ App(c, k)[j].open = c[j].open
                             /\ App(c, k)[j].u = c[j].u
                             /\ j # k => App(c, k)[j] = c[j]
BY DEF Conn, App

(* The head of the queue and its socket. *)
LEMMA HeadInOrder ==
  ASSUME NEW q \in Seq(Event), NEW c \in [Conns -> Conn], InOrder(q, c), q # << >>
  PROVE  LET e == Head(q)
         IN  /\ e.k \in Conns /\ e.k # 0 /\ c[e.k].used
             /\ e.ev = "validation" => ~c[e.k].app
             /\ e.ev = "disconnection" => e = Disconnection(e.k) /\ ~c[e.k].open
<1>1. Head(q) = q[1] /\ 1 \in DOMAIN q
  BY PositionsRead
<1>2. q[1].k \in Conns /\ q[1].k # 0
  BY <1>1, QueuedTyped, ConnsOK DEF Conns
<1>3. QED
  BY <1>1, <1>2 DEF InOrder

(* The head of the queue is a validation: its socket may become the user's. *)
LEMMA ValidatedInOrder ==
  ASSUME NEW q \in Seq(Event), NEW c \in [Conns -> Conn], InOrder(q, c), q # << >>,
         Head(q).ev = "validation", NEW d \in [Conns -> Conn],
         \A j \in Conns : /\ d[j].used = c[j].used /\ d[j].open = c[j].open
                          /\ j # Head(q).k => d[j] = c[j]
  PROVE  InOrder(Tail(q), d) /\ Tail(q) \in Seq(Event)
<1> DEFINE r == Tail(q)
           k == Head(q).k
<1>1. /\ r \in Seq(Event) /\ Head(q) = q[1] /\ 1 \in DOMAIN q /\ DOMAIN q = 1..Len(q) /\ Len(q) \in Nat
      /\ DOMAIN r = 1..(Len(q) - 1)
      /\ \A i \in DOMAIN r : i + 1 \in DOMAIN q /\ r[i] = q[i + 1]
      /\ \A i \in DOMAIN q \ {1} : i - 1 \in DOMAIN r /\ r[i - 1] = q[i]
  BY PositionsRead
<1>2. \A i \in DOMAIN q : q[i].k \in Conns /\ q[i].ev \in {"validation", "disconnection"}
  BY QueuedTyped
<1>3. k \in Conns
  BY <1>1, <1>2
<1>4. /\ d \in [Conns -> Conn]
      /\ \A j \in Conns : /\ d[j].used = c[j].used /\ d[j].open = c[j].open
                          /\ j # k => d[j] = c[j]
  OBVIOUS
<1> HIDE DEF r, k
<1>5. \A j \in Conns : d[j].open => d[j].used
  BY <1>4 DEF InOrder
<1>6. \A j \in Conns : d[j].used => d[j].open \/ \E i \in DOMAIN r : r[i] = Disconnection(j)
  <2> SUFFICES ASSUME NEW j \in Conns, d[j].used, ~d[j].open
               PROVE  \E i \in DOMAIN r : r[i] = Disconnection(j)
    OBVIOUS
  <2>1. PICK i \in DOMAIN q : q[i] = Disconnection(j)
    BY <1>4 DEF InOrder
  <2>2. i # 1
    BY <1>1, <2>1 DEF Disconnection
  <2>3. QED
    BY <1>1, <2>1, <2>2
<1>7. ASSUME NEW i \in DOMAIN r, NEW j \in DOMAIN r, i < j, r[i].k = r[j].k
      PROVE  r[i].ev = "validation" /\ r[j].ev = "disconnection"
  <2>1. i + 1 \in DOMAIN q /\ j + 1 \in DOMAIN q /\ i + 1 < j + 1 /\ r[i] = q[i + 1] /\ r[j] = q[j + 1]
    BY <1>1, <1>7
  <2>2. QED
    BY <1>7, <2>1 DEF InOrder
<1>8. ASSUME NEW i \in DOMAIN r
      PROVE  /\ d[r[i].k].used
             /\ r[i].ev = "validation" => ~d[r[i].k].app
             /\ r[i].ev = "disconnection" => r[i] = Disconnection(r[i].k) /\ ~d[r[i].k].open
  <2>1. i + 1 \in DOMAIN q /\ 1 < i + 1 /\ r[i] = q[i + 1]
    BY <1>1
  <2>2. r[i].k = k => r[i].ev = "disconnection"
    <3>1. q[1].k = k
      BY <1>1 DEF k
    <3>2. QED
      BY <1>1, <2>1, <3>1 DEF InOrder
  <2>3. QED
    BY <1>2, <1>4, <2>1, <2>2 DEF InOrder
<1>9. QED
  BY <1>1, <1>4, <1>5, <1>6, <1>7, <1>8 DEF InOrder, r

(* The head of the queue is a disconnection: its socket is free. *)
LEMMA FreedInOrder ==
  ASSUME NEW q \in Seq(Event), NEW c \in [Conns -> Conn], InOrder(q, c), q # << >>,
         Head(q).ev = "disconnection", NEW d, d = [c EXCEPT ![Head(q).k] = FreeConn]
  PROVE  /\ InOrder(Tail(q), d) /\ d \in [Conns -> Conn] /\ Tail(q) \in Seq(Event)
         /\ \A i \in DOMAIN Tail(q) : Tail(q)[i].k # Head(q).k
<1> DEFINE r == Tail(q)
           k == Head(q).k
<1>1. /\ r \in Seq(Event) /\ Head(q) = q[1] /\ 1 \in DOMAIN q /\ DOMAIN q = 1..Len(q) /\ Len(q) \in Nat
      /\ DOMAIN r = 1..(Len(q) - 1)
      /\ \A i \in DOMAIN r : i + 1 \in DOMAIN q /\ r[i] = q[i + 1]
      /\ \A i \in DOMAIN q \ {1} : i - 1 \in DOMAIN r /\ r[i - 1] = q[i]
  BY PositionsRead
<1>2. \A i \in DOMAIN q : q[i].k \in Conns /\ q[i].ev \in {"validation", "disconnection"}
  BY QueuedTyped
<1>3. k \in Conns
  BY <1>1, <1>2
<1>4. /\ d \in [Conns -> Conn] /\ d[k] = FreeConn
      /\ ~FreeConn.used /\ ~FreeConn.open
      /\ \A j \in Conns : j # k => d[j] = c[j]
  BY <1>3, FSNulls DEF FreeConn
<1> HIDE DEF r, k
<1>5. \A i \in DOMAIN r : r[i].k # k
  <2> SUFFICES ASSUME NEW i \in DOMAIN r, r[i].k = k PROVE FALSE
    OBVIOUS
  <2>1. i + 1 \in DOMAIN q /\ 1 < i + 1 /\ r[i] = q[i + 1]
    BY <1>1
  <2>2. q[1].k = q[i + 1].k /\ q[1].ev = "disconnection"
    BY <1>1, <2>1 DEF k
  <2>3. QED
    BY <1>1, <2>1, <2>2 DEF InOrder
<1>6. \A j \in Conns : d[j].open => d[j].used
  BY <1>4 DEF InOrder
<1>7. \A j \in Conns : d[j].used => d[j].open \/ \E i \in DOMAIN r : r[i] = Disconnection(j)
  <2> SUFFICES ASSUME NEW j \in Conns, d[j].used, ~d[j].open
               PROVE  \E i \in DOMAIN r : r[i] = Disconnection(j)
    OBVIOUS
  <2>1. j # k /\ d[j] = c[j]
    BY <1>4
  <2>2. PICK i \in DOMAIN q : q[i] = Disconnection(j)
    BY <2>1 DEF InOrder
  <2>3. i # 1
    BY <1>1, <2>1, <2>2 DEF Disconnection, k
  <2>4. QED
    BY <1>1, <2>2, <2>3
<1>8. ASSUME NEW i \in DOMAIN r, NEW j \in DOMAIN r, i < j, r[i].k = r[j].k
      PROVE  r[i].ev = "validation" /\ r[j].ev = "disconnection"
  <2>1. i + 1 \in DOMAIN q /\ j + 1 \in DOMAIN q /\ i + 1 < j + 1 /\ r[i] = q[i + 1] /\ r[j] = q[j + 1]
    BY <1>1, <1>8
  <2>2. QED
    BY <1>8, <2>1 DEF InOrder
<1>9. ASSUME NEW i \in DOMAIN r
      PROVE  /\ d[r[i].k].used
             /\ r[i].ev = "validation" => ~d[r[i].k].app
             /\ r[i].ev = "disconnection" => r[i] = Disconnection(r[i].k) /\ ~d[r[i].k].open
  <2>1. i + 1 \in DOMAIN q /\ r[i] = q[i + 1] /\ r[i].k # k
    BY <1>1, <1>5
  <2>2. QED
    BY <1>2, <1>4, <2>1 DEF InOrder
<1>10. QED
  BY <1>1, <1>4, <1>5, <1>6, <1>7, <1>8, <1>9 DEF InOrder, r, k

(* A client connects on a free socket. *)
LEMMA ConnectedInOrder ==
  ASSUME NEW q \in Seq(Event), NEW c \in [Conns -> Conn], InOrder(q, c),
         NEW k \in Conns, ~c[k].used, NEW new \in Conn, new.used, new.open, ~new.app,
         NEW e \in Event, e.ev = "validation", e.k = k
  PROVE  InOrder(Append(q, e), [c EXCEPT ![k] = new])
<1> DEFINE d == [c EXCEPT ![k] = new]
           n == Len(q) + 1
           r == q \o <<e>>
<1>1. /\ Append(q, e) = r /\ n \in Nat /\ DOMAIN q = 1..(n - 1)
      /\ DOMAIN r = 1..n /\ r[n] = e /\ \A i \in DOMAIN q : r[i] = q[i]
  BY PositionsSent
<1>2. \A i \in DOMAIN q : q[i].k \in Conns /\ q[i].ev \in {"validation", "disconnection"}
  BY QueuedTyped
<1>3. d[k] = new /\ \A j \in Conns : j # k => d[j] = c[j]
  OBVIOUS
<1> HIDE DEF d, n, r
<1>4. \A i \in DOMAIN q : q[i].k # k
  BY DEF InOrder
<1>5. \A j \in Conns : d[j].open => d[j].used
  BY <1>3 DEF InOrder
<1>6. \A j \in Conns : d[j].used => d[j].open \/ \E i \in DOMAIN r : r[i] = Disconnection(j)
  <2> SUFFICES ASSUME NEW j \in Conns, d[j].used, ~d[j].open
               PROVE  \E i \in DOMAIN r : r[i] = Disconnection(j)
    OBVIOUS
  <2>1. d[j] = c[j]
    BY <1>3
  <2>2. PICK i \in DOMAIN q : q[i] = Disconnection(j)
    BY <2>1 DEF InOrder
  <2>3. i \in DOMAIN r /\ r[i] = q[i]
    BY <1>1
  <2>4. QED
    BY <2>2, <2>3
<1>7. ASSUME NEW i \in DOMAIN r
      PROVE  /\ d[r[i].k].used
             /\ r[i].ev = "validation" => ~d[r[i].k].app
             /\ r[i].ev = "disconnection" => r[i] = Disconnection(r[i].k) /\ ~d[r[i].k].open
  <2>1. CASE i \in DOMAIN q
    BY <1>1, <1>2, <1>3, <1>4, <2>1 DEF InOrder
  <2>2. CASE i = n
    BY <1>1, <1>3, <2>2
  <2>3. QED
    BY <1>1, <2>1, <2>2
<1>8. ASSUME NEW i \in DOMAIN r, NEW j \in DOMAIN r, i < j, r[i].k = r[j].k
      PROVE  r[i].ev = "validation" /\ r[j].ev = "disconnection"
  <2>1. i \in DOMAIN q
    BY <1>1, <1>8
  <2>2. j \in DOMAIN q
    BY <1>1, <1>4, <1>8, <2>1
  <2>3. QED
    BY <1>1, <1>8, <2>1, <2>2 DEF InOrder
<1>9. QED
  BY <1>1, <1>5, <1>6, <1>7, <1>8 DEF InOrder, d

(* The associations of a front end name sockets of their users. *)
Names(a, c) ==
  \A u \in Users : a[u] # 0 =>
    a[u] \in Conns /\ c[a[u]].used /\ c[a[u]].app /\ c[a[u]].u = u

(* They still do when one is erased and when sockets are shut. *)
LEMMA NamesKept ==
  ASSUME NEW a \in [Users -> Nat], NEW c \in [Conns -> Conn], Names(a, c),
         NEW b, \A u \in Users : b[u] \in {0, a[u]}, NEW k
  PROVE  Names(b, Shut(c, {k})) /\ Names(b, c)
<1>1. \A j \in Conns : /\ Shut(c, {k})[j].used = c[j].used /\ Shut(c, {k})[j].app = c[j].app
                       /\ Shut(c, {k})[j].u = c[j].u
  BY DEF Shut, Conn
<1>2. ASSUME NEW u \in Users, b[u] # 0
      PROVE  b[u] \in Conns /\ c[b[u]].used /\ c[b[u]].app /\ c[b[u]].u = u
  <2>1. b[u] = a[u]
    BY <1>2
  <2>2. QED
    BY <1>2, <2>1 DEF Names
<1>3. QED
  BY <1>1, <1>2 DEF Names

(* What a front end keeps of its sockets. *)
Sockets(f) == InOrder(events[f], conn[f]) /\ Names(assoc[f], conn[f])

(* The sockets of a front end, typed. *)
LEMMA SocketsTyped ==
  ASSUME FSTyped, NEW f \in Fess
  PROVE  /\ events[f] \in Seq(Event) /\ conn[f] \in [Conns -> Conn] /\ assoc[f] \in [Users -> Nat]
         /\ conn \in [Fess -> [Conns -> Conn]] /\ events \in [Fess -> Seq(Event)]
         /\ assoc \in [Fess -> [Users -> Nat]]
BY DEF FSTyped, FSTypeOK

(* What DisconnectAccount does to them. *)
LEMMA DisconnectAccountIs ==
  ASSUME FSTyped, NEW f \in Fess, NEW u \in Users, DisconnectAccount(f, u)
  PROVE  /\ conn'[f] = Shut(conn[f], {assoc[f][u]})
         /\ events'[f] = Hung(events[f], conn[f], assoc[f][u])
         /\ assoc'[f] = [assoc[f] EXCEPT ![u] = 0]
<1>1. conn'[f] = Closed(f, {assoc[f][u]})
  BY SocketsTyped DEF DisconnectAccount
<1>2. events'[f] = Advertised(f, events[f], assoc[f][u])
  BY SocketsTyped DEF DisconnectAccount
<1>3. assoc'[f] = [assoc[f] EXCEPT ![u] = 0]
  BY SocketsTyped DEF DisconnectAccount
<1>4. QED
  BY <1>1, <1>2, <1>3 DEF Closed, Shut, Advertised, Hung

LEMMA DisconnectAccountKeeps ==
  ASSUME FSTyped, NEW f \in Fess, Sockets(f), NEW u \in Users, DisconnectAccount(f, u)
  PROVE  Sockets(f)'
<1> DEFINE k == assoc[f][u]
<1>1. /\ InOrder(Hung(events[f], conn[f], k), Shut(conn[f], {k}))
      /\ Names([assoc[f] EXCEPT ![u] = 0], Shut(conn[f], {k}))
  BY SocketsTyped, HungInOrder, NamesKept DEF Sockets
<1>2. QED
  BY <1>1, DisconnectAccountIs DEF Sockets

(* The association of u is replaced by j. *)
Becomes(a, u, j) == [a EXCEPT ![u] = j]
(* The user of a socket newly validated is named by it. *)
LEMMA AppNames ==
  ASSUME NEW a \in [Users -> Nat], NEW c \in [Conns -> Conn], Names(a, c),
         NEW j \in Conns, NEW u \in Users, u = c[j].u, c[j].used, ~c[j].app
  PROVE  Names(Becomes(a, u, j), App(c, j)) /\ Becomes(a, u, j) \in [Users -> Nat]
<1> DEFINE b == Becomes(a, u, j)
           d == App(c, j)
<1>1. /\ d[j].app /\ d[j].used = c[j].used /\ d[j].u = c[j].u
      /\ \A i \in Conns : i # j => d[i] = c[i]
  BY AppIs
<1>2. j \in Nat
  BY ConnsOK DEF Conns
<1>3. b \in [Users -> Nat] /\ b[u] = j /\ \A v \in Users : v # u => b[v] = a[v]
  BY <1>2 DEF Becomes
<1> HIDE DEF b, d
<1>4. ASSUME NEW v \in Users, b[v] # 0
      PROVE  b[v] \in Conns /\ d[b[v]].used /\ d[b[v]].app /\ d[b[v]].u = v
  <2>1. CASE v = u
    <3>1. b[v] = j
      BY <1>3, <2>1
    <3>2. QED
      BY <1>1, <2>1, <3>1
  <2>2. CASE v # u
    <3>1. a[v] = b[v]
      BY <1>3, <2>2
    <3>2. a[v] \in Conns /\ c[a[v]].used /\ c[a[v]].app /\ c[a[v]].u = v
      BY <1>4, <3>1 DEF Names
    <3>3. a[v] # j
      BY <3>2
    <3>4. QED
      BY <1>1, <3>1, <3>2, <3>3
  <2>3. QED
    BY <2>1, <2>2
<1>5. QED
  BY <1>3, <1>4 DEF Names, b, d

(* The head of the queue is a validation, the cookie is good: its socket   *)
(* becomes the user's and the socket k the user had is shut.               *)
LEMMA AcceptedInOrder ==
  ASSUME NEW q \in Seq(Event), NEW c \in [Conns -> Conn], InOrder(q, c), q # << >>,
         NEW a \in [Users -> Nat], Names(a, c), Head(q).ev = "validation",
         NEW j \in Conns, j = Head(q).k, NEW u \in Users, u = c[j].u, NEW k
  PROVE  /\ InOrder(Hung(Tail(q), App(c, j), k), Shut(App(c, j), {k}))
         /\ Names(Becomes(a, u, j), Shut(App(c, j), {k}))
<1> DEFINE d == App(c, j)
           b == Becomes(a, u, j)
<1>1. c[j].used /\ ~c[j].app
  BY HeadInOrder
<1>2. /\ d \in [Conns -> Conn]
      /\ \A i \in Conns : /\ d[i].used = c[i].used /\ d[i].open = c[i].open
                          /\ i # j => d[i] = c[i]
  BY AppIs
<1>3. Names(b, d) /\ b \in [Users -> Nat]
  BY <1>1, AppNames
<1> HIDE DEF b, d
<1>4. InOrder(Tail(q), d) /\ Tail(q) \in Seq(Event)
  BY <1>2, ValidatedInOrder
<1>5. \A v \in Users : b[v] \in {0, b[v]}
  OBVIOUS
<1>6. QED
  BY <1>2, <1>3, <1>4, <1>5, HungInOrder, NamesKept DEF b, d

(* What a valid cookie does to them. *)
LEMMA ShardValidationIs ==
  ASSUME FSTyped, NEW f \in Fess, FSShardValidation(f)
  PROVE  LET e == Head(events[f])
             u == conn[f][e.k].u
             c == App(conn[f], e.k)
         IN  /\ events[f] # << >> /\ e.ev = "validation" /\ u \in Users /\ e.k \in Conns
             /\ conn'[f] = Shut(c, {assoc[f][u]})
             /\ events'[f] = Hung(Tail(events[f]), c, assoc[f][u])
             /\ assoc'[f] = Becomes(assoc[f], u, e.k)
<1> DEFINE e == Head(events[f])
           u == conn[f][e.k].u
           k == assoc[f][u]
           c == App(conn[f], e.k)
<1>1. /\ events[f] # << >> /\ e.ev = "validation"
      /\ conn' = [conn EXCEPT ![f] = [Closed(f, {k}) EXCEPT ![e.k].app = TRUE]]
      /\ events' = [events EXCEPT ![f] = Advertised(f, Tail(@), k)]
      /\ assoc' = [assoc EXCEPT ![f][u] = e.k]
  BY DEF FSShardValidation
<1>2. u \in Users /\ e.k \in Conns
  BY <1>1, EventTyped
<1> HIDE DEF e, u, k
<1>3. /\ conn'[f] = [Closed(f, {k}) EXCEPT ![e.k].app = TRUE]
      /\ events'[f] = Advertised(f, Tail(events[f]), k)
      /\ assoc'[f] = [assoc[f] EXCEPT ![u] = e.k]
  BY <1>1, SocketsTyped
<1>4. \A j \in Conns : c[j].open = conn[f][j].open
  BY <1>2, SocketsTyped, AppIs
<1>5. [Closed(f, {k}) EXCEPT ![e.k].app = TRUE] = Shut(c, {k})
  BY <1>2, SocketsTyped DEF Closed, Shut, Conn, App
<1>6. Advertised(f, Tail(events[f]), k) = Hung(Tail(events[f]), c, k)
  <2> HIDE DEF c
  <2> QED
    BY <1>4 DEF Advertised, Hung
<1>7. QED
  BY <1>1, <1>2, <1>3, <1>5, <1>6 DEF e, u, k, Becomes

LEMMA ShardValidationKeeps ==
  ASSUME FSTyped, NEW f \in Fess, Sockets(f), FSShardValidation(f)
  PROVE  Sockets(f)'
<1> DEFINE q == events[f]
           j == Head(q).k
           u == conn[f][j].u
           k == assoc[f][u]
<1>1. /\ q # << >> /\ Head(q).ev = "validation" /\ u \in Users /\ j \in Conns
      /\ conn'[f] = Shut(App(conn[f], j), {k})
      /\ events'[f] = Hung(Tail(q), App(conn[f], j), k)
      /\ assoc'[f] = Becomes(assoc[f], u, j)
  BY ShardValidationIs
<1>2. /\ q \in Seq(Event) /\ conn[f] \in [Conns -> Conn] /\ assoc[f] \in [Users -> Nat]
      /\ InOrder(q, conn[f]) /\ Names(assoc[f], conn[f])
  BY SocketsTyped DEF Sockets
<1>3. j = Head(q).k /\ u = conn[f][j].u
  OBVIOUS
<1> HIDE DEF q, j, u, k
<1>4. /\ InOrder(Hung(Tail(q), App(conn[f], j), k), Shut(App(conn[f], j), {k}))
      /\ Names(Becomes(assoc[f], u, j), Shut(App(conn[f], j), {k}))
  BY <1>1, <1>2, <1>3, AcceptedInOrder
<1>5. QED
  BY <1>1, <1>4 DEF Sockets

(* What any other cookie does to them: the socket refused is not yet       *)
(* anybody's session.                                                      *)
LEMMA InvalidCookieIs ==
  ASSUME FSTyped, NEW f \in Fess, Sockets(f), FSInvalidCookie(f)
  PROVE  LET e == Head(events[f])
             u == conn[f][e.k].u
             k == assoc[f][u]
             c == Shut(conn[f], {k})
         IN  /\ events[f] # << >> /\ e.ev = "validation" /\ u \in Users /\ e.k \in Conns
             /\ conn'[f] = Shut(c, {e.k})
             /\ events'[f] = Hung(Hung(Tail(events[f]), conn[f], k), c, e.k)
             /\ assoc'[f] = [assoc[f] EXCEPT ![u] = 0]
<1> DEFINE e == Head(events[f])
           u == conn[f][e.k].u
           k == assoc[f][u]
           c == Shut(conn[f], {k})
<1>1. /\ events[f] # << >> /\ e.ev = "validation"
      /\ conn' = [conn EXCEPT ![f] = Closed(f, {k, e.k})]
      /\ events' = [events EXCEPT ![f] = Advertised(f, Advertised(f, Tail(@), k), e.k)]
      /\ assoc' = [assoc EXCEPT ![f][u] = 0]
  BY DEF FSInvalidCookie
<1>2. u \in Users /\ e.k \in Conns
  BY <1>1, EventTyped
<1>3. k # e.k
  <2>1. ~conn[f][e.k].app /\ e.k # 0
    BY <1>1, SocketsTyped, HeadInOrder DEF Sockets
  <2>2. k # 0 => conn[f][k].app
    BY <1>2 DEF Sockets, Names
  <2> HIDE DEF e, k
  <2>3. QED
    BY <2>1, <2>2
<1> HIDE DEF e, u, k
<1>4. /\ conn'[f] = Closed(f, {k, e.k})
      /\ events'[f] = Advertised(f, Advertised(f, Tail(events[f]), k), e.k)
      /\ assoc'[f] = [assoc[f] EXCEPT ![u] = 0]
  BY <1>1, SocketsTyped
<1>5. Closed(f, {k, e.k}) = Shut(c, {e.k}) /\ c[e.k].open = conn[f][e.k].open
  BY <1>2, <1>3, SocketsTyped DEF Closed, Shut, Conn
<1>6. Advertised(f, Advertised(f, Tail(events[f]), k), e.k)
        = Hung(Hung(Tail(events[f]), conn[f], k), c, e.k)
  <2> HIDE DEF c
  <2> QED
    BY <1>5 DEF Advertised, Hung
<1>7. QED
  BY <1>1, <1>2, <1>4, <1>5, <1>6 DEF e, u, k

LEMMA InvalidCookieKeeps ==
  ASSUME FSTyped, NEW f \in Fess, Sockets(f), FSInvalidCookie(f)
  PROVE  Sockets(f)'
<1> DEFINE q == events[f]
           e == Head(q)
           u == conn[f][e.k].u
           k == assoc[f][u]
           c == Shut(conn[f], {k})
           r == Hung(Tail(q), conn[f], k)
           b == [assoc[f] EXCEPT ![u] = 0]
<1>1. /\ q # << >> /\ e.ev = "validation" /\ u \in Users /\ e.k \in Conns
      /\ conn'[f] = Shut(c, {e.k}) /\ events'[f] = Hung(r, c, e.k) /\ assoc'[f] = b
  BY InvalidCookieIs
<1>2. InOrder(Tail(q), conn[f]) /\ Tail(q) \in Seq(Event)
  BY <1>1, SocketsTyped, ValidatedInOrder DEF Sockets
<1>3. InOrder(r, c) /\ c \in [Conns -> Conn] /\ r \in Seq(Event)
  BY <1>2, SocketsTyped, HungInOrder
<1>4. Names(b, c) /\ b \in [Users -> Nat]
  BY <1>1, SocketsTyped, NamesKept DEF Sockets
<1> HIDE DEF b, c, r, q
<1>5. InOrder(Hung(r, c, e.k), Shut(c, {e.k})) /\ Names(b, Shut(c, {e.k}))
  BY <1>3, <1>4, HungInOrder, NamesKept
<1>6. QED
  BY <1>1, <1>5 DEF Sockets

(* The head of the queue is a disconnection: its socket, which may have    *)
(* been the user's, is free.                                               *)
LEMMA DisconnectedKeeps ==
  ASSUME FSTyped, NEW f \in Fess, Sockets(f), FSDisconnected(f)
  PROVE  Sockets(f)'
<1> DEFINE q == events[f]
           k == Head(q).k
           c == conn[f]
           u == c[k].u
           d == [c EXCEPT ![k] = FreeConn]
           a == assoc[f]
           b == IF c[k].app THEN [a EXCEPT ![u] = 0] ELSE a
<1>1. /\ q # << >> /\ Head(q).ev = "disconnection"
      /\ conn' = [conn EXCEPT ![f][k] = FreeConn]
      /\ events' = [events EXCEPT ![f] = Tail(@)]
      /\ assoc' = IF c[k].app THEN [assoc EXCEPT ![f][u] = 0] ELSE assoc
  BY DEF FSDisconnected, Reported
<1>2. /\ q \in Seq(Event) /\ c \in [Conns -> Conn] /\ a \in [Users -> Nat]
      /\ InOrder(q, c) /\ Names(a, c)
  BY SocketsTyped DEF Sockets
<1>3. k \in Conns /\ u \in Users
  BY <1>1, EventTyped
<1>4. conn'[f] = d /\ events'[f] = Tail(q) /\ assoc'[f] = b
  <2> HIDE DEF k, u
  <2> QED
    BY <1>1, SocketsTyped
<1>5. k = Head(q).k /\ d = [c EXCEPT ![Head(q).k] = FreeConn] /\ u = c[k].u
  OBVIOUS
<1>6. \A v \in Users : v # u => b[v] = a[v]
  <2> HIDE DEF k, u
  <2> QED
    BY <1>2
<1>7. b[u] = IF c[k].app THEN 0 ELSE a[u]
  <2> HIDE DEF k, u
  <2> QED
    BY <1>2, <1>3
<1>8. \A j \in Conns : j # k => d[j] = c[j]
  <2> HIDE DEF k
  <2> QED
    BY <1>2
<1> HIDE DEF q, k, c, u, d, a, b
<1>9. InOrder(Tail(q), d)
  BY <1>1, <1>2, <1>5, FreedInOrder
<1>10. ASSUME NEW v \in Users, b[v] # 0
       PROVE  b[v] \in Conns /\ d[b[v]].used /\ d[b[v]].app /\ d[b[v]].u = v
  <2>1. b[v] = a[v]
    BY <1>6, <1>7, <1>10
  <2>2. a[v] \in Conns /\ c[a[v]].used /\ c[a[v]].app /\ c[a[v]].u = v
    BY <1>2, <1>10, <2>1 DEF Names
  <2>3. a[v] # k
    <3> SUFFICES ASSUME a[v] = k PROVE FALSE
      OBVIOUS
    <3>1. v = u /\ c[k].app
      BY <1>5, <2>2
    <3>2. QED
      BY <1>7, <1>10, <3>1
  <2>4. QED
    BY <1>8, <2>1, <2>2, <2>3
<1>11. QED
  BY <1>4, <1>9, <1>10 DEF Sockets, Names

(* M_ENTER__SHARD and requests and answers to change shard set flags the   *)
(* queue and the associations do not speak of.                             *)
LEMMA FlagsKeep ==
  ASSUME FSTyped, NEW f \in Fess, Sockets(f), events'[f] = events[f], assoc'[f] = assoc[f],
         \A k \in Conns : /\ conn'[f][k].used = conn[f][k].used
                          /\ conn'[f][k].open = conn[f][k].open
                          /\ conn'[f][k].app = conn[f][k].app
                          /\ conn'[f][k].u = conn[f][k].u
  PROVE  Sockets(f)'
<1>1. InOrder(events[f], conn'[f])
  <2> DEFINE q == events[f]
             c == conn[f]
             d == conn'[f]
  <2>1. q \in Seq(Event) /\ c \in [Conns -> Conn] /\ InOrder(q, c)
    BY SocketsTyped DEF Sockets
  <2>2. \A k \in Conns : /\ d[k].used = c[k].used /\ d[k].open = c[k].open
                         /\ d[k].app = c[k].app
    OBVIOUS
  <2> HIDE DEF q, c, d
  <2>3. InOrder(q, d)
    BY <2>1, <2>2, FlagsInOrder
  <2>4. QED
    BY <2>3 DEF q, d
<1>2. Names(assoc[f], conn'[f])
  BY DEF Sockets, Names
<1>3. QED
  BY <1>1, <1>2 DEF Sockets

(* A client connects, and closes. *)
LEMMA ClientConnectKeeps ==
  ASSUME FSTyped, NEW f \in Fess, Sockets(f), NEW u \in Users, ClientConnect(u)
  PROVE  Sockets(f)'
<1>1. PICK o \in offers[u], k \in Conns :
        /\ ~conn[o.f][k].used
        /\ conn' = [conn EXCEPT ![o.f][k] =
             [FreeConn EXCEPT !.u = u, !.used = TRUE, !.open = TRUE]]
        /\ events' = [events EXCEPT ![o.f] =
             Append(@, [ev |-> "validation", k |-> k, ck |-> o.ck])]
  BY DEF ClientConnect
<1>2. assoc' = assoc
  BY DEF ClientConnect
<1> DEFINE new == [FreeConn EXCEPT !.u = u, !.used = TRUE, !.open = TRUE]
           e == [ev |-> "validation", k |-> k, ck |-> o.ck]
<1>3. o.f \in Fess /\ o.ck \in Cookie
  BY DEF FSTyped, FSTypeOK, Offer
<1>4. new \in Conn /\ new.used /\ new.open /\ ~new.app
  BY FSNulls DEF FreeConn, Conn
<1>5. e \in Event /\ e.ev = "validation" /\ e.k = k
  BY <1>3 DEF Event
<1> HIDE DEF new, e
<1>6. CASE o.f = f
  <2>1. conn'[f] = [conn[f] EXCEPT ![k] = new] /\ events'[f] = Append(events[f], e)
    BY <1>1, <1>6, SocketsTyped DEF new, e
  <2>2. InOrder(Append(events[f], e), [conn[f] EXCEPT ![k] = new])
    BY <1>1, <1>4, <1>5, <1>6, SocketsTyped, ConnectedInOrder DEF Sockets
  <2>3. Names(assoc[f], [conn[f] EXCEPT ![k] = new])
    <3>1. \A j \in Conns : j # k => [conn[f] EXCEPT ![k] = new][j] = conn[f][j]
      BY SocketsTyped
    <3>2. ~conn[f][k].used
      BY <1>1, <1>6
    <3>3. QED
      BY <3>1, <3>2 DEF Sockets, Names
  <2>4. QED
    BY <1>2, <2>1, <2>2, <2>3 DEF Sockets
<1>7. CASE o.f # f
  <2>1. conn'[f] = conn[f] /\ events'[f] = events[f]
    BY <1>1, <1>3, <1>7, SocketsTyped
  <2>2. QED
    BY <1>2, <2>1 DEF Sockets
<1>8. QED
  BY <1>6, <1>7

LEMMA ClientCloseKeeps ==
  ASSUME FSTyped, NEW f \in Fess, Sockets(f), NEW k \in Conns, ClientClose(f, k)
  PROVE  Sockets(f)'
<1>1. /\ conn[f][k].open /\ assoc' = assoc
      /\ conn'[f] = Closed(f, {k}) /\ events'[f] = Advertised(f, events[f], k)
  BY SocketsTyped DEF ClientClose
<1>2. conn'[f] = Shut(conn[f], {k}) /\ events'[f] = Hung(events[f], conn[f], k)
  BY <1>1 DEF Closed, Shut, Advertised, Hung
<1>3. InOrder(Hung(events[f], conn[f], k), Shut(conn[f], {k})) /\ Names(assoc[f], Shut(conn[f], {k}))
  <2>1. \A u \in Users : assoc[f][u] \in {0, assoc[f][u]}
    OBVIOUS
  <2>2. QED
    BY <2>1, SocketsTyped, HungInOrder, NamesKept DEF Sockets
<1>4. QED
  BY <1>1, <1>2, <1>3 DEF Sockets

(* A front end has its own sockets: a step of another one leaves these.    *)
LEMMA OtherSockets ==
  ASSUME FSTyped, NEW f \in Fess, NEW g \in Fess \ {f},
         \/ FSChooseShard(g) \/ FSDisconnectClient(g) \/ FSEnterShardOk(g)
         \/ FSChangeShardAns(g) \/ FSShardValidation(g) \/ FSInvalidCookie(g)
         \/ FSDisconnected(g) \/ FSRefreshPending(g)
         \/ \E k \in Conns : ClientClose(g, k) \/ FSChangeShardReq(g, k)
  PROVE  conn'[f] = conn[f] /\ events'[f] = events[f] /\ assoc'[f] = assoc[f]
<1>1. CASE FSChooseShard(g) \/ FSDisconnectClient(g)
  BY <1>1, SocketsTyped DEF FSChooseShard, FSDisconnectClient, DisconnectAccount
<1>2. CASE FSEnterShardOk(g)
  BY <1>2, SocketsTyped DEF FSEnterShardOk
<1>3. CASE FSChangeShardAns(g)
  BY <1>3, SocketsTyped DEF FSChangeShardAns
<1>4. CASE FSShardValidation(g)
  BY <1>4, SocketsTyped DEF FSShardValidation
<1>5. CASE FSInvalidCookie(g)
  BY <1>5, SocketsTyped DEF FSInvalidCookie
<1>6. CASE FSDisconnected(g)
  BY <1>6, SocketsTyped DEF FSDisconnected
<1>7. CASE FSRefreshPending(g)
  BY <1>7 DEF FSRefreshPending
<1>8. CASE \E k \in Conns : ClientClose(g, k)
  BY <1>8, SocketsTyped DEF ClientClose
<1>9. CASE \E k \in Conns : FSChangeShardReq(g, k)
  BY <1>9, SocketsTyped DEF FSChangeShardReq
<1>10. QED
  BY <1>1, <1>2, <1>3, <1>4, <1>5, <1>6, <1>7, <1>8, <1>9

(* No step of a front end or of a client spoils what a front end keeps of  *)
(* its sockets.                                                            *)
LEMMA FESKeepsSockets ==
  ASSUME FSTyped, NEW f \in Fess, Sockets(f),
         \/ FSNext
         \/ \E u \in Users : ClientConnect(u)
         \/ \E g \in Fess, k \in Conns : ClientClose(g, k) \/ FSChangeShardReq(g, k)
  PROVE  Sockets(f)'
<1>1. CASE FSChooseShard(f) \/ FSDisconnectClient(f)
  <2>1. PICK u : DisconnectAccount(f, u) /\ u = Head(net[<<ShardOf[f], f>>]).u
    BY <1>1 DEF FSChooseShard, FSDisconnectClient
  <2>2. u \in Users
    BY <1>1, <2>1, FSHeadTyped DEF FSChooseShard, FSDisconnectClient
  <2>3. QED
    BY <2>1, <2>2, DisconnectAccountKeeps
<1>2. CASE FSEnterShardOk(f)
  <2> DEFINE k == assoc[f][Head(net[<<ShardOf[f], f>>]).u]
  <2>1. /\ UNCHANGED <<assoc, events>>
        /\ conn' = IF k = 0 THEN conn ELSE [conn EXCEPT ![f][k].entered = conn[f][k].open]
    BY <1>2 DEF FSEnterShardOk
  <2> HIDE DEF k
  <2>2. \A j \in Conns : /\ conn'[f][j].used = conn[f][j].used /\ conn'[f][j].open = conn[f][j].open
                         /\ conn'[f][j].app = conn[f][j].app /\ conn'[f][j].u = conn[f][j].u
    BY <2>1, SocketsTyped DEF Conn
  <2>3. QED
    BY <2>1, <2>2, FlagsKeep
<1>3. CASE FSChangeShardAns(f)
  <2>1. PICK K \in SUBSET Conns :
          conn' = [conn EXCEPT ![f] = [j \in Conns |->
                     IF j \in K THEN [@[j] EXCEPT !.asked = FALSE] ELSE @[j]]]
    BY <1>3 DEF FSChangeShardAns
  <2>2. UNCHANGED <<assoc, events>>
    BY <1>3 DEF FSChangeShardAns
  <2>3. \A j \in Conns : /\ conn'[f][j].used = conn[f][j].used /\ conn'[f][j].open = conn[f][j].open
                         /\ conn'[f][j].app = conn[f][j].app /\ conn'[f][j].u = conn[f][j].u
    BY <2>1, SocketsTyped DEF Conn
  <2>4. QED
    BY <2>2, <2>3, FlagsKeep
<1>4. CASE FSRefreshPending(f)
  BY <1>4, FlagsKeep DEF FSRefreshPending
<1>5. ASSUME NEW k \in Conns, FSChangeShardReq(f, k)
      PROVE  Sockets(f)'
  <2>1. conn' = [conn EXCEPT ![f][k].asked = TRUE] /\ UNCHANGED <<assoc, events>>
    BY <1>5 DEF FSChangeShardReq
  <2>2. \A j \in Conns : /\ conn'[f][j].used = conn[f][j].used /\ conn'[f][j].open = conn[f][j].open
                         /\ conn'[f][j].app = conn[f][j].app /\ conn'[f][j].u = conn[f][j].u
    BY <2>1, SocketsTyped DEF Conn
  <2>3. QED
    BY <2>1, <2>2, FlagsKeep
<1>6. ASSUME NEW g \in Fess \ {f},
             \/ FSChooseShard(g) \/ FSDisconnectClient(g) \/ FSEnterShardOk(g)
             \/ FSChangeShardAns(g) \/ FSShardValidation(g) \/ FSInvalidCookie(g)
             \/ FSDisconnected(g) \/ FSRefreshPending(g)
             \/ \E k \in Conns : ClientClose(g, k) \/ FSChangeShardReq(g, k)
      PROVE  Sockets(f)'
  BY <1>6, OtherSockets DEF Sockets
<1>7. CASE FSNext
  <2>1. PICK g \in Fess :
          \/ FSChooseShard(g) \/ FSDisconnectClient(g) \/ FSEnterShardOk(g)
          \/ FSChangeShardAns(g) \/ FSShardValidation(g) \/ FSInvalidCookie(g)
          \/ FSDisconnected(g) \/ FSRefreshPending(g)
    BY <1>7 DEF FSNext
  <2>2. CASE g = f
    BY <1>1, <1>2, <1>3, <1>4, <2>1, <2>2, ShardValidationKeeps, InvalidCookieKeeps,
       DisconnectedKeeps
  <2>3. CASE g # f
    BY <1>6, <2>1, <2>3
  <2>4. QED
    BY <2>2, <2>3
<1>8. CASE \E u \in Users : ClientConnect(u)
  BY <1>8, ClientConnectKeeps
<1>9. CASE \E g \in Fess, k \in Conns : ClientClose(g, k) \/ FSChangeShardReq(g, k)
  BY <1>5, <1>6, <1>9, ClientCloseKeeps
<1>10. QED
  BY <1>7, <1>8, <1>9

(* At the start there is nothing to keep. *)
LEMMA SocketsInit ==
  ASSUME FSInit, NEW f \in Fess
  PROVE  Sockets(f)
<1>1. events[f] = << >> /\ conn[f] = [k \in Conns |-> FreeConn] /\ assoc[f] = [u \in Users |-> 0]
  BY DEF FSInit
<1>2. ~FreeConn.used /\ ~FreeConn.open
  BY DEF FreeConn
<1>3. DOMAIN events[f] = {}
  BY <1>1
<1>4. InOrder(events[f], conn[f])
  BY <1>1, <1>2, <1>3 DEF InOrder
<1>5. QED
  BY <1>1, <1>4 DEF Sockets, Names

(* The life of a socket in the queue shows where its association stands. *)
LEMMA SocketsName ==
  ASSUME \A f \in Fess : Sockets(f)
  PROVE  AssociationsName
BY DEF AssociationsName, Sockets, Names, InOrder

-----------------------------------------------------------------------------
(* A session that ends                                                     *)
(*                                                                         *)
(* A session is lost by a front end either as it reports it or with the    *)
(* disconnection of its socket queued: the report is still to come.        *)

EndsIn(q, c, u) ==
  \E i \in DOMAIN q, k \in Conns : q[i] = Disconnection(k) /\ c[k].app /\ c[k].u = u
Ends(f, u) == EndsIn(events[f], conn[f], u)

(* A socket is shut: what ends still does. *)
LEMMA EndsHung ==
  ASSUME NEW q \in Seq(Event), NEW c \in [Conns -> Conn], NEW u, EndsIn(q, c, u), NEW j
  PROVE  EndsIn(Hung(q, c, j), Shut(c, {j}), u)
<1>1. PICK i \in DOMAIN q, k \in Conns : q[i] = Disconnection(k) /\ c[k].app /\ c[k].u = u
  BY DEF EndsIn
<1>2. Shut(c, {j})[k].app /\ Shut(c, {j})[k].u = u
  BY <1>1 DEF Shut, Conn
<1>3. i \in DOMAIN Hung(q, c, j) /\ Hung(q, c, j)[i] = q[i]
  <2>1. CASE j \in Conns /\ c[j].open
    <3> DEFINE e == Disconnection(j)
    <3>1. e \in Event
      BY <2>1, FSNulls DEF Disconnection, Event
    <3>2. Hung(q, c, j) = q \o <<e>>
      BY <2>1, <3>1, PositionsSent DEF Hung
    <3> HIDE DEF e
    <3>3. QED
      BY <3>1, <3>2, PositionsSent
  <2>2. CASE ~(j \in Conns /\ c[j].open)
    BY <2>2 DEF Hung
  <2>3. QED
    BY <2>1, <2>2
<1>4. QED
  BY <1>1, <1>2, <1>3 DEF EndsIn

(* The socket shut is the session itself. *)
LEMMA EndsItself ==
  ASSUME NEW q \in Seq(Event), NEW c \in [Conns -> Conn], InOrder(q, c),
         NEW j \in Conns, c[j].used, c[j].app, NEW u, u = c[j].u
  PROVE  EndsIn(Hung(q, c, j), Shut(c, {j}), u)
<1>1. CASE c[j].open
  <2> DEFINE e == Disconnection(j)
  <2>1. e \in Event
    BY FSNulls DEF Disconnection, Event
  <2>2. Hung(q, c, j) = q \o <<e>>
    BY <1>1, <2>1, PositionsSent DEF Hung
  <2>3. Shut(c, {j})[j].app /\ Shut(c, {j})[j].u = u
    BY DEF Shut, Conn
  <2> DEFINE n == Len(q) + 1
  <2>4. n \in DOMAIN (q \o <<e>>) /\ (q \o <<e>>)[n] = e
    <3> HIDE DEF e
    <3> QED
      BY <2>1, PositionsSent
  <2> HIDE DEF n
  <2>5. QED
    BY <2>2, <2>3, <2>4 DEF EndsIn
<1>2. CASE ~c[j].open
  <2>1. EndsIn(q, c, u)
    BY <1>2 DEF InOrder, EndsIn
  <2>2. QED
    BY <2>1, EndsHung
<1>3. QED
  BY <1>1, <1>2

(* The head of the queue is another event. *)
LEMMA EndsRead ==
  ASSUME NEW q \in Seq(Event), q # << >>, NEW c \in [Conns -> Conn], NEW u, EndsIn(q, c, u),
         \/ Head(q).ev = "validation"
         \/ ~(c[Head(q).k].app /\ c[Head(q).k].u = u)
  PROVE  EndsIn(Tail(q), c, u)
<1>1. PICK i \in DOMAIN q, k \in Conns : q[i] = Disconnection(k) /\ c[k].app /\ c[k].u = u
  BY DEF EndsIn
<1>2. Head(q) = q[1]
  BY PositionsRead
<1>3. i # 1
  BY <1>1, <1>2 DEF Disconnection
<1>4. i - 1 \in DOMAIN Tail(q) /\ Tail(q)[i - 1] = q[i]
  BY <1>3, PositionsRead
<1>5. QED
  BY <1>1, <1>4 DEF EndsIn

(* Sockets that are not the session's change. *)
LEMMA EndsElsewhere ==
  ASSUME NEW q \in Seq(Event), NEW c, NEW d, NEW u, EndsIn(q, c, u),
         \A i \in DOMAIN q, k \in Conns :
           q[i] = Disconnection(k) /\ c[k].app => d[k].app /\ d[k].u = c[k].u
  PROVE  EndsIn(q, d, u)
BY DEF EndsIn

(* More events are queued. *)
LEMMA EndsSent ==
  ASSUME NEW q \in Seq(Event), NEW c, NEW u, EndsIn(q, c, u), NEW e \in Event
  PROVE  EndsIn(Append(q, e), c, u)
<1>1. /\ Append(q, e) = q \o <<e>>
      /\ \A i \in DOMAIN q : i \in DOMAIN (q \o <<e>>) /\ (q \o <<e>>)[i] = q[i]
  BY PositionsSent
<1>2. QED
  BY <1>1 DEF EndsIn

(* A user has a session that is open or ends. *)
Held(f, u) == assoc[f][u] # 0 \/ Ends(f, u)

(* DisconnectAccount ends the session it forgets. *)
LEMMA DisconnectAccountHeld ==
  ASSUME FSTyped, NEW f \in Fess, Sockets(f), NEW v \in Users, DisconnectAccount(f, v),
         NEW u \in Users, Held(f, u)
  PROVE  Held(f, u)'
<1> DEFINE q == events[f]
           c == conn[f]
           a == assoc[f]
           k == a[v]
<1>1. /\ q \in Seq(Event) /\ c \in [Conns -> Conn] /\ a \in [Users -> Nat]
      /\ InOrder(q, c) /\ Names(a, c)
  BY SocketsTyped DEF Sockets
<1>2. conn'[f] = Shut(c, {k}) /\ events'[f] = Hung(q, c, k) /\ assoc'[f] = [a EXCEPT ![v] = 0]
  BY DisconnectAccountIs
<1>3. k # 0 => k \in Conns /\ c[k].used /\ c[k].app /\ v = c[k].u
  BY <1>1 DEF Names
<1>4. a[u] # 0 \/ EndsIn(q, c, u)
  BY DEF Held, Ends
<1> HIDE DEF q, c, a
<1>5. CASE u # v /\ a[u] # 0
  BY <1>1, <1>2, <1>5 DEF Held
<1>6. CASE u = v /\ a[u] # 0
  <2> HIDE DEF k
  <2>1. EndsIn(Hung(q, c, k), Shut(c, {k}), v)
    <3>1. k # 0
      BY <1>6 DEF k
    <3>2. QED
      BY <1>1, <1>3, <3>1, EndsItself
  <2>2. QED
    BY <1>2, <1>6, <2>1 DEF Held, Ends
<1>7. CASE EndsIn(q, c, u)
  <2> HIDE DEF k
  <2>1. EndsIn(Hung(q, c, k), Shut(c, {k}), u)
    BY <1>1, <1>7, EndsHung
  <2>2. QED
    BY <1>2, <2>1 DEF Held, Ends
<1>8. QED
  BY <1>4, <1>5, <1>6, <1>7

(* A cookie that is good starts a session, and ends none of another user.  *)
LEMMA ShardValidationHeld ==
  ASSUME FSTyped, NEW f \in Fess, Sockets(f), FSShardValidation(f), NEW u \in Users
  PROVE  LET v == conn[f][Head(events[f]).k].u
         IN  /\ u = v => assoc'[f][u] # 0
             /\ u # v => assoc'[f][u] = assoc[f][u] /\ (Held(f, u) => Held(f, u)')
<1> DEFINE q == events[f]
           c == conn[f]
           a == assoc[f]
           j == Head(q).k
           v == c[j].u
           k == a[v]
           d == App(c, j)
<1>1. /\ q # << >> /\ Head(q).ev = "validation" /\ v \in Users /\ j \in Conns
      /\ conn'[f] = Shut(d, {k}) /\ events'[f] = Hung(Tail(q), d, k)
      /\ assoc'[f] = Becomes(a, v, j)
  BY ShardValidationIs
<1>2. /\ q \in Seq(Event) /\ Tail(q) \in Seq(Event) /\ c \in [Conns -> Conn]
      /\ a \in [Users -> Nat] /\ j # 0
  <2>1. q \in Seq(Event) /\ c \in [Conns -> Conn] /\ a \in [Users -> Nat]
    BY SocketsTyped
  <2>2. Tail(q) \in Seq(Event)
    BY <1>1, EventTyped
  <2>3. 0 \notin Conns
    BY ConnsOK DEF Conns
  <2> HIDE DEF q, c, a, j
  <2>4. QED
    BY <1>1, <2>1, <2>2, <2>3
<1>3. d \in [Conns -> Conn] /\ d[j].app /\ \A i \in Conns : d[i].u = c[i].u /\ (i # j => d[i] = c[i])
  BY <1>1, <1>2, AppIs
<1> HIDE DEF d, k, j, q, c, a
<1>4. u = v => assoc'[f][u] # 0
  <2> HIDE DEF v
  <2> QED
    BY <1>1, <1>2 DEF Becomes
<1>5. u # v => assoc'[f][u] = a[u]
  <2> HIDE DEF v
  <2> QED
    BY <1>1, <1>2 DEF Becomes
<1>6. ASSUME EndsIn(q, c, u)
      PROVE  EndsIn(Hung(Tail(q), d, k), Shut(d, {k}), u)
  <2>1. EndsIn(Tail(q), c, u)
    BY <1>1, <1>2, <1>6, EndsRead
  <2>2. \A i \in Conns : c[i].app => d[i].app /\ d[i].u = c[i].u
    BY <1>3
  <2>3. EndsIn(Tail(q), d, u)
    BY <1>2, <2>1, <2>2, EndsElsewhere
  <2>4. QED
    BY <1>2, <1>3, <2>3, EndsHung
<1>7. u # v /\ Held(f, u) => Held(f, u)'
  BY <1>1, <1>5, <1>6 DEF Held, Ends, a, c, q
<1>8. QED
  BY <1>4, <1>5, <1>7 DEF v, j, c, q, a

(* Any other cookie ends the session of the user it names. *)
LEMMA InvalidCookieHeld ==
  ASSUME FSTyped, NEW f \in Fess, Sockets(f), FSInvalidCookie(f), NEW u \in Users, Held(f, u)
  PROVE  Held(f, u)'
<1> DEFINE q == events[f]
           c == conn[f]
           a == assoc[f]
           j == Head(q).k
           v == c[j].u
           k == a[v]
           d == Shut(c, {k})
           r == Hung(Tail(q), c, k)
<1>1. /\ q # << >> /\ Head(q).ev = "validation" /\ v \in Users /\ j \in Conns
      /\ conn'[f] = Shut(d, {j}) /\ events'[f] = Hung(r, d, j)
      /\ assoc'[f] = [a EXCEPT ![v] = 0]
  BY InvalidCookieIs
<1>2. /\ q \in Seq(Event) /\ c \in [Conns -> Conn] /\ a \in [Users -> Nat]
      /\ InOrder(q, c) /\ Names(a, c)
  BY SocketsTyped DEF Sockets
<1>3. InOrder(Tail(q), c) /\ Tail(q) \in Seq(Event)
  <2> HIDE DEF q, c
  <2> QED
    BY <1>1, <1>2, ValidatedInOrder
<1>4. d \in [Conns -> Conn] /\ r \in Seq(Event)
  <2> HIDE DEF q, c, k
  <2> QED
    BY <1>2, <1>3, HungInOrder
<1>5. a[v] # 0 => k \in Conns /\ c[k].used /\ c[k].app /\ v = c[k].u
  <2> HIDE DEF v, c, a
  <2> QED
    BY <1>1, <1>2 DEF Names
<1>6. a[u] # 0 \/ EndsIn(q, c, u)
  BY DEF Held, Ends
<1>7. u # v => assoc'[f][u] = a[u]
  <2> HIDE DEF v, a
  <2> QED
    BY <1>1, <1>2
<1>8. a[v] # 0 => EndsIn(r, d, v)
  <2> HIDE DEF v, a, c, q
  <2>1. CASE a[v] = 0
    BY <2>1
  <2>2. CASE a[v] # 0
    <3> HIDE DEF k
    <3>1. EndsIn(Hung(Tail(q), c, k), Shut(c, {k}), v)
      BY <1>2, <1>3, <1>5, <2>2, EndsItself
    <3>2. QED
      BY <3>1
  <2>3. QED
    BY <2>1, <2>2
<1>9. EndsIn(q, c, u) => EndsIn(r, d, u)
  <2> HIDE DEF a, c, q, k
  <2>1. SUFFICES ASSUME EndsIn(q, c, u) PROVE EndsIn(r, d, u)
    OBVIOUS
  <2>2. EndsIn(Tail(q), c, u)
    BY <1>1, <1>2, <2>1, EndsRead
  <2>3. QED
    BY <1>2, <1>3, <2>2, EndsHung
<1> HIDE DEF q, c, a, j, v, k, d, r
<1>10. CASE EndsIn(r, d, u)
  <2>1. EndsIn(Hung(r, d, j), Shut(d, {j}), u)
    BY <1>4, <1>10, EndsHung
  <2>2. QED
    BY <1>1, <2>1 DEF Held, Ends
<1>11. CASE u # v /\ a[u] # 0
  BY <1>7, <1>11 DEF Held
<1>12. QED
  BY <1>6, <1>8, <1>9, <1>10, <1>11

(* A disconnection ends no session but the one it reports. *)
LEMMA DisconnectedHeld ==
  ASSUME FSTyped, NEW f \in Fess, Sockets(f), FSDisconnected(f), NEW u \in Users,
         LET c == conn[f][Head(events[f]).k] IN ~(c.app /\ c.u = u)
  PROVE  assoc'[f][u] = assoc[f][u] /\ (Held(f, u) => Held(f, u)')
<1> DEFINE q == events[f]
           k == Head(q).k
           c == conn[f]
           d == [c EXCEPT ![k] = FreeConn]
<1>1. /\ q # << >> /\ Head(q).ev = "disconnection"
      /\ conn' = [conn EXCEPT ![f][k] = FreeConn]
      /\ events' = [events EXCEPT ![f] = Tail(@)]
      /\ assoc' = IF c[k].app THEN [assoc EXCEPT ![f][c[k].u] = 0] ELSE assoc
  BY DEF FSDisconnected, Reported
<1>2. /\ q \in Seq(Event) /\ c \in [Conns -> Conn] /\ InOrder(q, c)
  BY SocketsTyped DEF Sockets
<1>3. k \in Conns /\ c[k].u \in Users
  BY <1>1, EventTyped
<1>4. conn'[f] = d /\ events'[f] = Tail(q)
  <2> HIDE DEF k
  <2> QED
    BY <1>1, SocketsTyped
<1>5. assoc'[f][u] = assoc[f][u]
  <2> DEFINE v == c[k].u
  <2>1. c[k].app => v # u
    OBVIOUS
  <2>2. v \in Users
    BY <1>3
  <2> HIDE DEF v
  <2>3. CASE c[k].app
    <3>1. assoc' = [assoc EXCEPT ![f][v] = 0]
      BY <1>1, <2>3 DEF v
    <3>2. QED
      BY <2>1, <2>2, <2>3, <3>1, SocketsTyped
  <2>4. CASE ~c[k].app
    BY <1>1, <2>4
  <2>5. QED
    BY <2>3, <2>4
<1>6. k = Head(q).k /\ ~(c[k].app /\ c[k].u = u) /\ d = [c EXCEPT ![Head(q).k] = FreeConn]
  OBVIOUS
<1>7. \A j \in Conns : j # k => d[j] = c[j]
  <2> HIDE DEF k
  <2> QED
    BY <1>2
<1> HIDE DEF q, k, c, d
<1>8. \A i \in DOMAIN Tail(q) : Tail(q)[i].k # k
  BY <1>1, <1>2, <1>6, FreedInOrder
<1>9. ASSUME EndsIn(q, c, u) PROVE EndsIn(Tail(q), d, u)
  <2>1. EndsIn(Tail(q), c, u)
    BY <1>1, <1>2, <1>6, <1>9, EndsRead
  <2>2. PICK i \in DOMAIN Tail(q), j \in Conns :
          Tail(q)[i] = Disconnection(j) /\ c[j].app /\ c[j].u = u
    BY <2>1 DEF EndsIn
  <2>3. j # k
    BY <1>8, <2>2 DEF Disconnection
  <2>4. QED
    BY <1>7, <2>2, <2>3 DEF EndsIn
<1>10. QED
  BY <1>4, <1>5, <1>9 DEF Held, Ends, q, c

(* Clients that connect and close, and flags, end no session untold. *)
LEMMA ClientConnectHeld ==
  ASSUME FSTyped, NEW f \in Fess, Sockets(f), NEW v \in Users, ClientConnect(v),
         NEW u \in Users, Held(f, u)
  PROVE  Held(f, u)'
<1>1. PICK o \in offers[v], k \in Conns :
        /\ ~conn[o.f][k].used
        /\ conn' = [conn EXCEPT ![o.f][k] =
             [FreeConn EXCEPT !.u = v, !.used = TRUE, !.open = TRUE]]
        /\ events' = [events EXCEPT ![o.f] =
             Append(@, [ev |-> "validation", k |-> k, ck |-> o.ck])]
  BY DEF ClientConnect
<1>2. assoc' = assoc
  BY DEF ClientConnect
<1> DEFINE e == [ev |-> "validation", k |-> k, ck |-> o.ck]
<1>3. o.f \in Fess /\ e \in Event
  BY DEF FSTyped, FSTypeOK, Offer, Event
<1>4. events'[f] = events[f] \/ events'[f] = Append(events[f], e)
  <2> HIDE DEF e
  <2> QED
    BY <1>1, <1>3, SocketsTyped DEF e
<1> HIDE DEF e
<1>5. \A j \in Conns : conn[f][j].used => conn'[f][j] = conn[f][j]
  BY <1>1, <1>3, SocketsTyped
<1>6. CASE Ends(f, u)
  <2>1. ASSUME NEW i \in DOMAIN events[f], NEW j \in Conns, events[f][i] = Disconnection(j)
        PROVE  conn'[f][j] = conn[f][j]
    <3>1. events[f][i].k = j
      BY <2>1 DEF Disconnection
    <3>2. conn[f][j].used
      BY <3>1 DEF Sockets, InOrder
    <3>3. QED
      BY <1>5, <3>2
  <2>2. EndsIn(events[f], conn'[f], u)
    BY <1>6, <2>1 DEF Ends, EndsIn
  <2>3. EndsIn(events'[f], conn'[f], u)
    <3> DEFINE q == events[f]
               d == conn'[f]
    <3>1. q \in Seq(Event)
      BY SocketsTyped
    <3> HIDE DEF q, d
    <3>2. EndsIn(Append(q, e), d, u)
      BY <1>3, <2>2, <3>1, EndsSent DEF q, d
    <3>3. QED
      BY <1>4, <2>2, <3>2 DEF q, d
  <2>4. QED
    BY <2>3 DEF Held, Ends
<1>7. QED
  BY <1>2, <1>6 DEF Held

LEMMA ClientCloseHeld ==
  ASSUME FSTyped, NEW f \in Fess, NEW k \in Conns, ClientClose(f, k),
         NEW u \in Users, Held(f, u)
  PROVE  Held(f, u)'
<1> DEFINE q == events[f]
           c == conn[f]
<1>1. assoc' = assoc /\ conn'[f] = Closed(f, {k}) /\ events'[f] = Advertised(f, q, k)
  BY SocketsTyped DEF ClientClose
<1>2. conn'[f] = Shut(c, {k}) /\ events'[f] = Hung(q, c, k)
  BY <1>1 DEF Closed, Shut, Advertised, Hung
<1>3. q \in Seq(Event) /\ c \in [Conns -> Conn]
  BY SocketsTyped
<1> HIDE DEF q, c
<1>4. EndsIn(q, c, u) => EndsIn(Hung(q, c, k), Shut(c, {k}), u)
  BY <1>3, EndsHung
<1>5. QED
  BY <1>1, <1>2, <1>4 DEF Held, Ends, q, c

LEMMA FlagsHeld ==
  ASSUME FSTyped, NEW f \in Fess, events'[f] = events[f], assoc'[f] = assoc[f],
         \A k \in Conns : conn'[f][k].app = conn[f][k].app /\ conn'[f][k].u = conn[f][k].u,
         NEW u \in Users, Held(f, u)
  PROVE  Held(f, u)'
BY DEF Held, Ends, EndsIn

-----------------------------------------------------------------------------
(* A front end has at most one session of a user.                          *)
(*                                                                         *)
(* The disconnection of a socket erases its user's association, whosever   *)
(* socket that is by then. So while the disconnection of a validated       *)
(* socket is queued no other socket becomes the association: no cookie     *)
(* that would be accepted is queued ahead of it.                           *)

(* The event i of the queue shows a cookie that waits. *)
Good(q, c, p, i) == q[i].ev = "validation" /\ [u |-> c[q[i].k].u, ck |-> q[i].ck] \in p
(* The event j of the queue ends a validated socket. *)
Ending(q, c, j) == q[j].ev = "disconnection" /\ c[q[j].k].app

Alone(q, c, a, p) ==
  /\ \A k \in Conns : c[k].open /\ c[k].app => a[c[k].u] = k
  /\ \A j \in DOMAIN q : Ending(q, c, j) =>
       /\ a[c[q[j].k].u] \in {0, q[j].k}
       /\ \A i \in DOMAIN q : i < j /\ c[q[i].k].u = c[q[j].k].u => ~Good(q, c, p, i)

(* What a queue with one more event holds. *)
LEMMA HungIs ==
  ASSUME NEW q \in Seq(Event), NEW c \in [Conns -> Conn], NEW k \in Conns, c[k].open
  PROVE  LET r == Hung(q, c, k)
             n == Len(q) + 1
         IN  /\ n \in Nat /\ DOMAIN q = 1..(n - 1) /\ DOMAIN r = 1..n /\ r[n] = Disconnection(k)
             /\ r[n].k = k /\ r[n].ev = "disconnection"
             /\ \A i \in DOMAIN q : r[i] = q[i]
<1> DEFINE e == Disconnection(k)
<1>1. e \in Event /\ e.k = k /\ e.ev = "disconnection"
  BY FSNulls DEF Disconnection, Event
<1>2. Hung(q, c, k) = Append(q, e)
  BY DEF Hung
<1> HIDE DEF e
<1>3. QED
  BY <1>1, <1>2, PositionsSent DEF e

(* A socket is shut, and associations are erased, but none of an open      *)
(* socket other than it.                                                   *)
LEMMA HungAlone ==
  ASSUME NEW q \in Seq(Event), NEW c \in [Conns -> Conn], NEW a, NEW p, Alone(q, c, a, p),
         NEW b, \A u \in Users : b[u] \in {0, a[u]}, NEW k,
         \A j \in Conns \ {k} : c[j].open /\ c[j].app => b[c[j].u] = a[c[j].u],
         k \in Conns /\ c[k].open /\ c[k].app => \A ck : [u |-> c[k].u, ck |-> ck] \notin p
  PROVE  Alone(Hung(q, c, k), Shut(c, {k}), b, p)
<1> DEFINE d == Shut(c, {k})
           r == Hung(q, c, k)
<1>1. \A i \in DOMAIN q : q[i].k \in Conns /\ q[i].ev \in {"validation", "disconnection"}
  BY QueuedTyped
<1>2. \A j \in Conns : /\ c[j].u \in Users /\ d[j].u = c[j].u /\ d[j].app = c[j].app
                       /\ d[j].open <=> c[j].open /\ j # k
  BY DEF Shut, Conn
<1>3. CASE ~(k \in Conns /\ c[k].open)
  <2>1. r = q
    BY <1>3 DEF Hung
  <2> HIDE DEF d, r
  <2>2. \A i \in DOMAIN q : d[q[i].k].u = c[q[i].k].u /\ d[q[i].k].app = c[q[i].k].app
    BY <1>1, <1>2
  <2>3. ASSUME NEW j \in DOMAIN q, Ending(q, d, j)
        PROVE  /\ b[d[q[j].k].u] \in {0, q[j].k}
               /\ \A i \in DOMAIN q : i < j /\ d[q[i].k].u = d[q[j].k].u => ~Good(q, d, p, i)
    <3>1. Ending(q, c, j)
      BY <2>2, <2>3 DEF Ending
    <3>2. b[c[q[j].k].u] \in {0, q[j].k}
      BY <1>1, <1>2, <3>1 DEF Alone
    <3>3. \A i \in DOMAIN q : Good(q, d, p, i) <=> Good(q, c, p, i)
      BY <2>2 DEF Good
    <3>4. QED
      BY <2>2, <3>1, <3>2, <3>3 DEF Alone
  <2>4. \A j \in Conns : d[j].open /\ d[j].app => b[d[j].u] = j
    BY <1>2, <1>3 DEF Alone
  <2>5. Alone(q, d, b, p)
    BY <2>3, <2>4 DEF Alone
  <2>6. QED
    BY <2>1, <2>5 DEF d, r
<1>4. CASE k \in Conns /\ c[k].open
  <2> DEFINE n == Len(q) + 1
  <2>1. /\ n \in Nat /\ DOMAIN q = 1..(n - 1) /\ DOMAIN r = 1..n
        /\ r[n].k = k /\ r[n].ev = "disconnection"
        /\ \A i \in DOMAIN q : r[i] = q[i]
    BY <1>4, HungIs
  <2> HIDE DEF d, r, n
  <2>2. ASSUME NEW j \in Conns, d[j].open, d[j].app
        PROVE  b[d[j].u] = j
    BY <1>2, <2>2 DEF Alone
  <2>3. ASSUME NEW j \in DOMAIN r, Ending(r, d, j)
        PROVE  /\ b[d[r[j].k].u] \in {0, r[j].k}
               /\ \A i \in DOMAIN r : i < j /\ d[r[i].k].u = d[r[j].k].u => ~Good(r, d, p, i)
    <3>1. CASE j \in DOMAIN q
      <4>1. r[j] = q[j] /\ q[j].k \in Conns
        BY <1>1, <2>1, <3>1
      <4>2. Ending(q, c, j)
        BY <1>2, <2>3, <4>1 DEF Ending
      <4>3. b[d[r[j].k].u] \in {0, r[j].k}
        BY <1>2, <3>1, <4>1, <4>2 DEF Alone
      <4>4. ASSUME NEW i \in DOMAIN r, i < j, d[r[i].k].u = d[r[j].k].u
            PROVE  ~Good(r, d, p, i)
        <5>1. i \in DOMAIN q
          BY <2>1, <3>1, <4>4
        <5>2. r[i] = q[i] /\ q[i].k \in Conns
          BY <1>1, <2>1, <5>1
        <5>3. ~Good(q, c, p, i)
          BY <1>2, <3>1, <4>1, <4>2, <4>4, <5>1, <5>2 DEF Alone
        <5>4. QED
          BY <1>2, <5>2, <5>3 DEF Good
      <4>5. QED
        BY <4>3, <4>4
    <3>2. CASE j = n
      <4>1. c[k].app /\ r[j].k = k /\ d[k].u = c[k].u
        BY <1>2, <1>4, <2>1, <2>3, <3>2 DEF Ending
      <4>2. a[c[k].u] = k
        BY <1>4, <4>1 DEF Alone
      <4>3. ASSUME NEW i, d[r[i].k].u = d[r[j].k].u
            PROVE  ~Good(r, d, p, i)
        BY <1>4, <4>1, <4>3 DEF Good
      <4>4. QED
        BY <1>2, <1>4, <4>1, <4>2, <4>3
    <3>3. QED
      BY <2>1, <3>1, <3>2
  <2>4. QED
    BY <2>2, <2>3 DEF Alone, d, r
<1>5. QED
  BY <1>3, <1>4

(* The cookies of a front end change, and none waits that the queue shows  *)
(* and that did not wait before.                                           *)
LEMMA CookiesAlone ==
  ASSUME NEW q, NEW c, NEW a, NEW p, Alone(q, c, a, p), NEW r,
         \A i \in DOMAIN q : Good(q, c, r, i) => Good(q, c, p, i)
  PROVE  Alone(q, c, a, r)
BY DEF Alone

(* Flags that say nothing of it. *)
LEMMA FlagsAlone ==
  ASSUME NEW q \in Seq(Event), NEW c, NEW a, NEW p, Alone(q, c, a, p), NEW d,
         \A k \in Conns : d[k].u = c[k].u /\ d[k].open = c[k].open /\ d[k].app = c[k].app
  PROVE  Alone(q, d, a, p)
<1>1. \A i \in DOMAIN q : q[i].k \in Conns
  BY QueuedTyped
<1>2. QED
  BY <1>1 DEF Alone, Ending, Good

(* The head of the queue is gone. *)
LEMMA ReadAlone ==
  ASSUME NEW q \in Seq(Event), q # << >>, NEW c, NEW a, NEW p, Alone(q, c, a, p)
  PROVE  Alone(Tail(q), c, a, p)
<1> DEFINE r == Tail(q)
<1>1. /\ DOMAIN q = 1..Len(q) /\ Len(q) \in Nat /\ DOMAIN r = 1..(Len(q) - 1)
      /\ \A i \in DOMAIN r : i + 1 \in DOMAIN q /\ r[i] = q[i + 1]
  BY PositionsRead
<1> HIDE DEF r
<1>2. ASSUME NEW j \in DOMAIN r, Ending(r, c, j)
      PROVE  /\ a[c[r[j].k].u] \in {0, r[j].k}
             /\ \A i \in DOMAIN r : i < j /\ c[r[i].k].u = c[r[j].k].u => ~Good(r, c, p, i)
  <2>1. j + 1 \in DOMAIN q /\ r[j] = q[j + 1] /\ Ending(q, c, j + 1)
    BY <1>1, <1>2 DEF Ending
  <2>2. ASSUME NEW i \in DOMAIN r, i < j, c[r[i].k].u = c[r[j].k].u
        PROVE  ~Good(r, c, p, i)
    <3>1. i + 1 \in DOMAIN q /\ r[i] = q[i + 1] /\ i + 1 < j + 1
      BY <1>1, <2>2
    <3>2. ~Good(q, c, p, i + 1)
      BY <2>1, <2>2, <3>1 DEF Alone
    <3>3. QED
      BY <3>1, <3>2 DEF Good
  <2>3. QED
    BY <2>1, <2>2 DEF Alone
<1>3. QED
  BY <1>2 DEF Alone, r

(* The head of the queue is a disconnection: its socket is free, and the   *)
(* association of its user is erased if it was validated.                  *)
LEMMA FreedAlone ==
  ASSUME NEW q \in Seq(Event), NEW c \in [Conns -> Conn], InOrder(q, c), q # << >>,
         NEW a \in [Users -> Nat], NEW p, Alone(q, c, a, p), NEW k, k = Head(q).k,
         Head(q).ev = "disconnection", NEW d, d = [c EXCEPT ![k] = FreeConn],
         NEW u, u = c[k].u, NEW b, b = IF c[k].app THEN [a EXCEPT ![u] = 0] ELSE a
  PROVE  Alone(Tail(q), d, b, p)
<1> DEFINE r == Tail(q)
<1>1. r \in Seq(Event) /\ \A i \in DOMAIN r : r[i].k # k /\ r[i].k \in Conns
  BY FreedInOrder, QueuedTyped
<1>2. Alone(r, c, a, p)
  BY ReadAlone
<1>3. Head(q) = q[1] /\ 1 \in DOMAIN q /\ k \in Conns
  BY PositionsRead, QueuedTyped
<1>4. /\ \A j \in Conns : c[j].u \in Users /\ (j # k => d[j] = c[j])
      /\ d[k] = FreeConn /\ ~FreeConn.open
  BY <1>3 DEF Conn, FreeConn
<1> HIDE DEF r
<1>5. \A v \in Users : /\ b[v] = IF c[k].app /\ v = u THEN 0 ELSE a[v]
                       /\ b[v] \in {0, a[v]}
  OBVIOUS
<1>6. ASSUME NEW j \in Conns, d[j].open, d[j].app
      PROVE  b[d[j].u] = j
  <2>1. j # k /\ d[j] = c[j] /\ a[c[j].u] = j /\ c[j].u \in Users
    BY <1>4, <1>6 DEF Alone
  <2>2. ~(c[k].app /\ c[j].u = u)
    <3> SUFFICES ASSUME c[k].app, c[j].u = u PROVE FALSE
      OBVIOUS
    <3>1. Ending(q, c, 1)
      BY <1>3 DEF Ending
    <3>2. a[u] \in {0, k}
      BY <1>3, <3>1 DEF Alone
    <3>3. j # 0
      BY ConnsOK DEF Conns
    <3>4. QED
      BY <2>1, <3>2, <3>3
  <2>3. QED
    BY <1>5, <2>1, <2>2
<1>7. ASSUME NEW j \in DOMAIN r, Ending(r, d, j)
      PROVE  /\ b[d[r[j].k].u] \in {0, r[j].k}
             /\ \A i \in DOMAIN r : i < j /\ d[r[i].k].u = d[r[j].k].u => ~Good(r, d, p, i)
  <2>1. \A i \in DOMAIN r : d[r[i].k] = c[r[i].k] /\ c[r[i].k].u \in Users
    BY <1>1, <1>4
  <2>2. Ending(r, c, j)
    BY <1>7, <2>1 DEF Ending
  <2>3. b[d[r[j].k].u] \in {0, r[j].k}
    BY <1>2, <1>5, <2>1, <2>2 DEF Alone
  <2>4. \A i \in DOMAIN r : Good(r, d, p, i) <=> Good(r, c, p, i)
    BY <2>1 DEF Good
  <2>5. QED
    BY <1>2, <2>1, <2>2, <2>3, <2>4 DEF Alone
<1>8. QED
  BY <1>6, <1>7 DEF Alone, r

(* A client connects on a free socket. *)
LEMMA ConnectedAlone ==
  ASSUME NEW q \in Seq(Event), NEW c \in [Conns -> Conn], InOrder(q, c), NEW a, NEW p,
         Alone(q, c, a, p), NEW k \in Conns, ~c[k].used, NEW new \in Conn, ~new.app,
         NEW e \in Event, e.ev = "validation"
  PROVE  Alone(Append(q, e), [c EXCEPT ![k] = new], a, p)
<1> DEFINE d == [c EXCEPT ![k] = new]
           n == Len(q) + 1
           r == q \o <<e>>
<1>1. /\ Append(q, e) = r /\ n \in Nat /\ DOMAIN q = 1..(n - 1)
      /\ DOMAIN r = 1..n /\ r[n] = e /\ \A i \in DOMAIN q : r[i] = q[i]
  BY PositionsSent
<1>2. d[k] = new /\ \A j \in Conns : j # k => d[j] = c[j]
  OBVIOUS
<1> HIDE DEF d, n, r
<1>3. \A i \in DOMAIN q : r[i] = q[i] /\ q[i].k \in Conns /\ q[i].k # k /\ d[r[i].k] = c[q[i].k]
  <2>1. \A i \in DOMAIN q : q[i].k \in Conns /\ q[i].k # k
    BY QueuedTyped DEF InOrder
  <2>2. QED
    BY <1>1, <1>2, <2>1
<1>4. ASSUME NEW j \in Conns, d[j].open, d[j].app
      PROVE  a[d[j].u] = j
  BY <1>2, <1>4 DEF Alone
<1>5. ASSUME NEW j \in DOMAIN r, Ending(r, d, j)
      PROVE  /\ a[d[r[j].k].u] \in {0, r[j].k}
             /\ \A i \in DOMAIN r : i < j /\ d[r[i].k].u = d[r[j].k].u => ~Good(r, d, p, i)
  <2>1. j # n
    BY <1>1, <1>5 DEF Ending
  <2>2. j \in DOMAIN q /\ \A i \in DOMAIN r : i < j => i \in DOMAIN q
    BY <1>1, <2>1
  <2>3. Ending(q, c, j)
    BY <1>3, <1>5, <2>2 DEF Ending
  <2>4. \A i \in DOMAIN q : Good(r, d, p, i) <=> Good(q, c, p, i)
    BY <1>3 DEF Good
  <2>5. QED
    BY <1>3, <2>2, <2>3, <2>4 DEF Alone
<1>6. QED
  BY <1>1, <1>4, <1>5 DEF Alone, d

(* The head of the queue is a validation, and its cookie waits: the user   *)
(* had no session, and no session of the user is about to end.             *)
LEMMA AcceptedAlone ==
  ASSUME NEW q \in Seq(Event), NEW c \in [Conns -> Conn], q # << >>,
         NEW a \in [Users -> Nat], NEW p, Alone(q, c, a, p),
         NEW j \in Conns, j = Head(q).k, NEW u \in Users, u = c[j].u, a[u] = 0,
         Good(q, c, p, 1), NEW r \in SUBSET p, \A ck : [u |-> u, ck |-> ck] \notin r
  PROVE  Alone(Tail(q), App(c, j), Becomes(a, u, j), r)
<1> DEFINE d == App(c, j)
           b == Becomes(a, u, j)
           t == Tail(q)
<1>1. /\ t \in Seq(Event) /\ DOMAIN q = 1..Len(q) /\ Len(q) \in Nat \ {0} /\ Head(q) = q[1]
      /\ DOMAIN t = 1..(Len(q) - 1) /\ 1 \in DOMAIN q
      /\ \A i \in DOMAIN t : i + 1 \in DOMAIN q /\ t[i] = q[i + 1]
  BY PositionsRead
<1>2. \A i \in DOMAIN t : t[i].k \in Conns
  BY <1>1, QueuedTyped
<1>3. /\ d[j].app /\ d[j].u = u
      /\ \A i \in Conns : /\ c[i].u \in Users /\ d[i].u = c[i].u /\ d[i].open = c[i].open
                          /\ i # j => d[i] = c[i]
  <2>1. \A i \in Conns : c[i].u \in Users
    BY DEF Conn
  <2>2. QED
    BY <2>1, AppIs
<1>4. j \in Nat /\ j # 0 /\ b = [a EXCEPT ![u] = j] /\ 0 \notin Conns
  BY ConnsOK DEF Conns, Becomes
<1>5. b[u] = j /\ \A v \in Users : v # u => b[v] = a[v]
  BY <1>4
<1> HIDE DEF d, b, t
<1>6. ASSUME NEW i \in Conns, i # j, d[i].open, d[i].app
      PROVE  b[d[i].u] = i
  <2>1. a[c[i].u] = i /\ c[i].u # u /\ d[i] = c[i] /\ c[i].u \in Users
    BY <1>3, <1>4, <1>6 DEF Alone
  <2>2. QED
    BY <1>5, <2>1
<1>7. ASSUME NEW i \in DOMAIN t, Ending(t, d, i)
      PROVE  /\ b[d[t[i].k].u] \in {0, t[i].k}
             /\ \A h \in DOMAIN t : h < i /\ d[t[h].k].u = d[t[i].k].u => ~Good(t, d, r, h)
  <2>0. \A h \in DOMAIN t : d[t[h].k].u = c[t[h].k].u
    BY <1>2, <1>3
  <2>1. CASE d[t[i].k].u = u
    <3>1. t[i].k = j
      <4> SUFFICES ASSUME t[i].k # j PROVE FALSE
        OBVIOUS
      <4>1. i + 1 \in DOMAIN q /\ t[i] = q[i + 1] /\ 1 < i + 1
        BY <1>1
      <4>2. Ending(q, c, i + 1) /\ c[q[i + 1].k].u = u
        BY <1>2, <1>3, <1>7, <2>1, <4>1 DEF Ending
      <4>3. c[q[1].k].u = u
        BY <1>1
      <4>4. QED
        BY <1>1, <4>1, <4>2, <4>3 DEF Alone
    <3>2. ASSUME NEW h \in DOMAIN t, d[t[h].k].u = u
          PROVE  ~Good(t, d, r, h)
      BY <3>2 DEF Good
    <3>3. QED
      BY <1>5, <2>1, <3>1, <3>2
  <2>2. CASE d[t[i].k].u # u
    <3>1. i + 1 \in DOMAIN q /\ t[i] = q[i + 1] /\ t[i].k # j /\ t[i].k \in Conns
      BY <1>1, <1>2, <1>3, <2>2
    <3>2. Ending(q, c, i + 1)
      BY <1>3, <1>7, <3>1 DEF Ending
    <3>3. b[d[t[i].k].u] \in {0, t[i].k}
      BY <1>3, <1>5, <2>0, <2>2, <3>1, <3>2 DEF Alone
    <3>4. ASSUME NEW h \in DOMAIN t, h < i, d[t[h].k].u = d[t[i].k].u
          PROVE  ~Good(t, d, r, h)
      <4>1. h + 1 \in DOMAIN q /\ t[h] = q[h + 1] /\ h + 1 < i + 1
        BY <1>1, <3>4
      <4>2. c[q[h + 1].k].u = c[q[i + 1].k].u
        BY <2>0, <3>1, <3>4, <4>1
      <4>3. ~Good(q, c, p, h + 1)
        BY <3>1, <3>2, <4>1, <4>2 DEF Alone
      <4>4. QED
        BY <2>0, <4>1, <4>3 DEF Good
    <3>5. QED
      BY <3>3, <3>4
  <2>3. QED
    BY <2>1, <2>2
<1>8. b[d[j].u] = j
  BY <1>3, <1>5
<1>9. QED
  BY <1>6, <1>7, <1>8 DEF Alone, d, b, t

(* One session of a user on front end f. *)
OneSession(f) == Alone(events[f], conn[f], assoc[f], pending[f])
(* The cookie that f is asked to await is not in its receive queue. *)
Unseen(f) ==
  Pending(ShardOf[f], f, "M_ENTER_SHARD_REQUEST") =>
    \A i \in DOMAIN events[f] : events[f][i].ev = "validation" =>
      events[f][i].ck # Head(net[<<ShardOf[f], f>>]).ck

(* A user with a session has no cookie. *)
LEMMA SessionNoCookie ==
  ASSUME CookieOrSession, NEW f \in Fess, NEW u \in Users, assoc[f][u] # 0
  PROVE  \A ck : [u |-> u, ck |-> ck] \notin pending[f]
BY DEF CookieOrSession, CookiesOf

(* DisconnectAccount closes the only session of the user. *)
LEMMA DisconnectAccountAlone ==
  ASSUME FSTyped, CookieOrSession, NEW f \in Fess, Sockets(f), OneSession(f),
         NEW u \in Users, DisconnectAccount(f, u)
  PROVE  Alone(events'[f], conn'[f], assoc'[f], pending[f])
<1> DEFINE q == events[f]
           c == conn[f]
           a == assoc[f]
           k == a[u]
           b == [a EXCEPT ![u] = 0]
<1>1. /\ conn'[f] = Shut(c, {k}) /\ events'[f] = Hung(q, c, k) /\ assoc'[f] = b
  BY DisconnectAccountIs
<1>2. /\ q \in Seq(Event) /\ c \in [Conns -> Conn] /\ a \in [Users -> Nat]
      /\ Alone(q, c, a, pending[f])
  BY SocketsTyped DEF OneSession
<1>3. \A v \in Users : b[v] \in {0, a[v]} /\ (v # u => b[v] = a[v])
  BY <1>2
<1>4. k \in Conns => k # 0 /\ c[k].u = u
  <2>1. 0 \notin Conns
    BY ConnsOK DEF Conns
  <2>2. QED
    BY <2>1 DEF Sockets, Names
<1>5. k \in Conns => \A ck : [u |-> c[k].u, ck |-> ck] \notin pending[f]
  BY <1>4, SessionNoCookie
<1>6. ASSUME NEW j \in Conns \ {k}, c[j].open, c[j].app
      PROVE  b[c[j].u] = a[c[j].u]
  <2>1. a[c[j].u] = j /\ c[j].u \in Users
    BY <1>2, <1>6 DEF Alone, Conn
  <2>2. c[j].u # u
    BY <1>6, <2>1
  <2>3. QED
    BY <1>3, <2>1, <2>2
<1> HIDE DEF q, c, a, k, b
<1>7. Alone(Hung(q, c, k), Shut(c, {k}), b, pending[f])
  BY <1>2, <1>3, <1>5, <1>6, HungAlone
<1>8. QED
  BY <1>1, <1>7 DEF q, c

(* A new cookie closes it, and is not in the queue. *)
LEMMA ChooseShardAlone ==
  ASSUME FSTyped, CookieOrSession, NEW f \in Fess, Sockets(f), OneSession(f),
         FSChooseShard(f), Unseen(f)
  PROVE  OneSession(f)'
<1> DEFINE m == Head(net[<<ShardOf[f], f>>])
           k == assoc[f][m.u]
<1>1. /\ Pending(ShardOf[f], f, "M_ENTER_SHARD_REQUEST") /\ DisconnectAccount(f, m.u)
      /\ pending' = [pending EXCEPT ![f] = Announced(f, m.u, m.ck)]
  BY DEF FSChooseShard
<1>2. m.u \in Users
  BY <1>1, FSHeadTyped
<1>3. Alone(events'[f], conn'[f], assoc'[f], pending[f])
  BY <1>1, <1>2, DisconnectAccountAlone
<1>4. /\ \A i \in DOMAIN events[f] : events[f][i].ev = "validation" => events[f][i].ck # m.ck
      /\ events[f] \in Seq(Event) /\ conn[f] \in [Conns -> Conn]
  BY <1>1, SocketsTyped DEF Unseen
<1>5. /\ events'[f] = Hung(events[f], conn[f], k)
      /\ pending'[f] = Announced(f, m.u, m.ck)
  <2>1. events'[f] = Hung(events[f], conn[f], k)
    BY <1>1, <1>2, DisconnectAccountIs
  <2>2. pending'[f] = Announced(f, m.u, m.ck)
    BY <1>1 DEF FSTyped, FSTypeOK
  <2>3. QED
    BY <2>1, <2>2
<1> HIDE DEF m, k
<1>6. ASSUME NEW i \in DOMAIN events'[f], Good(events'[f], conn'[f], pending'[f], i)
      PROVE  Good(events'[f], conn'[f], pending[f], i)
  <2>1. events'[f][i].ck # m.ck
    <3>1. CASE k \in Conns /\ conn[f][k].open
      <4>1. i \in DOMAIN events[f] /\ events'[f][i] = events[f][i]
        BY <1>4, <1>5, <1>6, <3>1, HungIs DEF Good
      <4>2. QED
        BY <1>4, <1>6, <4>1 DEF Good
    <3>2. CASE ~(k \in Conns /\ conn[f][k].open)
      BY <1>4, <1>5, <1>6, <3>2 DEF Good, Hung
    <3>3. QED
      BY <3>1, <3>2
  <2>2. QED
    BY <1>5, <1>6, <2>1 DEF Good, Announced
<1>7. QED
  BY <1>3, <1>6, CookiesAlone DEF OneSession

(* A valid cookie: the user has neither a session nor one about to end. *)
LEMMA ShardValidationAlone ==
  ASSUME FSTyped, CookieOrSession, NEW f \in Fess, Sockets(f), OneSession(f),
         FSShardValidation(f)
  PROVE  OneSession(f)'
<1> DEFINE q == events[f]
           e == Head(q)
           j == e.k
           c == conn[f]
           u == c[j].u
           a == assoc[f]
           p == [u |-> u, ck |-> e.ck]
           r == pending[f] \ {p}
<1>1. /\ q # << >> /\ e.ev = "validation" /\ u \in Users /\ j \in Conns
      /\ conn'[f] = Shut(App(c, j), {a[u]})
      /\ events'[f] = Hung(Tail(q), App(c, j), a[u])
      /\ assoc'[f] = Becomes(a, u, j)
  BY ShardValidationIs
<1>2. p \in pending[f] /\ pending'[f] = r
  <2>1. p \in pending[f] /\ pending' = [pending EXCEPT ![f] = @ \ {p}]
    BY DEF FSShardValidation
  <2> HIDE DEF p
  <2>2. QED
    BY <2>1 DEF FSTyped, FSTypeOK
<1>3. /\ q \in Seq(Event) /\ c \in [Conns -> Conn] /\ a \in [Users -> Nat]
      /\ Alone(q, c, a, pending[f])
  BY SocketsTyped DEF OneSession
<1>4. a[u] = 0
  BY <1>1, <1>2, SessionNoCookie
<1>5. Good(q, c, pending[f], 1)
  <2>1. q[1] = e
    BY <1>1, <1>3, PositionsRead
  <2>2. e.ev = "validation" /\ [u |-> c[e.k].u, ck |-> e.ck] \in pending[f]
    BY <1>1, <1>2
  <2> HIDE DEF e, q, c
  <2>3. QED
    BY <2>1, <2>2 DEF Good
<1>6. \A ck : [u |-> u, ck |-> ck] \notin r
  <2> SUFFICES ASSUME NEW ck, [u |-> u, ck |-> ck] \in r PROVE FALSE
    OBVIOUS
  <2> DEFINE o == [u |-> u, ck |-> ck]
  <2>1. o \in CookiesOf(f, u) /\ p \in CookiesOf(f, u) /\ o # p
    BY <1>2 DEF CookiesOf
  <2> HIDE DEF o, p, u
  <2>2. QED
    BY <1>1, <2>1 DEF CookieOrSession
<1>7. Alone(Tail(q), App(c, j), Becomes(a, u, j), r)
  <2>1. j = e.k /\ u = c[j].u /\ r \in SUBSET pending[f]
    OBVIOUS
  <2> HIDE DEF q, j, c, u, a, p, r
  <2>2. QED
    BY <1>1, <1>3, <1>4, <1>5, <1>6, <2>1, AcceptedAlone
<1>8. conn'[f] = App(c, j) /\ events'[f] = Tail(q)
  <2> HIDE DEF q, j, c, u, a
  <2>0. 0 \notin Conns
    BY ConnsOK DEF Conns
  <2>1. App(c, j) \in [Conns -> Conn] /\ 0 \notin Conns
    BY <1>1, <1>3, <2>0, AppIs
  <2>2. Shut(App(c, j), {0}) = App(c, j)
    BY <2>1 DEF Shut
  <2>3. QED
    BY <1>1, <1>4, <2>1, <2>2 DEF Hung
<1>9. QED
  BY <1>1, <1>2, <1>7, <1>8 DEF OneSession

(* Any other cookie closes the session of the user, if there is one, and a *)
(* socket that is nobody's session.                                        *)
LEMMA InvalidCookieAlone ==
  ASSUME FSTyped, CookieOrSession, NEW f \in Fess, Sockets(f), OneSession(f),
         FSInvalidCookie(f)
  PROVE  OneSession(f)'
<1> DEFINE q == events[f]
           e == Head(q)
           c == conn[f]
           u == c[e.k].u
           a == assoc[f]
           k == a[u]
           d == Shut(c, {k})
           t == Hung(Tail(q), c, k)
           b == [a EXCEPT ![u] = 0]
           p == pending[f]
<1>1. /\ q # << >> /\ e.ev = "validation" /\ u \in Users /\ e.k \in Conns
      /\ conn'[f] = Shut(d, {e.k}) /\ events'[f] = Hung(t, d, e.k) /\ assoc'[f] = b
      /\ pending'[f] = p
  BY InvalidCookieIs DEF FSInvalidCookie
<1>2. /\ q \in Seq(Event) /\ c \in [Conns -> Conn] /\ a \in [Users -> Nat]
      /\ InOrder(q, c) /\ Alone(q, c, a, p)
  BY SocketsTyped DEF OneSession, Sockets
<1>3. Tail(q) \in Seq(Event) /\ Alone(Tail(q), c, a, p) /\ InOrder(Tail(q), c)
  BY <1>1, <1>2, PositionsRead, ReadAlone, ValidatedInOrder
<1>4. \A v \in Users : b[v] \in {0, a[v]} /\ (v # u => b[v] = a[v])
  BY <1>2
<1>5. k \in Conns => k # 0 /\ c[k].u = u
  <2>1. 0 \notin Conns
    BY ConnsOK DEF Conns
  <2>2. QED
    BY <1>1, <2>1 DEF Sockets, Names
<1>6. k \in Conns => \A ck : [u |-> c[k].u, ck |-> ck] \notin p
  BY <1>1, <1>5, SessionNoCookie
<1>7. ASSUME NEW j \in Conns \ {k}, c[j].open, c[j].app
      PROVE  b[c[j].u] = a[c[j].u]
  <2>1. a[c[j].u] = j /\ c[j].u \in Users
    BY <1>2, <1>7 DEF Alone, Conn
  <2>2. c[j].u # u
    BY <1>7, <2>1
  <2>3. QED
    BY <1>4, <2>1, <2>2
<1>8. ~c[e.k].app
  BY <1>1, <1>2, HeadInOrder
<1> HIDE DEF e, q, c, a, u, b, k, p
<1>9. Alone(t, d, b, p)
  <2> DEFINE h == Tail(q)
  <2>1. h \in Seq(Event) /\ Alone(h, c, a, p)
    BY <1>3
  <2>2. \A v \in Users : b[v] \in {0, a[v]}
    BY <1>4, Zenon
  <2>3. \A j \in Conns \ {k} : c[j].open /\ c[j].app => b[c[j].u] = a[c[j].u]
    BY <1>7
  <2>4. k \in Conns /\ c[k].open /\ c[k].app => \A ck : [u |-> c[k].u, ck |-> ck] \notin p
    BY <1>6
  <2>5. c \in [Conns -> Conn]
    BY <1>2
  <2> HIDE DEF h, d, t
  <2>6. Alone(Hung(h, c, k), Shut(c, {k}), b, p)
    BY <2>1, <2>2, <2>3, <2>4, <2>5, HungAlone
  <2>7. QED
    BY <2>6 DEF h, d, t
<1>10. t \in Seq(Event) /\ d \in [Conns -> Conn]
  BY <1>2, <1>3, HungInOrder
<1>11. ~d[e.k].app
  <2>1. \A j \in Conns : d[j].app = c[j].app
    BY <1>2 DEF Shut, Conn, d
  <2>2. QED
    BY <1>1, <1>8, <2>1
<1> HIDE DEF t, d
<1>12. \A v \in Users : b[v] \in {0, b[v]}
  OBVIOUS
<1>13. Alone(Hung(t, d, e.k), Shut(d, {e.k}), b, p)
  BY <1>9, <1>10, <1>11, <1>12, HungAlone
<1>14. QED
  BY <1>1, <1>13 DEF OneSession

(* A disconnection erases the association of its socket or none. *)
LEMMA DisconnectedAlone ==
  ASSUME FSTyped, NEW f \in Fess, Sockets(f), OneSession(f), FSDisconnected(f)
  PROVE  OneSession(f)'
<1> DEFINE q == events[f]
           k == Head(q).k
           c == conn[f]
           u == c[k].u
           d == [c EXCEPT ![k] = FreeConn]
           a == assoc[f]
           b == IF c[k].app THEN [a EXCEPT ![u] = 0] ELSE a
<1>1. /\ q # << >> /\ Head(q).ev = "disconnection" /\ pending' = pending
      /\ conn' = [conn EXCEPT ![f][k] = FreeConn]
      /\ events' = [events EXCEPT ![f] = Tail(@)]
      /\ assoc' = IF c[k].app THEN [assoc EXCEPT ![f][u] = 0] ELSE assoc
  BY DEF FSDisconnected, Reported
<1>2. /\ q \in Seq(Event) /\ c \in [Conns -> Conn] /\ a \in [Users -> Nat]
      /\ InOrder(q, c) /\ Alone(q, c, a, pending[f])
  BY SocketsTyped DEF Sockets, OneSession
<1>3. conn'[f] = d /\ events'[f] = Tail(q) /\ assoc'[f] = b
  <2> HIDE DEF k, u
  <2> QED
    BY <1>1, SocketsTyped
<1>4. /\ k = Head(q).k /\ d = [c EXCEPT ![k] = FreeConn] /\ u = c[k].u
      /\ b = IF c[k].app THEN [a EXCEPT ![u] = 0] ELSE a
  OBVIOUS
<1> HIDE DEF q, k, c, u, d, a, b
<1>5. Alone(Tail(q), d, b, pending[f])
  BY <1>1, <1>2, <1>4, FreedAlone
<1>6. QED
  BY <1>1, <1>3, <1>5 DEF OneSession

(* Flags of the sockets and fewer cookies leave the sessions alone. *)
LEMMA FlagsOneSession ==
  ASSUME FSTyped, NEW f \in Fess, OneSession(f), events'[f] = events[f], assoc'[f] = assoc[f],
         \A k \in Conns : /\ conn'[f][k].open = conn[f][k].open
                          /\ conn'[f][k].app = conn[f][k].app
                          /\ conn'[f][k].u = conn[f][k].u,
         pending'[f] \subseteq pending[f]
  PROVE  OneSession(f)'
<1>1. Alone(events[f], conn'[f], assoc[f], pending[f])
  <2> DEFINE q == events[f]
             c == conn[f]
             d == conn'[f]
  <2>1. q \in Seq(Event) /\ Alone(q, c, assoc[f], pending[f])
    BY SocketsTyped DEF OneSession
  <2>2. \A k \in Conns : d[k].u = c[k].u /\ d[k].open = c[k].open /\ d[k].app = c[k].app
    OBVIOUS
  <2> HIDE DEF q, c, d
  <2>3. Alone(q, d, assoc[f], pending[f])
    BY <2>1, <2>2, FlagsAlone
  <2>4. QED
    BY <2>3 DEF q, d
<1>2. \A i \in DOMAIN events[f] :
        Good(events[f], conn'[f], pending'[f], i) => Good(events[f], conn'[f], pending[f], i)
  BY DEF Good
<1>3. QED
  BY <1>1, <1>2, CookiesAlone DEF OneSession

(* A client connects, and closes. *)
LEMMA ClientConnectAlone ==
  ASSUME FSTyped, NEW f \in Fess, Sockets(f), OneSession(f), NEW u \in Users, ClientConnect(u)
  PROVE  OneSession(f)'
<1>1. PICK o \in offers[u], k \in Conns :
        /\ ~conn[o.f][k].used
        /\ conn' = [conn EXCEPT ![o.f][k] =
             [FreeConn EXCEPT !.u = u, !.used = TRUE, !.open = TRUE]]
        /\ events' = [events EXCEPT ![o.f] =
             Append(@, [ev |-> "validation", k |-> k, ck |-> o.ck])]
  BY DEF ClientConnect
<1>2. assoc' = assoc /\ pending' = pending
  BY DEF ClientConnect
<1> DEFINE new == [FreeConn EXCEPT !.u = u, !.used = TRUE, !.open = TRUE]
           e == [ev |-> "validation", k |-> k, ck |-> o.ck]
<1>3. o.f \in Fess /\ o.ck \in Cookie
  BY DEF FSTyped, FSTypeOK, Offer
<1>4. new \in Conn /\ ~new.app
  BY FSNulls DEF FreeConn, Conn
<1>5. e \in Event /\ e.ev = "validation"
  BY <1>3 DEF Event
<1> HIDE DEF new, e
<1>6. CASE o.f = f
  <2>1. conn'[f] = [conn[f] EXCEPT ![k] = new] /\ events'[f] = Append(events[f], e)
    BY <1>1, <1>6, SocketsTyped DEF new, e
  <2>2. /\ events[f] \in Seq(Event) /\ conn[f] \in [Conns -> Conn]
        /\ InOrder(events[f], conn[f]) /\ ~conn[f][k].used
        /\ Alone(events[f], conn[f], assoc[f], pending[f])
    BY <1>1, <1>6, SocketsTyped DEF Sockets, OneSession
  <2>3. Alone(Append(events[f], e), [conn[f] EXCEPT ![k] = new], assoc[f], pending[f])
    BY <1>4, <1>5, <2>2, ConnectedAlone
  <2>4. QED
    BY <1>2, <2>1, <2>3 DEF OneSession
<1>7. CASE o.f # f
  <2>1. conn'[f] = conn[f] /\ events'[f] = events[f]
    BY <1>1, <1>3, <1>7, SocketsTyped
  <2>2. QED
    BY <1>2, <2>1 DEF OneSession
<1>8. QED
  BY <1>6, <1>7

LEMMA ClientCloseAlone ==
  ASSUME FSTyped, CookieOrSession, NEW f \in Fess, OneSession(f), NEW k \in Conns,
         ClientClose(f, k)
  PROVE  OneSession(f)'
<1>1. /\ assoc' = assoc /\ pending' = pending
      /\ conn'[f] = Closed(f, {k}) /\ events'[f] = Advertised(f, events[f], k)
  BY SocketsTyped DEF ClientClose
<1>2. conn'[f] = Shut(conn[f], {k}) /\ events'[f] = Hung(events[f], conn[f], k)
  BY <1>1 DEF Closed, Shut, Advertised, Hung
<1> DEFINE q == events[f]
           c == conn[f]
           a == assoc[f]
           p == pending[f]
<1>3. q \in Seq(Event) /\ c \in [Conns -> Conn] /\ Alone(q, c, a, p)
  BY SocketsTyped DEF OneSession
<1>4. c[k].open /\ c[k].app => \A ck : [u |-> c[k].u, ck |-> ck] \notin p
  <2> SUFFICES ASSUME c[k].open, c[k].app
               PROVE  \A ck : [u |-> c[k].u, ck |-> ck] \notin p
    OBVIOUS
  <2>1. c[k].u \in Users /\ a[c[k].u] = k
    BY <1>3 DEF Alone, Conn
  <2>2. k # 0
    BY ConnsOK DEF Conns
  <2> DEFINE u == c[k].u
  <2>3. u \in Users /\ assoc[f][u] # 0
    BY <2>1, <2>2
  <2> HIDE DEF u
  <2>4. \A ck : [u |-> u, ck |-> ck] \notin pending[f]
    BY <2>3, SessionNoCookie
  <2>5. QED
    BY <2>4 DEF u
<1>5. \A u \in Users : a[u] \in {0, a[u]}
  OBVIOUS
<1>6. \A j \in Conns \ {k} : c[j].open /\ c[j].app => a[c[j].u] = a[c[j].u]
  OBVIOUS
<1> HIDE DEF q, c, a, p
<1>7. Alone(Hung(q, c, k), Shut(c, {k}), a, p)
  BY <1>3, <1>4, <1>5, <1>6, HungAlone
<1>8. QED
  BY <1>1, <1>2, <1>7 DEF OneSession, q, c, a, p

(* A front end drops a cookie, or the cookies of another one change. *)
LEMMA OtherCookies ==
  ASSUME FSTyped, NEW f \in Fess, NEW g \in Fess \ {f},
         \/ FSChooseShard(g) \/ FSDisconnectClient(g) \/ FSEnterShardOk(g)
         \/ FSChangeShardAns(g) \/ FSShardValidation(g) \/ FSInvalidCookie(g)
         \/ FSDisconnected(g) \/ FSRefreshPending(g)
         \/ \E k \in Conns : ClientClose(g, k) \/ FSChangeShardReq(g, k)
  PROVE  pending'[f] = pending[f]
<1>1. pending \in [Fess -> SUBSET [u : Users, ck : Cookie]]
  BY DEF FSTyped, FSTypeOK
<1>2. \/ pending' = pending
      \/ \E P : pending' = [pending EXCEPT ![g] = P]
  BY DEF FSChooseShard, FSDisconnectClient, FSEnterShardOk, FSChangeShardAns,
         FSShardValidation, FSInvalidCookie, FSDisconnected, FSRefreshPending,
         ClientClose, FSChangeShardReq
<1>3. QED
  BY <1>1, <1>2

(* Every step of a front end and of the clients keeps one session of a     *)
(* user, as long as no cookie is announced that the queue shows.           *)
LEMMA FESKeepsOneSession ==
  ASSUME FSTyped, CookieOrSession, NEW f \in Fess, Sockets(f), OneSession(f), Unseen(f),
         \/ FSNext
         \/ \E u \in Users : ClientConnect(u)
         \/ \E g \in Fess, k \in Conns : ClientClose(g, k) \/ FSChangeShardReq(g, k)
  PROVE  OneSession(f)'
<1>1. CASE FSDisconnectClient(f)
  <2>1. PICK u : DisconnectAccount(f, u) /\ u = Head(net[<<ShardOf[f], f>>]).u
    BY <1>1 DEF FSDisconnectClient
  <2>2. u \in Users
    BY <1>1, <2>1, FSHeadTyped DEF FSDisconnectClient
  <2>3. pending' = pending
    BY <1>1 DEF FSDisconnectClient
  <2>4. QED
    BY <2>1, <2>2, <2>3, DisconnectAccountAlone DEF OneSession
<1>2. CASE FSEnterShardOk(f)
  <2> DEFINE k == assoc[f][Head(net[<<ShardOf[f], f>>]).u]
  <2>1. /\ UNCHANGED <<assoc, events, pending>>
        /\ conn' = IF k = 0 THEN conn ELSE [conn EXCEPT ![f][k].entered = conn[f][k].open]
    BY <1>2 DEF FSEnterShardOk
  <2> HIDE DEF k
  <2>2. \A j \in Conns : /\ conn'[f][j].open = conn[f][j].open
                         /\ conn'[f][j].app = conn[f][j].app /\ conn'[f][j].u = conn[f][j].u
    BY <2>1, SocketsTyped DEF Conn
  <2>3. QED
    BY <2>1, <2>2, FlagsOneSession
<1>3. CASE FSChangeShardAns(f)
  <2>1. PICK K \in SUBSET Conns :
          conn' = [conn EXCEPT ![f] = [j \in Conns |->
                     IF j \in K THEN [@[j] EXCEPT !.asked = FALSE] ELSE @[j]]]
    BY <1>3 DEF FSChangeShardAns
  <2>2. UNCHANGED <<assoc, events, pending>>
    BY <1>3 DEF FSChangeShardAns
  <2>3. \A j \in Conns : /\ conn'[f][j].open = conn[f][j].open
                         /\ conn'[f][j].app = conn[f][j].app /\ conn'[f][j].u = conn[f][j].u
    BY <2>1, SocketsTyped DEF Conn
  <2>4. QED
    BY <2>2, <2>3, FlagsOneSession
<1>4. CASE FSRefreshPending(f)
  <2>1. UNCHANGED <<assoc, events, conn>>
    BY <1>4 DEF FSRefreshPending
  <2>2. PICK p : pending' = [pending EXCEPT ![f] = @ \ {p}]
    BY <1>4 DEF FSRefreshPending
  <2>3. pending'[f] \subseteq pending[f]
    BY <2>2 DEF FSTyped, FSTypeOK
  <2>4. QED
    BY <2>1, <2>3, FlagsOneSession
<1>5. ASSUME NEW k \in Conns, FSChangeShardReq(f, k)
      PROVE  OneSession(f)'
  <2>1. conn' = [conn EXCEPT ![f][k].asked = TRUE] /\ UNCHANGED <<assoc, events, pending>>
    BY <1>5 DEF FSChangeShardReq
  <2>2. \A j \in Conns : /\ conn'[f][j].open = conn[f][j].open
                         /\ conn'[f][j].app = conn[f][j].app /\ conn'[f][j].u = conn[f][j].u
    BY <2>1, SocketsTyped DEF Conn
  <2>3. QED
    BY <2>1, <2>2, FlagsOneSession
<1>6. ASSUME NEW g \in Fess \ {f},
             \/ FSChooseShard(g) \/ FSDisconnectClient(g) \/ FSEnterShardOk(g)
             \/ FSChangeShardAns(g) \/ FSShardValidation(g) \/ FSInvalidCookie(g)
             \/ FSDisconnected(g) \/ FSRefreshPending(g)
             \/ \E k \in Conns : ClientClose(g, k) \/ FSChangeShardReq(g, k)
      PROVE  OneSession(f)'
  BY <1>6, OtherSockets, OtherCookies DEF OneSession
<1>7. CASE FSNext
  <2>1. PICK g \in Fess :
          \/ FSChooseShard(g) \/ FSDisconnectClient(g) \/ FSEnterShardOk(g)
          \/ FSChangeShardAns(g) \/ FSShardValidation(g) \/ FSInvalidCookie(g)
          \/ FSDisconnected(g) \/ FSRefreshPending(g)
    BY <1>7 DEF FSNext
  <2>2. CASE g = f
    BY <1>1, <1>2, <1>3, <1>4, <2>1, <2>2, ChooseShardAlone, ShardValidationAlone,
       InvalidCookieAlone, DisconnectedAlone
  <2>3. CASE g # f
    BY <1>6, <2>1, <2>3
  <2>4. QED
    BY <2>2, <2>3
<1>8. CASE \E u \in Users : ClientConnect(u)
  BY <1>8, ClientConnectAlone
<1>9. CASE \E g \in Fess, k \in Conns : ClientClose(g, k) \/ FSChangeShardReq(g, k)
  BY <1>5, <1>6, <1>9, ClientCloseAlone
<1>10. QED
  BY <1>7, <1>8, <1>9

(* At the start nobody is connected. *)
LEMMA OneSessionInit ==
  ASSUME FSInit, NEW f \in Fess
  PROVE  OneSession(f)
<1>1. events[f] = << >> /\ conn[f] = [k \in Conns |-> FreeConn]
  BY DEF FSInit
<1>2. ~FreeConn.open
  BY DEF FreeConn
<1>3. QED
  BY <1>1, <1>2 DEF OneSession, Alone
=============================================================================
