--------------------------- MODULE FrontendServer ---------------------------
(***************************************************************************)
(* A front end (FES) and the clients connected to it: cookies announced by *)
(* the WS wait for their client, a client that shows one becomes the       *)
(* user's association, and disconnections are reported to the WS           *)
(* (sip/net/login_server.cpp, frontend/main.cpp).                          *)
(*                                                                         *)
(* The server's receive queue is one FIFO of events: a validation is a     *)
(* connection with the client's first message, a disconnection is          *)
(* advertised once per socket.                                             *)
(***************************************************************************)
EXTENDS ShardNet

CONSTANTS
  MaxConns,          \* bound: sockets open at a time on one front end
  MaxCookieTimeouts  \* bound: pending cookies dropped by the 15-minute timer

ASSUME ConnsOK == MaxConns \in Nat /\ MaxCookieTimeouts \in Nat

VARIABLES
  pending,        \* PendingUsers: cookies whose client has not come yet
  assoc,          \* UserIdSockAssociations: the socket of a user, 0: none
  conn,           \* sockets: whose, still open, appId set, told M_ENTER__SHARD,
                  \* and whether its client has asked for another shard
  events,         \* the receive queue of the client server
  offers,         \* clients: cookies and addresses they have been given
  cookieTimeouts  \* cookies dropped so far

fsVars == <<pending, assoc, conn, events, offers, cookieTimeouts>>

Conns == 1..MaxConns
Conn  == [u : Users, used : BOOLEAN, open : BOOLEAN, app : BOOLEAN,
          entered : BOOLEAN, asked : BOOLEAN]
Event == [ev : {"validation", "disconnection"}, k : Conns, ck : Cookie]
Offer == [ck : Cookie, f : Fess]

FSTypeOK ==
  /\ pending \in [Fess -> SUBSET [u : Users, ck : Cookie]]
  /\ assoc \in [Fess -> [Users -> Nat]]
  /\ conn \in [Fess -> [Conns -> Conn]]
  /\ events \in [Fess -> Seq(Event)]
  /\ offers \in [Users -> SUBSET Offer]
  /\ cookieTimeouts \in Nat

FreeConn == [u |-> CHOOSE u \in Users : TRUE, used |-> FALSE,
             open |-> FALSE, app |-> FALSE, entered |-> FALSE, asked |-> FALSE]

FSInit ==
  /\ pending = [f \in Fess |-> {}]
  /\ assoc = [f \in Fess |-> [u \in Users |-> 0]]
  /\ conn = [f \in Fess |-> [k \in Conns |-> FreeConn]]
  /\ events = [f \in Fess |-> << >>]
  /\ offers = [u \in Users |-> {}]
  /\ cookieTimeouts = 0

-----------------------------------------------------------------------------
(* Helpers *)

Disconnection(k) == [ev |-> "disconnection", k |-> k, ck |-> NoCookie]

(* CCallbackServer::disconnect on the sockets K of f: each open one is     *)
(* closed, and its disconnection is queued behind `evs`.                   *)
Closed(f, K) == [k \in Conns |-> IF k \in K THEN [conn[f][k] EXCEPT !.open = FALSE]
                                           ELSE conn[f][k]]
Advertised(f, evs, k) ==
  IF k \in Conns /\ conn[f][k].open THEN Append(evs, Disconnection(k)) ELSE evs

(* DisconnectAccount *)
DisconnectAccount(f, u) ==
  /\ conn' = [conn EXCEPT ![f] = Closed(f, {assoc[f][u]})]
  /\ events' = [events EXCEPT ![f] = Advertised(f, @, assoc[f][u])]
  /\ assoc' = [assoc EXCEPT ![f][u] = 0]

CookiesOf(f, u) == {p \in pending[f] : p.u = u}
(* A faulty variant: an older cookie of the user is not dropped. *)
AnnouncedToo(f, u, ck) == pending[f] \cup {[u |-> u, ck |-> ck]}
(* The cookies of f once `ck` is announced for u: it replaces any other of *)
(* u.                                                                      *)
Announced(f, u, ck) ==
  (pending[f] \ CookiesOf(f, u)) \cup {[u |-> u, ck |-> ck]}

-----------------------------------------------------------------------------
(* From the welcome service *)

(* cbWSChooseShard: the user's session here is closed, an older cookie of  *)
(* the user is dropped (the WS is not told), the new one waits.            *)
FSChooseShard(f) ==
  /\ Pending(ShardOf[f], f, "M_ENTER_SHARD_REQUEST")
  /\ LET m == Head(net[<<ShardOf[f], f>>])
     IN  /\ DisconnectAccount(f, m.u)
         /\ pending' = [pending EXCEPT ![f] = Announced(f, m.u, m.ck)]
         /\ Receive(ShardOf[f], f, To(ShardOf[f],
              [m EXCEPT !.kind = "M_ENTER_SHARD_ANSWER", !.f = f, !.v = 0]))
  /\ UNCHANGED <<offers, cookieTimeouts, dbFaults>>

(* cbWSDisconnectClient *)
FSDisconnectClient(f) ==
  /\ Pending(ShardOf[f], f, "M_CLIENT_DISCONNECT")
  /\ DisconnectAccount(f, Head(net[<<ShardOf[f], f>>]).u)
  /\ Receive(ShardOf[f], f, Silent)
  /\ UNCHANGED <<pending, offers, cookieTimeouts, dbFaults>>

(* cbWSEnterShardOk: the user's socket, if there is one, may play. *)
FSEnterShardOk(f) ==
  /\ Pending(ShardOf[f], f, "M_ENTER__SHARD")
  /\ LET k == assoc[f][Head(net[<<ShardOf[f], f>>]).u]
     IN  conn' = IF k = 0 THEN conn
                 ELSE [conn EXCEPT ![f][k].entered = conn[f][k].open]
  /\ Receive(ShardOf[f], f, Silent)
  /\ UNCHANGED <<pending, assoc, events, offers, cookieTimeouts, dbFaults>>

(* cbS_toClientAfterFID with M_SC_CHANGE_SHARD_ANS: the client gets the    *)
(* address of the next front end and the cookie to show there.             *)
FSChangeShardAns(f) ==
  /\ Pending(ShardOf[f], f, "M_SC_CHANGE_SHARD_ANS")
  /\ LET m == Head(net[<<ShardOf[f], f>>])
         K == {k \in Conns : /\ conn[f][k].u = m.u
                             /\ conn[f][k].open /\ conn[f][k].entered}
     IN  /\ offers' = [offers EXCEPT ![m.u] =
              IF K # {} /\ m.v = 0 THEN @ \cup {[ck |-> m.ck, f |-> m.f]} ELSE @]
         /\ conn' = [conn EXCEPT ![f] = [k \in Conns |->
              IF k \in K THEN [@[k] EXCEPT !.asked = FALSE] ELSE @[k]]]
  /\ Receive(ShardOf[f], f, Silent)
  /\ UNCHANGED <<pending, assoc, events, cookieTimeouts, dbFaults>>

-----------------------------------------------------------------------------
(* From the clients *)

(* cbShardValidation with a cookie that is pending (isValidCookie): the WS *)
(* is told, the socket becomes the user's (onConnectionClient sets appId). *)
FSShardValidation(f) ==
  /\ events[f] # << >>
  /\ LET e == Head(events[f])
         u == conn[f][e.k].u
         p == [u |-> u, ck |-> e.ck]
     IN  /\ e.ev = "validation"
         /\ p \in pending[f]
         /\ pending' = [pending EXCEPT ![f] = @ \ {p}]
         /\ conn' = [conn EXCEPT ![f] =
              [Closed(f, {assoc[f][u]}) EXCEPT ![e.k].app = TRUE]]
         /\ events' = [events EXCEPT ![f] = Advertised(f, Tail(@), assoc[f][u])]
         /\ assoc' = [assoc EXCEPT ![f][u] = e.k]
         /\ Emit(f, To(ShardOf[f], [Msg("M_CLIENT_CONNECT_STATUS", u) EXCEPT
                                      !.v = 1, !.ck = e.ck]))
  /\ UNCHANGED <<offers, cookieTimeouts, dbFaults>>

(* cbShardValidation with any other cookie: the socket is disconnected,    *)
(* and so is the session the user already had.                             *)
FSInvalidCookie(f) ==
  /\ events[f] # << >>
  /\ LET e == Head(events[f])
         u == conn[f][e.k].u
     IN  /\ e.ev = "validation"
         /\ [u |-> u, ck |-> e.ck] \notin pending[f]
         /\ conn' = [conn EXCEPT ![f] = Closed(f, {assoc[f][u], e.k})]
         /\ events' = [events EXCEPT ![f] =
              Advertised(f, Advertised(f, Tail(@), assoc[f][u]), e.k)]
         /\ assoc' = [assoc EXCEPT ![f][u] = 0]
  /\ UNCHANGED <<pending, offers, cookieTimeouts, netVars>>

(* Faulty variants: a socket that was refused is reported as well; only    *)
(* the socket that is still the user's association is.                     *)
ReportedAlways(f, k) == TRUE
ReportedIfCurrent(f, k) == conn[f][k].app /\ assoc[f][conn[f][k].u] = k
(* A disconnection is reported to the WS for a socket with an appId. *)
Reported(f, k) == conn[f][k].app
(* onDisconnectClient, onClientDisconnected: reported for a socket that    *)
(* was validated; the association erased is the user's, whosever socket it *)
(* is by now.                                                              *)
FSDisconnected(f) ==
  /\ events[f] # << >>
  /\ LET e == Head(events[f])
         c == conn[f][e.k]
     IN  /\ e.ev = "disconnection"
         /\ conn' = [conn EXCEPT ![f][e.k] = FreeConn]
         /\ events' = [events EXCEPT ![f] = Tail(@)]
         /\ IF Reported(f, e.k)
            THEN /\ assoc' = [assoc EXCEPT ![f][c.u] = 0]
                 /\ Emit(f, To(ShardOf[f], Msg("M_CLIENT_CONNECT_STATUS", c.u)))
            ELSE UNCHANGED <<assoc, net>>
  /\ UNCHANGED <<pending, offers, cookieTimeouts, dbFaults>>

(* refreshPendingList: a cookie nobody has shown for 15 minutes. *)
FSRefreshPending(f) ==
  /\ cookieTimeouts < MaxCookieTimeouts
  /\ cookieTimeouts' = cookieTimeouts + 1
  /\ \E p \in pending[f] :
       /\ pending' = [pending EXCEPT ![f] = @ \ {p}]
       /\ Emit(f, To(ShardOf[f], [Msg("M_LOGIN_SERVER_RPC", p.u) EXCEPT !.ck = p.ck]))
  /\ UNCHANGED <<assoc, conn, events, offers, dbFaults>>

(* A client connects to a front end it has been sent to, with its cookie. *)
ClientConnect(u) ==
  /\ \E o \in offers[u], k \in Conns :
       /\ ~conn[o.f][k].used
       /\ \A j \in Conns : j < k => conn[o.f][j].used
       /\ offers' = [offers EXCEPT ![u] = @ \ {o}]
       /\ conn' = [conn EXCEPT ![o.f][k] =
            [FreeConn EXCEPT !.u = u, !.used = TRUE, !.open = TRUE]]
       /\ events' = [events EXCEPT ![o.f] =
            Append(@, [ev |-> "validation", k |-> k, ck |-> o.ck])]
  /\ UNCHANGED <<pending, assoc, cookieTimeouts, netVars>>

(* A client closes its socket, or its connection breaks. *)
ClientClose(f, k) ==
  /\ conn[f][k].open
  /\ ClientsWait => conn[f][k].entered
  /\ conn' = [conn EXCEPT ![f] = Closed(f, {k})]
  /\ events' = [events EXCEPT ![f] = Advertised(f, @, k)]
  /\ UNCHANGED <<pending, assoc, offers, cookieTimeouts, netVars>>

(* cbC_toWelcomeService with M_CS_CHANGE_SHARD_REQ from a client in a room. *)
Leaving(u) == \/ offers[u] # {}
              \/ \E g \in Fess, j \in Conns :
                   /\ conn[g][j].u = u /\ conn[g][j].open
                   /\ ~conn[g][j].entered \/ conn[g][j].asked
FSChangeShardReq(f, k) ==
  /\ conn[f][k].open /\ conn[f][k].entered
  /\ ClientsWait => ~Leaving(conn[f][k].u)
  /\ conn' = [conn EXCEPT ![f][k].asked = TRUE]
  /\ \E s \in Shards :
       Emit(f, To(ShardOf[f],
         [Msg("M_CS_CHANGE_SHARD_REQ", conn[f][k].u) EXCEPT !.s = s]))
  /\ UNCHANGED <<pending, assoc, events, offers, cookieTimeouts, dbFaults>>

FSNext ==
  \E f \in Fess :
    \/ FSChooseShard(f) \/ FSDisconnectClient(f) \/ FSEnterShardOk(f)
    \/ FSChangeShardAns(f) \/ FSShardValidation(f) \/ FSInvalidCookie(f)
    \/ FSDisconnected(f) \/ FSRefreshPending(f)

-----------------------------------------------------------------------------
(* What a front end is to keep *)

(* A front end never keeps a session and a cookie of the same user, nor    *)
(* two cookies: a new cookie closes the session, a session spends it.      *)
CookieOrSession ==
  \A f \in Fess, u \in Users :
    /\ assoc[f][u] = 0 \/ CookiesOf(f, u) = {}
    /\ \A p, q \in CookiesOf(f, u) : p = q

(* An association names a validated socket of its user that is open or     *)
(* whose disconnection is queued: the socket is not given to another       *)
(* client before its disconnection has been handled.                       *)
AssociationsName ==
  \A f \in Fess, u \in Users : assoc[f][u] # 0 =>
    LET k == assoc[f][u]
    IN  /\ k \in Conns
        /\ conn[f][k].used /\ conn[f][k].app /\ conn[f][k].u = u
        /\ conn[f][k].open \/ \E i \in DOMAIN events[f] : events[f][i] = Disconnection(k)
=============================================================================
