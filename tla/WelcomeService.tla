--------------------------- MODULE WelcomeService ---------------------------
(***************************************************************************)
(* The welcome service (WS) of every shard: it spreads the users over the  *)
(* front ends, records who is connected where, logs families in and out of *)
(* the shard's database and copies their data between shards               *)
(* (welcome_service/welcome_service.cpp).                                  *)
(***************************************************************************)
EXTENDS ShardNet

VARIABLES
  nbUser,       \* CFES::NbUser
  nbPending,    \* CFES::NbPendingUsers
  wsAssoc,      \* UserIdSockAssociations of every WS
  jobs,         \* queries queued on the WS's two database threads
  fesList,      \* FESList: the front ends the WSs know
  data          \* shard databases: the version of a family's data held there

wsVars == <<nbUser, nbPending, wsAssoc, jobs, fesList, data>>

Job == [job : {"FamilyLogout", "ForcedLogout", "GetUserMoveData"},
        u : Users, to : ShardOrNone]

WSTypeOK ==
  /\ nbUser \in [Fess -> Nat] /\ nbPending \in [Fess -> Nat]
  /\ wsAssoc \in [Shards -> [Users -> FesOrNone]]
  /\ jobs \in [Shards -> Seq(Job)]
  /\ fesList \in SUBSET Fess
  /\ data \in [Shards -> [Users -> Nat]]

WSInit ==
  /\ nbUser = [f \in Fess |-> 0] /\ nbPending = [f \in Fess |-> 0]
  /\ wsAssoc = [s \in Shards |-> [u \in Users |-> NoFes]]
  /\ jobs = [s \in Shards |-> << >>]
  /\ fesList = Fess

-----------------------------------------------------------------------------
(* Helpers *)

FesOf(s) == {f \in Fess : ShardOf[f] = s}

(* getUsersCountHeuristic, findBestFES *)
Load(f) == nbUser[f] + nbPending[f]
Best(s) == LET F == FesOf(s) \cap fesList
           IN  {f \in F : \A g \in F : Load(f) <= Load(g)}

(* A faulty variant: the counter is decremented whatever its value. *)
DecrementAlways(n) == n - 1
(* The uint32 counters are only decremented when they are not zero. *)
Decrement(n) == IF n > 0 THEN n - 1 ELSE 0

Queued(s, job, u, to) ==
  [jobs EXCEPT ![s] = Append(@, [job |-> job, u |-> u, to |-> to])]

(* disconnectClient: the session's front end is told to close it. *)
DisconnectClient(s, u) ==
  IF wsAssoc[s][u] = NoFes THEN Silent
  ELSE To(wsAssoc[s][u], Msg("M_CLIENT_DISCONNECT", u))

-----------------------------------------------------------------------------
(* From a front end *)

(* LogoffClient: the session on f is forgotten, the family is logged out of *)
(* the shard's database by a queued query.                                  *)
LogoffClient(f, u) ==
  /\ nbUser' = [nbUser EXCEPT ![f] = Decrement(@)]
  /\ wsAssoc' = [wsAssoc EXCEPT ![ShardOf[f]][u] = NoFes]
  /\ jobs' = Queued(ShardOf[f], "FamilyLogout", u, NoShard)

(* cbFESShardChooseShard *)
WSShardAnswer(f) ==
  /\ Pending(f, ShardOf[f], "M_ENTER_SHARD_ANSWER")
  /\ Receive(f, ShardOf[f], To(LS, Head(net[<<f, ShardOf[f]>>])))
  /\ UNCHANGED <<wsVars, dbFaults>>

(* LoginClient: the query that logs the family in is synchronous. An older *)
(* association of the user is not overwritten by map::insert.              *)
WSLoginClient(f) ==
  /\ Pending(f, ShardOf[f], "M_CLIENT_CONNECT_STATUS")
  /\ \E fails \in BOOLEAN :
       LET s == ShardOf[f]
           m == Head(net[<<f, s>>])
       IN  /\ m.v = 1
           /\ Queries(fails)
           /\ IF fails
              THEN /\ LogoffClient(f, m.u)
                   /\ UNCHANGED nbPending
                   /\ Receive(f, s, To(f, Msg("M_CLIENT_DISCONNECT", m.u)))
              ELSE /\ nbUser' = [nbUser EXCEPT ![f] = @ + 1]
                   /\ nbPending' = [nbPending EXCEPT ![f] = Decrement(@)]
                   /\ wsAssoc' = [wsAssoc EXCEPT ![s][m.u] =
                                    IF @ = NoFes THEN f ELSE @]
                   /\ UNCHANGED jobs
                   /\ Receive(f, s, To(LS, [m EXCEPT !.fsSid = f]))
  /\ UNCHANGED <<fesList, data>>

(* cb_M_CLIENT_CONNECT_STATUS, con=0 *)
WSLogoffClient(f) ==
  /\ Pending(f, ShardOf[f], "M_CLIENT_CONNECT_STATUS")
  /\ LET m == Head(net[<<f, ShardOf[f]>>])
     IN  m.v = 0 /\ LogoffClient(f, m.u)
  /\ Receive(f, ShardOf[f], Silent)
  /\ UNCHANGED <<nbPending, fesList, data, dbFaults>>

(* cbFESRemovedPendingCookie *)
WSRemovedPendingCookie(f) ==
  /\ Pending(f, ShardOf[f], "M_LOGIN_SERVER_RPC")
  /\ nbPending' = [nbPending EXCEPT ![f] = Decrement(@)]
  /\ Receive(f, ShardOf[f], To(LS, Head(net[<<f, ShardOf[f]>>])))
  /\ UNCHANGED <<nbUser, wsAssoc, jobs, fesList, data, dbFaults>>

(* cb_M_CS_CHANGE_SHARD_REQ: a request for this very shard is ignored. *)
WSChangeShardReq(f) ==
  /\ Pending(f, ShardOf[f], "M_CS_CHANGE_SHARD_REQ")
  /\ LET m == Head(net[<<f, ShardOf[f]>>])
     IN  Receive(f, ShardOf[f], IF m.s = ShardOf[f] THEN Silent
                                ELSE To(LS, [m EXCEPT !.fsSid = f]))
  /\ UNCHANGED <<wsVars, dbFaults>>

-----------------------------------------------------------------------------
(* From the login service *)

(* A faulty variant: a refusal nobody is told of. *)
WSNoFrontendSilent(s) ==
  /\ Pending(LS, s, "M_ENTER_SHARD_REQUEST")
  /\ Best(s) = {}
  /\ Receive(LS, s, Silent)
  /\ UNCHANGED <<wsVars, dbFaults>>
(* cbLSChooseShard, lsChooseShard: no front end ... *)
WSNoFrontend(s) ==
  /\ Pending(LS, s, "M_ENTER_SHARD_REQUEST")
  /\ Best(s) = {}
  /\ Receive(LS, s, To(LS, [Head(net[<<LS, s>>]) EXCEPT
                              !.kind = "M_ENTER_SHARD_ANSWER", !.v = 1]))
  /\ UNCHANGED <<wsVars, dbFaults>>

(* A faulty variant: the client sent to a front end is not counted. *)
WSChooseShardUncounted(s) ==
  /\ Pending(LS, s, "M_ENTER_SHARD_REQUEST")
  /\ \E f \in Best(s) : Receive(LS, s, To(f, Head(net[<<LS, s>>])))
  /\ UNCHANGED <<wsVars, dbFaults>>
(* ... or the least loaded one is offered the cookie. *)
WSChooseShard(s) ==
  /\ Pending(LS, s, "M_ENTER_SHARD_REQUEST")
  /\ \E f \in Best(s) :
       /\ nbPending' = [nbPending EXCEPT ![f] = @ + 1]
       /\ Receive(LS, s, To(f, Head(net[<<LS, s>>])))
  /\ UNCHANGED <<nbUser, wsAssoc, jobs, fesList, data, dbFaults>>

(* cbLSDisconnectClient *)
WSDisconnectClient(s) ==
  /\ Pending(LS, s, "M_CLIENT_DISCONNECT")
  /\ Receive(LS, s, DisconnectClient(s, Head(net[<<LS, s>>]).u))
  /\ UNCHANGED <<wsVars, dbFaults>>

(* cb_M_NT_REQ_FORCE_LOGOFF: an online session is closed, and its logoff   *)
(* will follow; of a user who is not online the database is cleaned up.    *)
WSForceLogoff(s) ==
  /\ Pending(LS, s, "M_NT_REQ_FORCE_LOGOFF")
  /\ LET u == Head(net[<<LS, s>>]).u
     IN  /\ jobs' = IF wsAssoc[s][u] # NoFes THEN jobs
                    ELSE Queued(s, "ForcedLogout", u, NoShard)
         /\ Receive(LS, s, DisconnectClient(s, u))
  /\ UNCHANGED <<nbUser, nbPending, wsAssoc, fesList, data, dbFaults>>

(* cb_M_ENTER__SHARD and cbToRoomService: passed on to the front end. *)
WSRelayToFES(s) ==
  /\ \/ Pending(LS, s, "M_ENTER__SHARD")
     \/ Pending(LS, s, "M_SC_CHANGE_SHARD_ANS")
  /\ LET m == Head(net[<<LS, s>>])
     IN  Receive(LS, s, IF m.fsSid = NoFes THEN Silent ELSE To(m.fsSid, m))
  /\ UNCHANGED <<wsVars, dbFaults>>

(* cb_M_NT_MOVE_USER_DATA_REQ *)
WSMoveUserDataReq(s) ==
  /\ Pending(LS, s, "M_NT_MOVE_USER_DATA_REQ")
  /\ LET m == Head(net[<<LS, s>>])
     IN  jobs' = Queued(s, "GetUserMoveData", m.u, m.s)
  /\ Receive(LS, s, Silent)
  /\ UNCHANGED <<nbUser, nbPending, wsAssoc, fesList, data, dbFaults>>

-----------------------------------------------------------------------------
(* Between welcome services, and the database threads *)

(* cb_M_NT_SEND_USER_DATA: the four parts are one message here. *)
WSSendUserData(from, s) ==
  /\ Pending(from, s, "M_NT_SEND_USER_DATA")
  /\ LET m == Head(net[<<from, s>>])
     IN  /\ data' = [data EXCEPT ![s][m.u] = m.v]
         /\ Receive(from, s, To(LS, Msg("M_NT_MOVE_USER_DATA_END", m.u)))
  /\ UNCHANGED <<nbUser, nbPending, wsAssoc, jobs, fesList, dbFaults>>

(* A faulty variant: the ends of logoff queries are not reported. *)
JobOutboxOfMoves(s, j) ==
  IF j.job # "GetUserMoveData" THEN Silent
  ELSE To(j.to, [Msg("M_NT_SEND_USER_DATA", j.u) EXCEPT !.v = data[s][j.u]])
(* DBCB_DBFamilyLogout, DBCB_DBFamilyLogoutForForceLogoff and              *)
(* DBCB_DBGetUserMoveData: what is sent when the query has succeeded.      *)
JobOutbox(s, j) ==
  CASE j.job = "FamilyLogout" -> To(LS, Msg("M_CLIENT_CONNECT_STATUS", j.u))
    [] j.job = "ForcedLogout" -> To(LS, Msg("M_LS_RELOGOFF", j.u))
    [] j.job = "GetUserMoveData" ->
         To(j.to, [Msg("M_NT_SEND_USER_DATA", j.u) EXCEPT !.v = data[s][j.u]])

(* One of the (at most two) queries in progress ends. A callback does      *)
(* nothing at all when its query has failed.                               *)
WSQueryDone(s) ==
  /\ \E i \in DOMAIN jobs[s], fails \in BOOLEAN :
       /\ i <= 2
       /\ Queries(fails)
       /\ jobs' = [jobs EXCEPT ![s] = SubSeq(@, 1, i - 1) \o SubSeq(@, i + 1, Len(@))]
       /\ Emit(s, IF fails THEN Silent ELSE JobOutbox(s, jobs[s][i]))
  /\ UNCHANGED <<nbUser, nbPending, wsAssoc, fesList, data>>

WSNext ==
  \/ \E f \in Fess :
       \/ WSShardAnswer(f) \/ WSLoginClient(f) \/ WSLogoffClient(f)
       \/ WSRemovedPendingCookie(f) \/ WSChangeShardReq(f)
  \/ \E s \in Shards :
       \/ WSNoFrontend(s) \/ WSChooseShard(s) \/ WSDisconnectClient(s)
       \/ WSForceLogoff(s) \/ WSRelayToFES(s) \/ WSMoveUserDataReq(s)
       \/ WSQueryDone(s)
       \/ \E from \in Shards \ {s} : WSSendUserData(from, s)
=============================================================================
