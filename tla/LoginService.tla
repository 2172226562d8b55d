---------------------------- MODULE LoginService ----------------------------
(***************************************************************************)
(* The login service (LS): it admits a user to a shard, keeps at most one  *)
(* shard session per user, and moves the user's data to the shard the user *)
(* enters (login_service/connection_ss.cpp, connection_ws.cpp).            *)
(***************************************************************************)
EXTENDS ShardNet, FiniteSets

CONSTANTS
  UserLimit,     \* CShardInfo::m_nUserLimit
  BusyPercent,   \* ShardState_Busy, 60 by default
  MaxMoveTimeouts \* bound: data moves dropped by the one-minute timer

ASSUME LimitsOK ==
  /\ UserLimit \in [Shards -> Nat]
  /\ BusyPercent \in Nat
  /\ MaxMoveTimeouts \in Nat

VARIABLES
  lastKey,      \* the key of the last cookie generated
  tempCookie,   \* TempCookies: the shard of the cookie waiting for its client
  loginCookie,  \* g_mapUserLoginCookie
  current,      \* g_mapCurrentUserWsSid
  waiting,      \* g_mapWaitingLogoffUserList
  changeReq,    \* g_ChangeShardReqList
  moving,       \* g_mapMoveDataUsers
  abnormal,     \* AbnormalLogoffUsers
  infoCur,      \* g_mapUserInfoForDB[u].m_nCurShardID, NoShard: not loaded
  nPlayers,     \* CShardInfo::m_nPlayers
  moveTimeouts  \* moves dropped so far

lsVars == <<lastKey, tempCookie, loginCookie, current, waiting, changeReq,
            moving, abnormal, infoCur, nPlayers, moveTimeouts>>

Place   == [s : ShardOrNone, f : FesOrNone]     \* a front end of a shard
Nowhere == [s |-> NoShard, f |-> NoFes]
(* reason 0: bring the data home after a logoff, 1: a client waits for it *)
Move    == [to : ShardOrNone, f : FesOrNone, reason : {0, 1}]
NoMove  == [to |-> NoShard, f |-> NoFes, reason |-> 0]

LSTypeOK ==
  /\ lastKey \in Nat /\ moveTimeouts \in Nat
  /\ tempCookie \in [Users -> ShardOrNone]
  /\ loginCookie \in [Users -> Cookie]
  /\ current \in [Users -> ShardOrNone]
  /\ waiting \in [Users -> Place]
  /\ changeReq \in [Users -> Place]
  /\ moving \in [Users -> Move]
  /\ abnormal \in [Users -> BOOLEAN]
  /\ infoCur \in [Users -> ShardOrNone]
  /\ nPlayers \in [Shards -> Nat]

LSInit ==
  /\ lastKey = 0 /\ moveTimeouts = 0
  /\ tempCookie = [u \in Users |-> NoShard]
  /\ loginCookie = [u \in Users |-> NoCookie]
  /\ current = [u \in Users |-> NoShard]
  /\ waiting = [u \in Users |-> Nowhere]
  /\ changeReq = [u \in Users |-> Nowhere]
  /\ moving = [u \in Users |-> NoMove]
  /\ abnormal = [u \in Users |-> FALSE]
  /\ infoCur = [u \in Users |-> NoShard]
  /\ nPlayers = [s \in Shards |-> 0]

-----------------------------------------------------------------------------
(* Helpers *)

ToSS(kind, u) == To(SS, Msg(kind, u))

(* CanEnterShard for an ordinary user of an active shard. *)
CanEnterShard(u, s) ==
  /\ nPlayers[s] < UserLimit[s]
  /\ MainShard[u] # s => nPlayers[s] * 100 <= UserLimit[s] * BusyPercent

(* A faulty variant: the shard that is to get the data is asked for it. *)
MoveRequestBackwards(u, from, to) ==
  To(to, [Msg("M_NT_MOVE_USER_DATA_REQ", u) EXCEPT !.s =
            IF MainShard[u] \in {from, to} THEN from ELSE MainShard[u]])
(* MoveUserDataStartInShard: data always travels through the main shard. *)
MoveRequest(u, from, to) ==
  To(from, [Msg("M_NT_MOVE_USER_DATA_REQ", u) EXCEPT !.s =
              IF MainShard[u] \in {from, to} THEN to ELSE MainShard[u]])

(* SendEnterShardOk: the shard's WS passes it on to the front end. *)
EnterShardOk(u, s, f) == To(s, [Msg("M_ENTER__SHARD", u) EXCEPT !.fsSid = f])

(* The main database: Main_user_loginUSERtoShard records a user who is     *)
(* recorded nowhere, Main_user_logoffUSERtoShard one recorded on s.        *)
LoginResult(online, s, fails) ==
  IF fails THEN "E_DBERR"
  ELSE IF online = NoShard THEN "ERR_NOERR"
  ELSE IF online = s THEN "ERR_ALREADYONLINE" ELSE "ERR_IMPROPERSHARD"
LogoffResult(online, s, fails) ==
  IF fails THEN "E_DBERR"
  ELSE IF online = NoShard THEN "ERR_ALREADYOFFLINE"
  ELSE IF online = s THEN "ERR_NOERR" ELSE "ERR_IMPROPERSHARD"

(* ResetSomeVariablesWhenLogin, the bookkeeping part. *)
ResetSession(u) ==
  /\ changeReq' = [changeReq EXCEPT ![u] = Nowhere]
  /\ loginCookie' = [loginCookie EXCEPT ![u] = NoCookie]
  /\ current' = [current EXCEPT ![u] = NoShard]
  /\ waiting' = [waiting EXCEPT ![u] = Nowhere]
(* ResetSomeVariablesWhenLogin, the part that loads the user's shard. *)
LoadedShard(u) == IF dbCur[u] = NoShard THEN MainShard[u] ELSE dbCur[u]
LoadUserInfo(u) ==
  IF infoCur[u] = NoShard
  THEN /\ infoCur' = [infoCur EXCEPT ![u] = LoadedShard(u)]
       /\ dbCur' = [dbCur EXCEPT ![u] = LoadedShard(u)]
  ELSE UNCHANGED <<infoCur, dbCur>>
(* SendShardListToSS: the list goes to SS, the user's session starts over. *)
SendShardListToSS(u) == ResetSession(u) /\ LoadUserInfo(u)

-----------------------------------------------------------------------------
(* From the start service *)

(* cbSSShardsList *)
LSShardsList ==
  /\ Pending(SS, LS, "M_SC_SHARDS")
  /\ LET u == Head(net[<<SS, LS>>]).u
     IN  /\ SendShardListToSS(u)
         /\ Receive(SS, LS, ToSS("M_SC_SHARDS", u))
  /\ UNCHANGED <<lastKey, tempCookie, moving, abnormal, nPlayers,
                 moveTimeouts, dbOnline, dbFaults>>

(* cbSSChooseShard: the user's request for a shard is refused ...          *)
LSChooseShardRefused ==
  /\ Pending(SS, LS, "M_ENTER_SHARD_REQUEST")
  /\ LET m == Head(net[<<SS, LS>>])
     IN  /\ ~CanEnterShard(m.u, m.s)
         /\ Receive(SS, LS, ToSS("M_SC_FAIL", m.u))
  /\ UNCHANGED <<lsVars, dbVars, dbFaults>>

(* ... or a cookie is made for it and offered to the shard's WS. A cookie   *)
(* that already waits for its client keeps its place in TempCookies.        *)
LSChooseShard ==
  /\ Pending(SS, LS, "M_ENTER_SHARD_REQUEST")
  /\ LET m  == Head(net[<<SS, LS>>])
         ck == [key |-> lastKey + 1, sock |-> m.v]
     IN  /\ CanEnterShard(m.u, m.s)
         /\ lastKey' = lastKey + 1
         /\ loginCookie' = [loginCookie EXCEPT ![m.u] = ck]
         /\ tempCookie' = [tempCookie EXCEPT ![m.u] =
                             IF @ = NoShard THEN m.s ELSE @]
         /\ Receive(SS, LS, To(m.s,
              [Msg("M_ENTER_SHARD_REQUEST", m.u) EXCEPT !.ck = ck]))
  /\ UNCHANGED <<current, waiting, changeReq, moving, abnormal, infoCur,
                 nPlayers, moveTimeouts, dbVars, dbFaults>>

(* cbDisconnectClient *)
LSDisconnectClient ==
  /\ Pending(SS, LS, "M_CLIENT_DISCONNECT")
  /\ LET u == Head(net[<<SS, LS>>]).u
     IN  Receive(SS, LS, IF tempCookie[u] = NoShard THEN Silent
                         ELSE To(tempCookie[u], Msg("M_CLIENT_DISCONNECT", u)))
  /\ UNCHANGED <<lsVars, dbVars, dbFaults>>

(* cb_M_NT_REQ_FORCE_LOGOFF: every SS, and the WS the user's data is on.   *)
LSForceLogoff ==
  /\ Pending(SS, LS, "M_NT_REQ_FORCE_LOGOFF")
  /\ LET m == Head(net[<<SS, LS>>])
         out == [Msg("M_NT_REQ_FORCE_LOGOFF", m.u) EXCEPT !.v = m.v]
     IN  /\ abnormal' = [abnormal EXCEPT ![m.u] = TRUE]
         /\ Receive(SS, LS, To(SS, out) \oplus
              (IF infoCur[m.u] = NoShard THEN Silent ELSE To(infoCur[m.u], out)))
  /\ UNCHANGED <<lastKey, tempCookie, loginCookie, current, waiting, changeReq,
                 moving, infoCur, nPlayers, moveTimeouts, dbVars, dbFaults>>

-----------------------------------------------------------------------------
(* From a welcome service *)

(* cbWSShardChooseShard: the front end is ready for the cookie. Without a  *)
(* cookie in TempCookies the answer belongs to a change of shard, if any.  *)
LSShardAnswer(s) ==
  /\ Pending(s, LS, "M_ENTER_SHARD_ANSWER")
  /\ LET m   == Head(net[<<s, LS>>])
         req == changeReq[m.u]
     IN  \/ /\ tempCookie[m.u] # NoShard
            /\ Receive(s, LS, To(SS, m))
            /\ UNCHANGED changeReq
         \/ /\ tempCookie[m.u] = NoShard /\ req # Nowhere
            /\ changeReq' = [changeReq EXCEPT ![m.u] = Nowhere]
            /\ Receive(s, LS, To(req.s,
                 [m EXCEPT !.kind = "M_SC_CHANGE_SHARD_ANS", !.fsSid = req.f]))
         \/ /\ tempCookie[m.u] = NoShard /\ req = Nowhere
            /\ Receive(s, LS, Silent)
            /\ UNCHANGED changeReq
  /\ UNCHANGED <<lastKey, tempCookie, loginCookie, current, waiting, moving,
                 abnormal, infoCur, nPlayers, moveTimeouts, dbVars, dbFaults>>

(* cbWSRemovedPendingCookie *)
LSRemovedPendingCookie(s) ==
  /\ Pending(s, LS, "M_LOGIN_SERVER_RPC")
  /\ tempCookie' = [tempCookie EXCEPT ![Head(net[<<s, LS>>]).u] = NoShard]
  /\ Receive(s, LS, Silent)
  /\ UNCHANGED <<lastKey, loginCookie, current, waiting, changeReq, moving,
                 abnormal, infoCur, nPlayers, moveTimeouts, dbVars, dbFaults>>

(* cbWSReviseLogoff: the WS logged off a user it had no session of.        *)
LSReviseLogoff(s) ==
  /\ Pending(s, LS, "M_LS_RELOGOFF")
  /\ \E fails \in BOOLEAN :
       LET u   == Head(net[<<s, LS>>]).u
           res == LogoffResult(dbOnline[u], s, fails)
           ok  == res \in {"ERR_NOERR", "ERR_ALREADYOFFLINE"}
       IN  /\ Queries(fails)
           /\ dbOnline' = [dbOnline EXCEPT ![u] = IF ok THEN NoShard ELSE @]
           /\ abnormal' = [abnormal EXCEPT ![u] = FALSE]
           /\ Receive(s, LS, (IF ok THEN Silent ELSE ToSS("M_SC_FAIL", u)) \oplus
                (IF ok /\ abnormal[u] THEN ToSS("M_SC_SHARDS", u) ELSE Silent))
           /\ IF ok /\ abnormal[u] THEN SendShardListToSS(u)
              ELSE UNCHANGED <<changeReq, loginCookie, current, waiting,
                               infoCur, dbCur>>
  /\ UNCHANGED <<lastKey, tempCookie, moving, nPlayers, moveTimeouts>>

(* Faulty variants: nobody is ever elsewhere; everybody not here is. *)
NeverElsewhere(u, s) == FALSE
NotHere(u, s) == current[u] # s
(* g_mapCurrentUserWsSid has the user, on a shard other than s. *)
OnAnotherShard(u, s) == current[u] \notin {NoShard, s}
(* cbWSClientConnected, con=1 while the user is on another shard: the new  *)
(* session waits for the logoff of the old one.                            *)
LSClientMustWait(s) ==
  /\ Pending(s, LS, "M_CLIENT_CONNECT_STATUS")
  /\ LET m == Head(net[<<s, LS>>])
     IN  /\ m.v = 1
         /\ OnAnotherShard(m.u, s)
         /\ waiting' = [waiting EXCEPT ![m.u] =
                          IF @ = Nowhere THEN [s |-> s, f |-> m.fsSid] ELSE @]
         /\ Receive(s, LS, Silent)
  /\ UNCHANGED <<lastKey, tempCookie, loginCookie, current, changeReq, moving,
                 abnormal, infoCur, nPlayers, moveTimeouts, dbVars, dbFaults>>

(* The user's data is elsewhere and not on its way. *)
MoveBeforeEntry(u, s) == /\ moving[u] = NoMove
                         /\ infoCur[u] \notin {NoShard, s}
(* The move an entry starts, or takes over when one is on its way to s.    *)
MoveForEntry(u, s, f) ==
  IF MoveBeforeEntry(u, s) \/ (infoCur[u] # NoShard /\ moving[u].to = s)
  THEN [moving EXCEPT ![u] = [to |-> s, f |-> f, reason |-> 1]] ELSE moving
(* A faulty variant: a session that had waited is not counted. *)
AdmitUncounted(u, s, f, con, online, np, fails) ==
  LET ok == LoginResult(online, s, fails) = "ERR_NOERR"
  IN  /\ dbOnline' = [dbOnline EXCEPT ![u] = IF ok THEN s ELSE online]
      /\ nPlayers' = IF ok /\ con = 1 THEN [np EXCEPT ![s] = @ + 1] ELSE np
      /\ tempCookie' = [tempCookie EXCEPT ![u] = NoShard]
      /\ current' = [current EXCEPT ![u] = s]
      /\ moving' = MoveForEntry(u, s, f)
(* A faulty variant: the count stops at the limit of the shard. *)
AdmitUpToLimit(u, s, f, con, online, np, fails) ==
  LET ok == LoginResult(online, s, fails) = "ERR_NOERR"
  IN  /\ dbOnline' = [dbOnline EXCEPT ![u] = IF ok THEN s ELSE online]
      /\ nPlayers' = IF ok /\ np[s] < UserLimit[s]
                     THEN [np EXCEPT ![s] = @ + 1] ELSE np
      /\ tempCookie' = [tempCookie EXCEPT ![u] = NoShard]
      /\ current' = [current EXCEPT ![u] = s]
      /\ moving' = MoveForEntry(u, s, f)
(* A faulty variant: g_mapCurrentUserWsSid keeps an older entry, as        *)
(* map::insert would.                                                      *)
AdmitUnlessRecorded(u, s, f, con, online, np, fails) ==
  LET ok == LoginResult(online, s, fails) = "ERR_NOERR"
  IN  /\ dbOnline' = [dbOnline EXCEPT ![u] = IF ok THEN s ELSE online]
      /\ nPlayers' = IF ok THEN [np EXCEPT ![s] = @ + 1] ELSE np
      /\ tempCookie' = [tempCookie EXCEPT ![u] = NoShard]
      /\ current' = [current EXCEPT ![u] = IF @ = NoShard THEN s ELSE @]
      /\ moving' = MoveForEntry(u, s, f)
(* cbWSClientConnected from the second findShardWithSId on: user u enters  *)
(* shard s by front end f; `con` is what SS is told, np and online are the *)
(* player counts and the database record doConnectUserToShard finds.       *)
Admit(u, s, f, con, online, np, fails) ==
  LET ok == LoginResult(online, s, fails) = "ERR_NOERR"
  IN  /\ dbOnline' = [dbOnline EXCEPT ![u] = IF ok THEN s ELSE online]
      /\ nPlayers' = IF ok THEN [np EXCEPT ![s] = @ + 1] ELSE np
      /\ tempCookie' = [tempCookie EXCEPT ![u] = NoShard]
      /\ current' = [current EXCEPT ![u] = s]
      /\ moving' = MoveForEntry(u, s, f)
(* A faulty variant: the user is let in while its data is on its way. *)
AdmitOutboxAtOnce(u, s, f, con) ==
  To(SS, [Msg("M_CLIENT_CONNECT_STATUS", u) EXCEPT !.v = con]) \oplus
  EnterShardOk(u, s, f) \oplus
  (IF MoveBeforeEntry(u, s) THEN MoveRequest(u, infoCur[u], s) ELSE Silent)
(* A faulty variant: data that is elsewhere is not fetched. *)
AdmitOutboxOnlyHere(u, s, f, con) ==
  To(SS, [Msg("M_CLIENT_CONNECT_STATUS", u) EXCEPT !.v = con]) \oplus
  (IF moving[u] = NoMove /\ infoCur[u] = s THEN EnterShardOk(u, s, f) ELSE Silent)
(* What SS, the shard or the holder of the data is told by an entry. *)
AdmitOutbox(u, s, f, con) ==
  To(SS, [Msg("M_CLIENT_CONNECT_STATUS", u) EXCEPT !.v = con]) \oplus
  (IF moving[u] = NoMove /\ infoCur[u] = s THEN EnterShardOk(u, s, f)
   ELSE IF MoveBeforeEntry(u, s) THEN MoveRequest(u, infoCur[u], s) ELSE Silent)

(* cbWSClientConnected, con=1, the user is on no other shard. *)
LSClientConnected(s) ==
  /\ Pending(s, LS, "M_CLIENT_CONNECT_STATUS")
  /\ \E fails \in BOOLEAN :
       LET m == Head(net[<<s, LS>>])
       IN  /\ m.v = 1
           /\ ~OnAnotherShard(m.u, s)
           /\ Queries(fails)
           /\ Admit(m.u, s, m.fsSid, 1, dbOnline[m.u], nPlayers, fails)
           /\ Receive(s, LS, AdmitOutbox(m.u, s, m.fsSid, 1))
  /\ UNCHANGED <<lastKey, loginCookie, waiting, changeReq, abnormal, infoCur,
                 moveTimeouts, dbCur>>

(* doDisconnectUserToShard *)
OnlineAfterLogoff(u, s, fails) ==
  IF LogoffResult(dbOnline[u], s, fails) = "ERR_NOERR" THEN NoShard ELSE dbOnline[u]
PlayersAfterLogoff(u, s, fails) ==
  IF LogoffResult(dbOnline[u], s, fails) \in {"ERR_NOERR", "E_DBERR"} /\ nPlayers[s] > 0
  THEN [nPlayers EXCEPT ![s] = @ - 1] ELSE nPlayers

(* con=0 as SS gets it, after the shard list when the logoff was forced.   *)
LogoffOutbox(u) ==
  (IF abnormal[u] THEN ToSS("M_SC_SHARDS", u) ELSE Silent)
  \oplus ToSS("M_CLIENT_CONNECT_STATUS", u)

(* A faulty variant: the list of waiting sessions is not consulted. *)
WaitingForgotten(u) == TRUE
(* No session is to be admitted in the place of the one that ends. *)
NobodyWaits(u) == abnormal[u] \/ waiting[u] = Nowhere
(* cbWSClientConnected, con=0, no session waits (a forced logoff clears the *)
(* waiting list first): data left on a guest shard starts its way home.    *)
LSClientDisconnected(s) ==
  /\ Pending(s, LS, "M_CLIENT_CONNECT_STATUS")
  /\ \E fails \in BOOLEAN :
       LET m    == Head(net[<<s, LS>>])
           u    == m.u
           cur  == IF abnormal[u] /\ infoCur[u] = NoShard THEN LoadedShard(u)
                                                         ELSE infoCur[u]
           home == moving[u] = NoMove /\ cur \notin {NoShard, MainShard[u]}
       IN  /\ m.v = 0
           /\ NobodyWaits(u)
           /\ Queries(fails)
           /\ dbOnline' = [dbOnline EXCEPT ![u] = OnlineAfterLogoff(u, s, fails)]
           /\ nPlayers' = PlayersAfterLogoff(u, s, fails)
           /\ IF abnormal[u] THEN SendShardListToSS(u)
              ELSE /\ current' = [current EXCEPT ![u] = NoShard]
                   /\ UNCHANGED <<changeReq, loginCookie, waiting, infoCur, dbCur>>
           /\ abnormal' = [abnormal EXCEPT ![u] = FALSE]
           /\ moving' = [moving EXCEPT ![u] =
                IF home THEN [to |-> MainShard[u], f |-> NoFes, reason |-> 0] ELSE @]
           /\ Receive(s, LS, LogoffOutbox(u) \oplus
                (IF home THEN MoveRequest(u, cur, MainShard[u]) ELSE Silent))
  /\ UNCHANGED <<lastKey, tempCookie, moveTimeouts>>

(* cbWSClientConnected, con=0, and a session waits: it is admitted at once. *)
(* SS is told con=0 a second time: the variable still holds the logoff's.  *)
LSClientHandedOver(s) ==
  /\ Pending(s, LS, "M_CLIENT_CONNECT_STATUS")
  /\ \E failsOut, failsIn \in BOOLEAN :
       LET m == Head(net[<<s, LS>>])
           u == m.u
           w == waiting[u]
       IN  /\ m.v = 0
           /\ ~NobodyWaits(u)
           /\ ~(failsOut /\ failsIn)
           /\ Queries(failsOut \/ failsIn)
           /\ waiting' = [waiting EXCEPT ![u] = Nowhere]
           /\ Admit(u, w.s, w.f, 0, OnlineAfterLogoff(u, s, failsOut),
                    PlayersAfterLogoff(u, s, failsOut), failsIn)
           /\ Receive(s, LS, LogoffOutbox(u) \oplus AdmitOutbox(u, w.s, w.f, 0))
  /\ UNCHANGED <<lastKey, loginCookie, changeReq, abnormal, infoCur,
                 moveTimeouts, dbCur>>

(* cb_M_CS_CHANGE_SHARD_REQ: one request at a time, with the login's cookie. *)
LSChangeShardReq(s) ==
  /\ Pending(s, LS, "M_CS_CHANGE_SHARD_REQ")
  /\ LET m == Head(net[<<s, LS>>])
         accepted == changeReq[m.u] = Nowhere /\ loginCookie[m.u] # NoCookie
     IN  /\ changeReq' = [changeReq EXCEPT ![m.u] =
                           IF accepted THEN [s |-> s, f |-> m.fsSid] ELSE @]
         /\ Receive(s, LS, IF accepted
              THEN To(m.s, [Msg("M_ENTER_SHARD_REQUEST", m.u) EXCEPT
                              !.ck = loginCookie[m.u]])
              ELSE Silent)
  /\ UNCHANGED <<lastKey, tempCookie, loginCookie, current, waiting, moving,
                 abnormal, infoCur, nPlayers, moveTimeouts, dbVars, dbFaults>>

(* cb_M_NT_MOVE_USER_DATA_END: a copy has arrived on shard s. It ends the  *)
(* move, or was the first leg of one that goes on from the main shard.     *)
FirstLeg(mv, s) == mv # NoMove /\ mv.reason = 1 /\ mv.to # s
LSMoveDataEnd(s) ==
  /\ Pending(s, LS, "M_NT_MOVE_USER_DATA_END")
  /\ \E fails \in BOOLEAN :
       LET u   == Head(net[<<s, LS>>]).u
           mv  == moving[u]
           leg == FirstLeg(mv, s)
           end == mv # NoMove /\ ~leg
       IN  /\ Queries(fails)
           /\ dbCur' = [dbCur EXCEPT ![u] = IF fails THEN @ ELSE s]
           /\ moving' = [moving EXCEPT ![u] = IF end THEN NoMove ELSE @]
           /\ infoCur' = [infoCur EXCEPT ![u] =
                           IF end /\ @ # NoShard THEN s ELSE @]
           /\ Receive(s, LS,
                IF leg THEN MoveRequest(u, s, mv.to)
                ELSE IF end /\ mv.reason = 1 /\ infoCur[u] # NoShard
                     THEN EnterShardOk(u, s, mv.f) ELSE Silent)
  /\ UNCHANGED <<lastKey, tempCookie, loginCookie, current, waiting, changeReq,
                 abnormal, nPlayers, moveTimeouts, dbOnline>>

(* RefreshMoveDataUserList: a move not over within a minute is forgotten.  *)
LSMoveTimeout(u) ==
  /\ moving[u] # NoMove
  /\ moveTimeouts < MaxMoveTimeouts
  /\ moveTimeouts' = moveTimeouts + 1
  /\ moving' = [moving EXCEPT ![u] = NoMove]
  /\ UNCHANGED <<lastKey, tempCookie, loginCookie, current, waiting, changeReq,
                 abnormal, infoCur, nPlayers, netVars, dbVars>>

LSNext ==
  \/ LSShardsList \/ LSChooseShardRefused \/ LSChooseShard
  \/ LSDisconnectClient \/ LSForceLogoff
  \/ \E s \in Shards :
       \/ LSShardAnswer(s) \/ LSRemovedPendingCookie(s) \/ LSReviseLogoff(s)
       \/ LSClientMustWait(s) \/ LSClientConnected(s)
       \/ LSClientDisconnected(s) \/ LSClientHandedOver(s)
       \/ LSChangeShardReq(s) \/ LSMoveDataEnd(s)
  \/ \E u \in Users : LSMoveTimeout(u)

-----------------------------------------------------------------------------
(* What the LS is to keep *)

(* A session only waits for the logoff of another shard, and the LS still  *)
(* knows that other shard: otherwise nobody would ever wake it up.         *)
WaitsForAnotherShard ==
  \A u \in Users : waiting[u] # Nowhere => current[u] \notin {NoShard, waiting[u].s}

(* The player count the LS admits users by is never less than the users    *)
(* the main database records on the shard.                                 *)
PlayersCounted ==
  \A s \in Shards : Cardinality({u \in Users : dbOnline[u] = s}) <= nPlayers[s]
=============================================================================
