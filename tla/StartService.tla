---------------------------- MODULE StartService ----------------------------
(***************************************************************************)
(* The slave of the start service (SS), where clients log in: it keeps one *)
(* connection per user, offers a second login to force the first one off,  *)
(* and relays the choice of a shard to the LS                              *)
(* (start_service/slaveService.cpp, start_service.cpp).                    *)
(***************************************************************************)
EXTENDS ShardNet

CONSTANTS
  MaxLogins,   \* bound: login connections a user opens
  MaxChoices   \* bound: shards chosen in a behaviour

ASSUME LoginsOK == MaxLogins \in Nat /\ MaxChoices \in Nat

VARIABLES
  sock,          \* login connections of every user
  player,        \* ConnectPlayers: connection and gen_time, con 0: none
  onlineStatus,  \* OnlineStatus of tbl_UserBaseInfo (main database)
  tempPlayer,    \* TempPlayerInfo: a login waits for M_CS_FORCELOGIN
  choices        \* shards chosen so far

ssVars == <<sock, player, onlineStatus, tempPlayer, choices>>

Logins == 1..MaxLogins
SockState == {"unused", "accepted", "refused", "listed", "chosen", "closed"}
NoPlayer == [con |-> 0, gen |-> 0]

SSTypeOK ==
  /\ sock \in [Users -> [Logins -> SockState]]
  /\ player \in [Users -> [con : Nat, gen : Nat]]
  /\ onlineStatus \in [Users -> BOOLEAN]
  /\ tempPlayer \in [Users -> BOOLEAN]
  /\ choices \in Nat

SSInit ==
  /\ sock = [u \in Users |-> [n \in Logins |-> "unused"]]
  /\ player = [u \in Users |-> NoPlayer]
  /\ onlineStatus = [u \in Users |-> FALSE]
  /\ tempPlayer = [u \in Users |-> FALSE]
  /\ choices = 0

ToLS(kind, u) == To(LS, Msg(kind, u))
Open(u, n) == sock[u][n] \in {"accepted", "refused", "listed", "chosen"}

(* sock, with the connection that is in ConnectPlayers set to st. *)
Marked(u, st) == IF player[u] = NoPlayer THEN sock
                 ELSE [sock EXCEPT ![u][player[u].con] = st]
(* The client is told that its choice was refused, and may choose again. *)
Refused(u) == IF player[u] # NoPlayer /\ sock[u][player[u].con] = "chosen"
              THEN Marked(u, "listed") ELSE sock

-----------------------------------------------------------------------------
(* From the clients *)

NextLogin(u, n) ==
  /\ sock[u][n] = "unused"
  /\ \A i \in Logins : i < n => sock[u][i] # "unused"

(* checkUserAuth: nobody is online under this account ... *)
SSUserAuth(u) ==
  /\ dbOnline[u] = NoShard /\ ~onlineStatus[u]
  /\ \E n \in Logins :
       /\ NextLogin(u, n)
       /\ sock' = [sock EXCEPT ![u][n] = "accepted"]
       /\ player' = [player EXCEPT ![u] = [con |-> n, gen |-> 0]]
  /\ onlineStatus' = [onlineStatus EXCEPT ![u] = TRUE]
  /\ Emit(SS, ToLS("M_SC_SHARDS", u))
  /\ UNCHANGED <<tempPlayer, choices, dbFaults>>

(* ... or somebody is (ERR_ALREADYONLINE): the client may insist. *)
SSAlreadyOnline(u) ==
  /\ dbOnline[u] # NoShard \/ onlineStatus[u]
  /\ \E n \in Logins : /\ NextLogin(u, n)
                       /\ sock' = [sock EXCEPT ![u][n] = "refused"]
  /\ tempPlayer' = [tempPlayer EXCEPT ![u] = TRUE]
  /\ UNCHANGED <<player, onlineStatus, choices, netVars>>

(* cbForceLogin: the old login here is closed, or the LS is asked to close *)
(* the session elsewhere; this connection becomes the user's.              *)
SSForceLogin(u, n) ==
  /\ sock[u][n] = "refused" /\ tempPlayer[u]
  /\ LET here == player[u] # NoPlayer
     IN  /\ sock' = [sock EXCEPT ![u] =
              [i \in Logins |-> IF i = n THEN "accepted"
                                ELSE IF i = player[u].con THEN "closed" ELSE @[i]]]
         /\ Emit(SS, IF here THEN ToLS("M_SC_SHARDS", u)
                     ELSE To(LS, [Msg("M_NT_REQ_FORCE_LOGOFF", u) EXCEPT !.v = n]))
  /\ player' = [player EXCEPT ![u] = [con |-> n, gen |-> n]]
  /\ onlineStatus' = [onlineStatus EXCEPT ![u] = TRUE]
  /\ tempPlayer' = [tempPlayer EXCEPT ![u] = FALSE]
  /\ UNCHANGED <<choices, dbFaults>>

(* cbUserChooseShard, from the connection of ConnectPlayers. *)
SSUserChooseShard(u, n) ==
  /\ choices < MaxChoices
  /\ choices' = choices + 1
  /\ sock[u][n] = "listed" \/ (sock[u][n] = "chosen" /\ ~ClientsWait)
  /\ player[u].con = n
  /\ sock' = [sock EXCEPT ![u][n] = "chosen"]
  /\ \E s \in Shards :
       Emit(SS, To(LS, [Msg("M_ENTER_SHARD_REQUEST", u) EXCEPT !.s = s, !.v = n]))
  /\ UNCHANGED <<player, onlineStatus, tempPlayer, dbFaults>>

(* cbUserDisconnection, cbUserDisconnect: only the connection that is in   *)
(* ConnectPlayers logs the user off.                                       *)
SSUserDisconnection(u, n) ==
  /\ Open(u, n)
  /\ sock' = [sock EXCEPT ![u][n] = "closed"]
  /\ IF player[u].con = n
     THEN /\ player' = [player EXCEPT ![u] = NoPlayer]
          /\ onlineStatus' = [onlineStatus EXCEPT ![u] = FALSE]
          /\ Emit(SS, ToLS("M_CLIENT_DISCONNECT", u))
     ELSE UNCHANGED <<player, onlineStatus, net>>
  /\ UNCHANGED <<tempPlayer, choices, dbFaults>>

-----------------------------------------------------------------------------
(* From the login service *)

FromLS(kind) == Pending(LS, SS, kind) /\ Receive(LS, SS, Silent)
HeadFromLS == Head(net[<<LS, SS>>])

(* cbLSDisplayShardListNew *)
SSDisplayShardList ==
  /\ FromLS("M_SC_SHARDS")
  /\ sock' = Marked(HeadFromLS.u, "listed")
  /\ UNCHANGED <<player, onlineStatus, tempPlayer, choices, dbFaults>>

(* cb_M_NT_REQ_FORCE_LOGOFF: a login other than the one that asked for it  *)
(* is closed; its OnlineStatus stays.                                      *)
SSForceLogoff ==
  /\ FromLS("M_NT_REQ_FORCE_LOGOFF")
  /\ LET m == HeadFromLS
     IN  IF player[m.u] # NoPlayer /\ player[m.u].gen # m.v
         THEN /\ sock' = Marked(m.u, "closed")
              /\ player' = [player EXCEPT ![m.u] = NoPlayer]
         ELSE UNCHANGED <<sock, player>>
  /\ UNCHANGED <<onlineStatus, tempPlayer, choices, dbFaults>>

(* cbLSClientConnected: the user is on a shard, its login here is over.    *)
(* con=0 only concerns game masters; cbLSFailed only informs the client.   *)
SSClientConnected ==
  /\ FromLS("M_CLIENT_CONNECT_STATUS")
  /\ LET m == HeadFromLS
     IN  IF m.v = 1 /\ player[m.u] # NoPlayer
         THEN /\ sock' = Marked(m.u, "closed")
              /\ player' = [player EXCEPT ![m.u] = NoPlayer]
              /\ onlineStatus' = [onlineStatus EXCEPT ![m.u] = FALSE]
         ELSE UNCHANGED <<sock, player, onlineStatus>>
  /\ UNCHANGED <<tempPlayer, choices, dbFaults>>
SSFailed ==
  /\ FromLS("M_SC_FAIL")
  /\ sock' = Refused(HeadFromLS.u)
  /\ UNCHANGED <<player, onlineStatus, tempPlayer, choices, dbFaults>>

SSNext ==
  \/ \E u \in Users : \/ SSUserAuth(u) \/ SSAlreadyOnline(u)
                      \/ \E n \in Logins : \/ SSForceLogin(u, n)
                                           \/ SSUserChooseShard(u, n)
                                           \/ SSUserDisconnection(u, n)
  \/ SSDisplayShardList \/ SSForceLogoff \/ SSClientConnected \/ SSFailed
=============================================================================
