------------------------ MODULE ShardSession_proofs ------------------------
(***************************************************************************)
(* Theorems about the whole family of services, for every set of users,    *)
(* shards and front ends, every topology and every value of the bounds.    *)
(* TypeOK is inductive. The player counts, the waiting sessions, sessions  *)
(* and cookies, and the sockets are inductive relative to it; the pending  *)
(* counts and what a WS knows of the sessions need what is on the links;   *)
(* that a user has one session needs the way of a cookie through all of    *)
(* them.                                                                   *)
(***************************************************************************)
EXTENDS ShardSession, FrontendServer_proofs

-----------------------------------------------------------------------------
(* The start service keeps its state, and what it sends, well typed.       *)

SSTyped == NetTyped /\ dbFaults \in Nat /\ SSTypeOK

Player == [con : Nat, gen : Nat]

(* The typing of the SS, as single facts. *)
LEMMA SSTypes ==
  ASSUME SSTyped
  PROVE  /\ NetTyped /\ dbFaults \in Nat
         /\ sock \in [Users -> [Logins -> SockState]]
         /\ player \in [Users -> Player]
         /\ onlineStatus \in [Users -> BOOLEAN] /\ tempPlayer \in [Users -> BOOLEAN]
         /\ choices \in Nat
         /\ NoPlayer \in Player
BY DEF SSTyped, SSTypeOK, Player, NoPlayer

(* The messages of SS to the LS are outboxes. *)
LEMMA ToLSTyped ==
  ASSUME NEW u \in Users, NEW n \in Nat, NEW s \in Shards
  PROVE  /\ ToLS("M_SC_SHARDS", u) \in Outbox
         /\ ToLS("M_CLIENT_DISCONNECT", u) \in Outbox
         /\ To(LS, [Msg("M_NT_REQ_FORCE_LOGOFF", u) EXCEPT !.v = n]) \in Outbox
         /\ To(LS, [Msg("M_ENTER_SHARD_REQUEST", u) EXCEPT !.s = s, !.v = n]) \in Outbox
<1>1. {"M_SC_SHARDS", "M_CLIENT_DISCONNECT", "M_NT_REQ_FORCE_LOGOFF",
       "M_ENTER_SHARD_REQUEST"} \subseteq Kinds \ Answers
  BY DEF Kinds, Answers
<1>2. NoCookie \in Cookie /\ NoFes \in FesOrNone /\ s \in ShardOrNone
  BY DEF NoCookie, Cookie, FesOrNone, ShardOrNone
<1>3. QED
  BY <1>1, <1>2, MsgTyped, ToTyped DEF ToLS

(* One connection of one user in another state. *)
LEMMA SockTyped ==
  ASSUME SSTyped, NEW u, NEW n, NEW st \in SockState
  PROVE  [sock EXCEPT ![u][n] = st] \in [Users -> [Logins -> SockState]]
<1>1. \A v \in Users : [sock[v] EXCEPT ![n] = st] \in [Logins -> SockState]
  BY SSTypes
<1>2. QED
  BY <1>1, SSTypes

(* The connection of ConnectPlayers in another state is a connection. *)
LEMMA MarkedTyped ==
  ASSUME SSTyped, NEW u, NEW st \in SockState
  PROVE  /\ Marked(u, st) \in [Users -> [Logins -> SockState]]
         /\ Refused(u) \in [Users -> [Logins -> SockState]]
<1>1. "listed" \in SockState
  BY DEF SockState
<1>2. \A x \in SockState : Marked(u, x) \in [Users -> [Logins -> SockState]]
  BY SockTyped, SSTypes DEF Marked
<1>3. QED
  BY <1>1, <1>2, SSTypes DEF Refused

(* A message for the SS, and what is known of it. *)
LEMMA SSHeadTyped ==
  ASSUME SSTyped, NEW kind, FromLS(kind)
  PROVE  /\ HeadFromLS \in Message /\ HeadFromLS.kind = kind /\ HeadFromLS.u \in Users
         /\ NetTyped'
<1>1. <<LS, SS>> \in Links /\ Pending(LS, SS, kind) /\ Receive(LS, SS, Silent)
  BY LinksAre DEF FromLS
<1>2. HeadFromLS \in Message /\ HeadFromLS.kind = kind
  BY <1>1, PendingTyped, SSTypes DEF HeadFromLS
<1>3. HeadFromLS.u \in Users
  BY <1>2, MessageIs
<1>4. NetTyped'
  BY <1>1, SSTypes, SilentTyped, ReceiveTyped
<1>5. QED
  BY <1>2, <1>3, <1>4

(* What SS does with a message of a client keeps the types. *)
LEMMA SSClientsTyped ==
  ASSUME SSTyped, NEW u \in Users,
         \/ SSUserAuth(u) \/ SSAlreadyOnline(u)
         \/ \E n \in Logins : \/ SSForceLogin(u, n) \/ SSUserChooseShard(u, n)
                              \/ SSUserDisconnection(u, n)
  PROVE  SSTyped'
<1>0. /\ {"accepted", "refused", "closed", "chosen"} \subseteq SockState
      /\ Logins \subseteq Nat
  BY DEF SockState, Logins
<1>1. CASE SSUserAuth(u)
  <2>1. PICK n \in Logins : /\ sock' = [sock EXCEPT ![u][n] = "accepted"]
                            /\ player' = [player EXCEPT ![u] = [con |-> n, gen |-> 0]]
    BY <1>1 DEF SSUserAuth
  <2>2. sock' \in [Users -> [Logins -> SockState]]
    BY <1>0, <2>1, SockTyped
  <2>3. player' \in [Users -> Player]
    <3>1. [con |-> n, gen |-> 0] \in Player
      BY <1>0 DEF Player
    <3>2. QED
      BY <2>1, <3>1, SSTypes
  <2>4. NetTyped'
    <3>1. ToLS("M_SC_SHARDS", u) \in Outbox
      BY <1>0, ToLSTyped, PlacesOK
    <3>2. QED
      BY <1>1, <3>1, EmitTyped, SSTypes DEF SSUserAuth
  <2>5. onlineStatus' \in [Users -> BOOLEAN]
    BY <1>1, SSTypes DEF SSUserAuth
  <2>6. QED
    BY <1>1, <2>2, <2>3, <2>4, <2>5 DEF SSUserAuth, SSTyped, SSTypeOK, Player
<1>2. CASE SSAlreadyOnline(u)
  <2>1. sock' \in [Users -> [Logins -> SockState]]
    BY <1>0, <1>2, SockTyped DEF SSAlreadyOnline
  <2>2. tempPlayer' \in [Users -> BOOLEAN]
    BY <1>2, SSTypes DEF SSAlreadyOnline
  <2>3. QED
    BY <1>2, <2>1, <2>2 DEF SSAlreadyOnline, SSTyped, SSTypeOK, NetTyped, netVars
<1>3. ASSUME NEW n \in Logins, SSForceLogin(u, n)
      PROVE  SSTyped'
  <2>1. sock' \in [Users -> [Logins -> SockState]]
    <3>1. sock' = [sock EXCEPT ![u] = [i \in Logins |->
            IF i = n THEN "accepted" ELSE IF i = player[u].con THEN "closed" ELSE @[i]]]
      BY <1>3 DEF SSForceLogin
    <3>2. sock[u] \in [Logins -> SockState]
      BY SSTypes
    <3>3. [i \in Logins |-> IF i = n THEN "accepted"
                            ELSE IF i = player[u].con THEN "closed" ELSE sock[u][i]]
            \in [Logins -> SockState]
      BY <1>0, <3>2
    <3>4. QED
      BY <3>1, <3>3, SSTypes
  <2>2. player' \in [Users -> Player]
    <3>1. [con |-> n, gen |-> n] \in Player
      BY <1>0 DEF Player
    <3>2. QED
      BY <1>3, <3>1, SSTypes DEF SSForceLogin
  <2>3. NetTyped'
    <3>1. /\ ToLS("M_SC_SHARDS", u) \in Outbox
          /\ To(LS, [Msg("M_NT_REQ_FORCE_LOGOFF", u) EXCEPT !.v = n]) \in Outbox
      BY <1>0, ToLSTyped, PlacesOK
    <3>2. \/ Emit(SS, ToLS("M_SC_SHARDS", u))
          \/ Emit(SS, To(LS, [Msg("M_NT_REQ_FORCE_LOGOFF", u) EXCEPT !.v = n]))
      BY <1>3 DEF SSForceLogin
    <3>3. QED
      BY <3>1, <3>2, EmitTyped, SSTypes
  <2>4. onlineStatus' \in [Users -> BOOLEAN] /\ tempPlayer' \in [Users -> BOOLEAN]
    BY <1>3, SSTypes DEF SSForceLogin
  <2>5. QED
    BY <1>3, <2>1, <2>2, <2>3, <2>4 DEF SSForceLogin, SSTyped, SSTypeOK, Player
<1>4. ASSUME NEW n \in Logins, SSUserChooseShard(u, n)
      PROVE  SSTyped'
  <2>1. sock' \in [Users -> [Logins -> SockState]]
    BY <1>0, <1>4, SockTyped DEF SSUserChooseShard
  <2>2. NetTyped'
    <3>1. PICK s \in Shards :
            Emit(SS, To(LS, [Msg("M_ENTER_SHARD_REQUEST", u) EXCEPT !.s = s, !.v = n]))
      BY <1>4 DEF SSUserChooseShard
    <3>2. QED
      BY <1>0, <3>1, ToLSTyped, EmitTyped, SSTypes
  <2>3. choices' \in Nat
    <3>1. choices' = choices + 1
      BY <1>4 DEF SSUserChooseShard
    <3>2. QED
      BY <3>1, SSTypes
  <2>4. QED
    BY <1>4, <2>1, <2>2, <2>3 DEF SSUserChooseShard, SSTyped, SSTypeOK
<1>5. ASSUME NEW n \in Logins, SSUserDisconnection(u, n)
      PROVE  SSTyped'
  <2>1. sock' \in [Users -> [Logins -> SockState]]
    BY <1>0, <1>5, SockTyped DEF SSUserDisconnection
  <2>2. \/ UNCHANGED <<player, onlineStatus, net>>
        \/ /\ player' = [player EXCEPT ![u] = NoPlayer]
           /\ onlineStatus' = [onlineStatus EXCEPT ![u] = FALSE]
           /\ Emit(SS, ToLS("M_CLIENT_DISCONNECT", u))
    BY <1>5 DEF SSUserDisconnection
  <2>3. NetTyped'
    <3>1. ToLS("M_CLIENT_DISCONNECT", u) \in Outbox
      BY <1>0, ToLSTyped, PlacesOK
    <3>2. CASE UNCHANGED net
      BY <3>2, SSTypes DEF NetTyped
    <3>3. CASE Emit(SS, ToLS("M_CLIENT_DISCONNECT", u))
      BY <3>1, <3>3, EmitTyped, SSTypes
    <3>4. QED
      BY <2>2, <3>2, <3>3
  <2>4. player' \in [Users -> Player] /\ onlineStatus' \in [Users -> BOOLEAN]
    BY <2>2, SSTypes
  <2>5. QED
    BY <1>5, <2>1, <2>3, <2>4 DEF SSUserDisconnection, SSTyped, SSTypeOK, Player
<1>6. QED
  BY <1>1, <1>2, <1>3, <1>4, <1>5

(* Every step of SS keeps the types. *)
LEMMA SSNextTyped ==
  ASSUME SSTyped, SSNext
  PROVE  SSTyped'
<1>0. "listed" \in SockState /\ "closed" \in SockState
  BY DEF SockState
<1>1. CASE SSDisplayShardList
  <2>1. NetTyped' /\ sock' \in [Users -> [Logins -> SockState]]
    BY <1>0, <1>1, SSHeadTyped, MarkedTyped DEF SSDisplayShardList
  <2>2. QED
    BY <1>1, <2>1 DEF SSDisplayShardList, SSTyped, SSTypeOK
<1>2. CASE SSForceLogoff
  <2>1. /\ NetTyped'
        /\ \/ UNCHANGED <<sock, player>>
           \/ /\ sock' = Marked(HeadFromLS.u, "closed")
              /\ player' = [player EXCEPT ![HeadFromLS.u] = NoPlayer]
    BY <1>2, SSHeadTyped DEF SSForceLogoff
  <2>2. sock' \in [Users -> [Logins -> SockState]] /\ player' \in [Users -> Player]
    <3>1. sock' \in [Users -> [Logins -> SockState]]
      BY <1>0, <2>1, MarkedTyped, SSTypes
    <3>2. player' \in [Users -> Player]
      BY <2>1, SSTypes
    <3>3. QED
      BY <3>1, <3>2
  <2>3. QED
    BY <1>2, <2>1, <2>2 DEF SSForceLogoff, SSTyped, SSTypeOK, Player
<1>3. CASE SSClientConnected
  <2>1. /\ NetTyped'
        /\ \/ UNCHANGED <<sock, player, onlineStatus>>
           \/ /\ sock' = Marked(HeadFromLS.u, "closed")
              /\ player' = [player EXCEPT ![HeadFromLS.u] = NoPlayer]
              /\ onlineStatus' = [onlineStatus EXCEPT ![HeadFromLS.u] = FALSE]
    BY <1>3, SSHeadTyped DEF SSClientConnected
  <2>2. sock' \in [Users -> [Logins -> SockState]]
    BY <1>0, <2>1, MarkedTyped, SSTypes
  <2>3. player' \in [Users -> Player] /\ onlineStatus' \in [Users -> BOOLEAN]
    BY <2>1, SSTypes
  <2>4. QED
    BY <1>3, <2>1, <2>2, <2>3 DEF SSClientConnected, SSTyped, SSTypeOK, Player
<1>4. CASE SSFailed
  <2>1. NetTyped' /\ sock' \in [Users -> [Logins -> SockState]]
    BY <1>0, <1>4, SSHeadTyped, MarkedTyped DEF SSFailed
  <2>2. QED
    BY <1>4, <2>1 DEF SSFailed, SSTyped, SSTypeOK
<1>5. QED
  BY <1>1, <1>2, <1>3, <1>4, SSClientsTyped DEF SSNext

-----------------------------------------------------------------------------
(* Type correctness *)

(* TypeOK is what the services' lemmas speak of, and what none of them     *)
(* keeps by itself.                                                        *)
LEMMA TypeOKIs ==
  TypeOK <=> /\ LSTyped /\ WSTyped /\ FSTyped /\ SSTyped
             /\ changes \in Nat /\ latest \in [Users -> Nat]
BY NetIsTyped DEF TypeOK, LSTyped, WSTyped, FSTyped, SSTyped

(* The initial states are well typed. *)
LEMMA InitTyped == Init => TypeOK
<1> SUFFICES ASSUME Init PROVE TypeOK
  OBVIOUS
<1>1. NetTypeOK
  <2>1. \A l \in Links : << >> \in Seq(Message)
    BY EmptySeq
  <2>2. NoShard \in ShardOrNone
    BY NullsTyped
  <2>3. QED
    BY <2>1, <2>2, InitDbCurOK DEF Init, NetInit, NetTypeOK
<1>2. LSTypeOK
  BY NullsTyped DEF Init, LSInit, LSTypeOK
<1>3. WSTypeOK
  <2>1. jobs \in [Shards -> Seq(Job)]
    BY EmptySeq DEF Init, WSInit
  <2>2. data \in [Shards -> [Users -> Nat]]
    BY DEF Init
  <2>3. QED
    BY <2>1, <2>2, WSNulls DEF Init, WSInit, WSTypeOK
<1>4. FSTypeOK
  <2>1. events \in [Fess -> Seq(Event)]
    BY EmptySeq DEF Init, FSInit
  <2>2. conn \in [Fess -> [Conns -> Conn]]
    BY FSNulls DEF Init, FSInit
  <2>3. QED
    BY <2>1, <2>2 DEF Init, FSInit, FSTypeOK
<1>5. SSTypeOK
  BY DEF Init, SSInit, SSTypeOK, SockState, NoPlayer
<1>6. changes \in Nat /\ latest \in [Users -> Nat]
  BY DEF Init
<1>7. QED
  BY <1>1, <1>2, <1>3, <1>4, <1>5, <1>6 DEF TypeOK

(* A step that leaves a service's variables alone keeps them well typed.   *)
LEMMA UnchangedTyped ==
  ASSUME TypeOK
  PROVE  /\ UNCHANGED lsVars => LSTypeOK'
         /\ UNCHANGED wsVars => WSTypeOK'
         /\ UNCHANGED fsVars => FSTypeOK'
         /\ UNCHANGED ssVars => SSTypeOK'
         /\ UNCHANGED dbVars => dbOnline' \in [Users -> ShardOrNone]
                                /\ dbCur' \in [Users -> ShardOrNone]
         /\ UNCHANGED <<changes, latest>> => changes' \in Nat /\ latest' \in [Users -> Nat]
<1>1. UNCHANGED lsVars => LSTypeOK'
  BY DEF TypeOK, LSTypeOK, lsVars
<1>2. UNCHANGED wsVars => WSTypeOK'
  BY DEF TypeOK, WSTypeOK, wsVars
<1>3. UNCHANGED fsVars => FSTypeOK'
  BY DEF TypeOK, FSTypeOK, fsVars
<1>4. UNCHANGED ssVars => SSTypeOK'
  BY DEF TypeOK, SSTypeOK, ssVars
<1>5. UNCHANGED dbVars => dbOnline' \in [Users -> ShardOrNone]
                          /\ dbCur' \in [Users -> ShardOrNone]
  BY DEF TypeOK, NetTypeOK, dbVars
<1>6. UNCHANGED <<changes, latest>> => changes' \in Nat /\ latest' \in [Users -> Nat]
  BY DEF TypeOK
<1>7. QED
  BY <1>1, <1>2, <1>3, <1>4, <1>5, <1>6

(* The two steps that no single service takes keep the types: the answer   *)
(* SS passes on to a client, and a user's change of its data.              *)
LEMMA SharedStepsTyped ==
  ASSUME TypeOK, SSShardAnswer \/ \E f \in Fess, k \in Conns : Play(f, k)
  PROVE  TypeOK'
<1>1. CASE SSShardAnswer
  <2> DEFINE m == HeadFromLS
  <2>1. /\ FromLS("M_ENTER_SHARD_ANSWER")
        /\ \/ offers' = offers
           \/ /\ offers' = [offers EXCEPT ![m.u] = @ \cup {[ck |-> m.ck, f |-> m.f]}]
              /\ m.v = 0
        /\ sock' = sock \/ sock' = Refused(m.u)
    <3>1. offers' = [offers EXCEPT ![m.u] =
            IF player[m.u].con = m.ck.sock /\ m.v = 0
            THEN @ \cup {[ck |-> m.ck, f |-> m.f]} ELSE @]
      BY <1>1 DEF SSShardAnswer
    <3>2. [offers EXCEPT ![m.u] = @] = offers
      BY DEF TypeOK, FSTypeOK
    <3>3. \/ offers' = offers
          \/ /\ offers' = [offers EXCEPT ![m.u] = @ \cup {[ck |-> m.ck, f |-> m.f]}]
             /\ m.v = 0
      <4> HIDE DEF m
      <4> QED
        BY <3>1, <3>2
    <3>4. QED
      BY <1>1, <3>3 DEF SSShardAnswer
  <2>2. m \in Message /\ m.kind = "M_ENTER_SHARD_ANSWER" /\ m.u \in Users /\ NetTyped'
    BY <2>1, SSHeadTyped, TypeOKIs
  <2>3. m.v = 0 => [ck |-> m.ck, f |-> m.f] \in Offer
    BY <2>2, MessageIs DEF Answers, FesOrNone, Offer
  <2>4. offers' \in [Users -> SUBSET Offer]
    <3> HIDE DEF m
    <3>1. offers \in [Users -> SUBSET Offer]
      BY DEF TypeOK, FSTypeOK
    <3>2. QED
      BY <2>1, <2>2, <2>3, <3>1
  <2>5. sock' \in [Users -> [Logins -> SockState]]
    <3>1. "listed" \in SockState
      BY DEF SockState
    <3>2. QED
      BY <2>1, <3>1, MarkedTyped, SSTypes, TypeOKIs
  <2>6. FSTypeOK'
    BY <1>1, <2>4 DEF SSShardAnswer, TypeOK, FSTypeOK
  <2>7. SSTypeOK'
    BY <1>1, <2>5 DEF SSShardAnswer, TypeOK, SSTypeOK
  <2>8. QED
    BY <1>1, <2>2, <2>6, <2>7, UnchangedTyped, NetIsTyped
       DEF SSShardAnswer, TypeOK, NetTypeOK, NetTyped
<1>2. ASSUME NEW f \in Fess, NEW k \in Conns, Play(f, k)
      PROVE  TypeOK'
  <2> DEFINE u == conn[f][k].u
  <2>1. u \in Users /\ ShardOf[f] \in Shards
    BY WSNulls DEF TypeOK, FSTypeOK, Conn
  <2>2. /\ latest' = [latest EXCEPT ![u] = @ + 1]
        /\ data' = [data EXCEPT ![ShardOf[f]][u] = latest[u] + 1]
    BY <1>2 DEF Play
  <2>3. latest' \in [Users -> Nat] /\ data' \in [Shards -> [Users -> Nat]]
    <3> HIDE DEF u
    <3>1. latest \in [Users -> Nat] /\ data \in [Shards -> [Users -> Nat]]
      BY DEF TypeOK, WSTypeOK
    <3>2. latest[u] + 1 \in Nat
      BY <2>1, <3>1
    <3>3. [data[ShardOf[f]] EXCEPT ![u] = latest[u] + 1] \in [Users -> Nat]
      BY <2>1, <3>1, <3>2
    <3>4. QED
      BY <2>1, <2>2, <3>1, <3>2, <3>3
  <2>4. WSTypeOK' /\ changes' \in Nat
    BY <1>2, <2>3 DEF Play, TypeOK, WSTypeOK
  <2>5. NetTypeOK'
    BY <1>2 DEF Play, TypeOK, NetTypeOK, netVars, dbVars
  <2>6. QED
    BY <1>2, <2>3, <2>4, <2>5, UnchangedTyped DEF Play, TypeOK
<1>3. QED
  BY <1>1, <1>2

(* TypeOK is inductive. *)
LEMMA NextTyped ==
  ASSUME TypeOK, [Next]_vars
  PROVE  TypeOK'
<1>1. CASE LSStep
  <2>1. LSTyped'
    BY <1>1, LSNextTyped, TypeOKIs DEF LSStep
  <2>2. QED
    BY <1>1, <2>1, UnchangedTyped DEF LSStep, LSTyped, TypeOK
<1>2. CASE WSStep
  <2>1. WSTyped'
    BY <1>2, WSNextTyped, TypeOKIs DEF WSStep
  <2>2. QED
    BY <1>2, <2>1, UnchangedTyped, NetIsTyped
       DEF WSStep, WSTyped, TypeOK, NetTypeOK, NetTyped
<1>3. CASE FSStep
  <2>1. FSTyped'
    BY <1>3, FSNextTyped, TypeOKIs DEF FSStep
  <2>2. QED
    BY <1>3, <2>1, UnchangedTyped DEF FSStep, FSTyped, TypeOK, NetTypeOK, NetTyped
<1>4. CASE SSStep
  <2>1. SSTyped'
    BY <1>4, SSNextTyped, TypeOKIs DEF SSStep
  <2>2. QED
    BY <1>4, <2>1, UnchangedTyped DEF SSStep, SSTyped, TypeOK, NetTypeOK, NetTyped
<1>5. CASE ClientStep
  <2>1. FSTyped'
    BY <1>5, ClientsTyped, TypeOKIs DEF ClientStep
  <2>2. changes' \in Nat /\ latest' \in [Users -> Nat]
    BY <1>5 DEF ClientStep, TypeOK
  <2>3. QED
    BY <1>5, <2>1, <2>2, UnchangedTyped DEF ClientStep, FSTyped, TypeOK, NetTypeOK, NetTyped
<1>6. CASE UNCHANGED vars
  <2>1. NetTypeOK'
    BY <1>6 DEF vars, TypeOK, NetTypeOK
  <2>2. UNCHANGED <<lsVars, wsVars, fsVars, ssVars, changes, latest>>
    BY <1>6 DEF vars
  <2>3. QED
    BY <2>1, <2>2, UnchangedTyped DEF TypeOK
<1>7. QED
  BY <1>1, <1>2, <1>3, <1>4, <1>5, <1>6, SharedStepsTyped DEF Next

(* Every state the services reach is well typed: in particular no counter  *)
(* of a welcome service or of the LS goes below zero, every message names  *)
(* existing parties, and an answer without an error offers a front end.    *)
THEOREM TypeCorrect == Spec => []TypeOK
<1>1. TypeOK /\ [Next]_vars => TypeOK'
  BY NextTyped
<1>2. QED
  BY InitTyped, <1>1, PTL DEF Spec

-----------------------------------------------------------------------------
(* The state a step of another service leaves to the LS and to the FES. *)

(* Only the LS touches its own records and the online record of the main   *)
(* database.                                                               *)
LEMMA OnlyLS ==
  ASSUME [Next]_vars, ~LSStep
  PROVE  UNCHANGED <<current, waiting, nPlayers, dbOnline>>
<1>1. CASE UNCHANGED vars
  BY <1>1 DEF vars, lsVars
<1>2. CASE WSStep \/ FSStep \/ SSStep \/ ClientStep \/ SSShardAnswer
           \/ \E f \in Fess, k \in Conns : Play(f, k)
  BY <1>2 DEF WSStep, FSStep, SSStep, ClientStep, SSShardAnswer, Play, lsVars, dbVars
<1>3. QED
  BY <1>1, <1>2 DEF Next

(* Only a front end touches its cookies and its associations. *)
LEMMA OnlyFES ==
  ASSUME [Next]_vars, ~FSStep
  PROVE  UNCHANGED <<pending, assoc>>
<1>1. CASE UNCHANGED vars
  BY <1>1 DEF vars, fsVars
<1>2. CASE ClientStep
  BY <1>2 DEF ClientStep, ClientConnect, ClientClose, FSChangeShardReq
<1>3. CASE LSStep \/ WSStep \/ SSStep \/ SSShardAnswer
           \/ \E f \in Fess, k \in Conns : Play(f, k)
  BY <1>3 DEF LSStep, WSStep, SSStep, SSShardAnswer, Play, fsVars
<1>4. QED
  BY <1>1, <1>2, <1>3 DEF Next

-----------------------------------------------------------------------------

(* A session in g_mapWaitingLogoffUserList waits for the logoff of another *)
(* shard that g_mapCurrentUserWsSid still knows, whatever the order of     *)
(* connections, disconnections, forced logoffs and timeouts.               *)
THEOREM WaitsForAnother == Spec => []WaitsForAnotherShard
<1>1. Init => WaitsForAnotherShard
  BY DEF Init, LSInit, WaitsForAnotherShard
<1>2. TypeOK /\ WaitsForAnotherShard /\ [Next]_vars => WaitsForAnotherShard'
  <2> SUFFICES ASSUME TypeOK, WaitsForAnotherShard, [Next]_vars
               PROVE  WaitsForAnotherShard'
    OBVIOUS
  <2>1. CASE LSStep
    BY <2>1, LSNextKeepsWaiting, TypeOKIs DEF LSStep
  <2>2. CASE ~LSStep
    BY <2>2, OnlyLS DEF WaitsForAnotherShard
  <2>3. QED
    BY <2>1, <2>2
<1>3. QED
  BY <1>1, <1>2, TypeCorrect, PTL DEF Spec

LEMMA CookieOrSessionInit ==
  ASSUME Init
  PROVE  CookieOrSession
BY DEF Init, FSInit, CookieOrSession, CookiesOf

LEMMA CookieOrSessionKept ==
  ASSUME TypeOK, CookieOrSession, [Next]_vars
  PROVE  CookieOrSession'
<1>1. CASE FSStep
  BY <1>1, FSNextKeepsCookieOrSession, TypeOKIs DEF FSStep
<1>2. CASE ~FSStep
  BY <1>2, OnlyFES DEF CookieOrSession, CookiesOf
<1>3. QED
  BY <1>1, <1>2

(* A front end never holds a session and a pending cookie of one user, nor *)
(* two pending cookies of one user.                                        *)
THEOREM SessionOrCookie == Spec => []CookieOrSession
BY CookieOrSessionInit, CookieOrSessionKept, TypeCorrect, PTL DEF Spec

(* With finitely many users and no failing query the player counts are     *)
(* kept by every step.                                                     *)
LEMMA PlayersKept ==
  ASSUME IsFiniteSet(Users), MaxDbFaults = 0, TypeOK, PlayersCounted, [Next]_vars
  PROVE  PlayersCounted'
<1>1. CASE LSStep
  BY <1>1, LSNextKeepsCount, TypeOKIs DEF LSStep
<1>2. CASE ~LSStep
  BY <1>2, OnlyLS DEF PlayersCounted
<1>3. QED
  BY <1>1, <1>2

LEMMA PlayersInit ==
  ASSUME Init
  PROVE  PlayersCounted
<1>1. ASSUME NEW s \in Shards
      PROVE  Cardinality({u \in Users : dbOnline[u] = s}) <= nPlayers[s]
  <2>1. {u \in Users : dbOnline[u] = s} = {}
    BY NullsDistinct DEF Init
  <2>2. nPlayers[s] = 0
    BY DEF Init, LSInit
  <2>3. QED
    BY <2>1, <2>2, FS_EmptySet
<1>2. QED
  BY <1>1 DEF PlayersCounted

(* As long as no database query fails, the LS never counts fewer players   *)
(* on a shard than the main database records there, for any number of      *)
(* users, logins, handovers and forced logoffs.                            *)
THEOREM PlayersNeverUndercounted ==
  ASSUME IsFiniteSet(Users), MaxDbFaults = 0
  PROVE  Spec => []PlayersCounted
<1>1. Init => PlayersCounted
  BY PlayersInit
<1>2. TypeOK /\ PlayersCounted /\ [Next]_vars => PlayersCounted'
  BY PlayersKept
<1>3. QED
  BY <1>1, <1>2, TypeCorrect, PTL DEF Spec

-----------------------------------------------------------------------------
(* NbPendingUsers of a front end counts its cookies, those on their way to *)
(* it, and those it has spent or dropped and not yet reported.             *)

(* The requests for which a front end gets a cookie, and the reports that  *)
(* one is spent (a client has come) or dropped (none has).                 *)
Asks  == {m \in Message : m.kind = "M_ENTER_SHARD_REQUEST"}
Spent == {m \in Message : \/ m.kind = "M_LOGIN_SERVER_RPC"
                          \/ m.kind = "M_CLIENT_CONNECT_STATUS" /\ m.v = 1}

(* The links between a front end and its WS. *)
Down(f) == <<ShardOf[f], f>>
Up(f)   == <<f, ShardOf[f]>>

Awaited(f) == Cardinality(pending[f]) + Number(net[Down(f)], Asks) + Number(net[Up(f)], Spent)
CookiesCounted(f) == IsFiniteSet(pending[f]) /\ Awaited(f) <= nbPending[f]

(* What there is to count. *)
LEMMA AwaitedTyped ==
  ASSUME TypeOK, NEW f \in Fess
  PROVE  /\ Down(f) \in Links /\ Up(f) \in Links
         /\ net[Down(f)] \in Seq(Message) /\ net[Up(f)] \in Seq(Message)
         /\ Number(net[Down(f)], Asks) \in Nat /\ Number(net[Up(f)], Spent) \in Nat
         /\ IsFiniteSet(pending[f]) => Cardinality(pending[f]) \in Nat
         /\ nbPending[f] \in Nat
<1>1. Down(f) \in Links /\ Up(f) \in Links
  BY LinksAre DEF Down, Up
<1>2. net[Down(f)] \in Seq(Message) /\ net[Up(f)] \in Seq(Message)
  BY <1>1 DEF TypeOK, NetTypeOK
<1>3. Number(net[Down(f)], Asks) \in Nat /\ Number(net[Up(f)], Spent) \in Nat
  BY <1>2, NumberTyped
<1>4. QED
  BY <1>1, <1>2, <1>3, FS_CardinalityType DEF TypeOK, WSTypeOK

(* The links of two front ends, and the two links of one, are different,   *)
(* and neither end of them is the LS or SS.                                *)
LEMMA LinksApart ==
  ASSUME NEW f \in Fess, NEW g \in Fess, NEW s \in Shards
  PROVE  /\ Down(f) # Up(g) /\ Down(f)[1] = ShardOf[f] /\ Down(f)[2] = f
         /\ (Down(f) = Down(g) <=> f = g) /\ (Up(f) = Up(g) <=> f = g)
         /\ Up(f)[1] = f /\ Up(f)[2] = ShardOf[f] /\ ShardOf[f] \in Shards
         /\ f # s /\ f \notin {LS, SS} /\ s \notin {LS, SS} /\ f \in Nodes /\ s \in Nodes
BY PlacesOK, NodesDistinct DEF Down, Up, Nodes

(* Whoever is not the WS or the front end leaves the two links alone. *)
LEMMA ElsewhereQuiet ==
  ASSUME TypeOK, NEW f \in Fess, NEW me \in {LS, SS}, NEW src, NEW outs,
         Receive(src, me, outs) \/ Emit(me, outs)
  PROVE  net'[Down(f)] = net[Down(f)] /\ net'[Up(f)] = net[Up(f)]
<1>1. /\ Down(f) \in Links /\ Up(f) \in Links
      /\ Down(f)[1] # me /\ Up(f)[1] # me /\ Down(f)[2] # me /\ Up(f)[2] # me
  BY AwaitedTyped, LinksApart, PlacesOK
<1>2. Down(f) # <<src, me>> /\ Up(f) # <<src, me>>
  BY <1>1
<1>3. QED
  BY <1>1, <1>2 DEF Receive, Emit

(* What a step of WS s leaves on the links of f: it may read one report of *)
(* f, and may send f one message.                                          *)
LEMMA WSStepLinks ==
  ASSUME TypeOK, NEW f \in Fess, NEW s \in Shards, NEW src, NEW outs \in Outbox,
         Receive(src, s, outs) \/ Emit(s, outs)
  PROVE  /\ net'[Down(f)] = IF ShardOf[f] = s THEN net[Down(f)] \o outs[f] ELSE net[Down(f)]
         /\ Up(f) # <<src, s>> \/ Emit(s, outs) => net'[Up(f)] = net[Up(f)]
         /\ Up(f) = <<src, s>> /\ Receive(src, s, outs) => net'[Up(f)] = Tail(net[Up(f)])
<1>1. /\ Down(f) \in Links /\ Up(f) \in Links /\ Down(f) # <<src, s>>
      /\ Down(f)[1] = ShardOf[f] /\ Down(f)[2] = f /\ Up(f)[1] # s
  BY AwaitedTyped, LinksApart, PlacesOK DEF Down, Up
<1>2. /\ Up(f) # <<src, s>> \/ Emit(s, outs) => net'[Up(f)] = net[Up(f)]
      /\ Up(f) = <<src, s>> /\ Receive(src, s, outs) => net'[Up(f)] = Tail(net[Up(f)])
  BY <1>1 DEF Receive, Emit
<1>3. net'[Down(f)] = IF ShardOf[f] = s THEN net[Down(f)] \o outs[f] ELSE net[Down(f)]
  BY <1>1 DEF Receive, Emit
<1>4. QED
  BY <1>2, <1>3

(* What a step of front end g leaves on the links of f. *)
LEMMA FESStepLinks ==
  ASSUME TypeOK, NEW f \in Fess, NEW g \in Fess, NEW outs \in Outbox,
         Receive(ShardOf[g], g, outs) \/ Emit(g, outs)
  PROVE  /\ net'[Up(f)] = IF f = g THEN net[Up(f)] \o outs[ShardOf[g]] ELSE net[Up(f)]
         /\ Emit(g, outs) \/ f # g => net'[Down(f)] = net[Down(f)]
         /\ Receive(ShardOf[g], g, outs) /\ f = g => net'[Down(f)] = Tail(net[Down(f)])
<1>1. /\ Down(f) \in Links /\ Up(f) \in Links /\ Up(f) # Down(g)
      /\ Up(f)[1] = f /\ Up(f)[2] = ShardOf[f] /\ Down(f)[1] # g
      /\ Down(f) = Down(g) <=> f = g
  BY AwaitedTyped, LinksApart, PlacesOK
<1>2. <<ShardOf[g], g>> = Down(g)
  BY DEF Down
<1>3. CASE Receive(ShardOf[g], g, outs)
  <2>1. net' = [l \in Links |-> IF l = Down(g) THEN Tail(net[l])
                                ELSE IF l[1] = g THEN net[l] \o outs[l[2]] ELSE net[l]]
    BY <1>2, <1>3 DEF Receive
  <2>2. ~Emit(g, outs) \/ net'[Down(f)] = net[Down(f)]
    BY <1>1 DEF Emit
  <2>3. QED
    BY <1>1, <1>3, <2>1, <2>2
<1>4. CASE Emit(g, outs) /\ ~Receive(ShardOf[g], g, outs)
  BY <1>1, <1>4 DEF Emit
<1>5. QED
  BY <1>3, <1>4

(* Nothing the counts depend on has changed. *)
LEMMA NothingMoved ==
  ASSUME TypeOK, NEW f \in Fess, CookiesCounted(f), pending'[f] = pending[f],
         nbPending'[f] = nbPending[f],
         Number(net'[Down(f)], Asks) = Number(net[Down(f)], Asks),
         net'[Up(f)] = net[Up(f)]
  PROVE  CookiesCounted(f)'
BY DEF CookiesCounted, Awaited, Down, Up

(* A request that is read, and reports that are read and no longer         *)
(* counted, leave the count high enough.                                   *)
LEMMA ReadAndCounted ==
  ASSUME TypeOK, NEW f \in Fess, CookiesCounted(f), pending'[f] = pending[f],
         Number(net'[Down(f)], Asks) = Number(net[Down(f)], Asks),
         net[Up(f)] # << >>, net'[Up(f)] = Tail(net[Up(f)]),
         \/ nbPending'[f] = nbPending[f]
         \/ Head(net[Up(f)]) \in Spent /\ nbPending'[f] = Decrement(nbPending[f])
  PROVE  CookiesCounted(f)'
<1> DEFINE c == Cardinality(pending[f])
           d == Number(net[Down(f)], Asks)
           n == Number(net[Up(f)], Spent)
           k == Number(Tail(net[Up(f)]), Spent)
<1>1. c \in Nat /\ d \in Nat /\ n \in Nat /\ nbPending[f] \in Nat
      /\ c + d + n <= nbPending[f] /\ net[Up(f)] \in Seq(Message)
  BY AwaitedTyped DEF CookiesCounted, Awaited
<1>2. /\ k = IF Head(net[Up(f)]) \in Spent THEN n - 1 ELSE n
      /\ Head(net[Up(f)]) \in Spent => n > 0
  BY <1>1, NumberRead
<1>3. c + d + k <= nbPending'[f]
  <2> HIDE DEF c, d, k, n
  <2> QED
    BY <1>1, <1>2 DEF Decrement
<1>4. Awaited(f)' = c + d + k
  BY DEF Awaited, Down, Up
<1>5. QED
  BY <1>3, <1>4 DEF CookiesCounted

(* An outbox that asks no front end to await a client. *)
AsksNobody(outs) ==
  \A f \in Fess : outs[f] = << >> \/ \E m \in Message \ Asks : outs[f] = <<m>>

LEMMA AskingNobody ==
  /\ Silent \in Outbox /\ AsksNobody(Silent)
  /\ \A n, m : m \in Message /\ (n \notin Fess \/ m \notin Asks) =>
       To(n, m) \in Outbox /\ AsksNobody(To(n, m))
<1>1. Silent \in Outbox /\ AsksNobody(Silent)
  BY SilentTyped DEF AsksNobody, Silent, Nodes
<1>2. ASSUME NEW n, NEW m \in Message, n \notin Fess \/ m \notin Asks
      PROVE  To(n, m) \in Outbox /\ AsksNobody(To(n, m))
  <2>1. To(n, m) \in Outbox
    BY ToTyped
  <2>2. \A f \in Fess : To(n, m)[f] = IF f = n THEN <<m>> ELSE << >>
    BY DEF To, Silent, Nodes
  <2>3. QED
    BY <1>2, <2>1, <2>2 DEF AsksNobody
<1>3. QED
  BY <1>1, <1>2

(* No request is on its way to f that was not before. *)
LEMMA NotAsked ==
  ASSUME TypeOK, NEW f \in Fess, NEW s \in Shards, NEW src,
         NEW outs \in Outbox, AsksNobody(outs), Receive(src, s, outs) \/ Emit(s, outs)
  PROVE  Number(net'[Down(f)], Asks) = Number(net[Down(f)], Asks)
<1> DEFINE q == net[Down(f)]
<1>1. q \in Seq(Message)
  BY AwaitedTyped
<1>2. net'[Down(f)] = IF ShardOf[f] = s THEN q \o outs[f] ELSE q
  BY WSStepLinks
<1> HIDE DEF q
<1>3. CASE outs[f] = << >>
  BY <1>1, <1>2, <1>3, ConcatEmptySeq DEF q
<1>4. ASSUME NEW m \in Message \ Asks, outs[f] = <<m>>
      PROVE  Number(q \o outs[f], Asks) = Number(q, Asks)
  BY <1>1, <1>4, NumberSent
<1>5. QED
  BY <1>2, <1>3, <1>4 DEF q, AsksNobody

(* A step of a WS that no front end causes and that asks nobody. *)
LEMMA WSAsksNobody ==
  ASSUME TypeOK, NEW f \in Fess, CookiesCounted(f), pending' = pending, nbPending' = nbPending,
         NEW s \in Shards, NEW src, src \notin Fess, NEW outs \in Outbox, AsksNobody(outs),
         Receive(src, s, outs) \/ Emit(s, outs)
  PROVE  CookiesCounted(f)'
<1>1. Up(f) # <<src, s>>
  BY DEF Up
<1>2. net'[Up(f)] = net[Up(f)]
  BY <1>1, WSStepLinks
<1>3. QED
  BY <1>2, NotAsked, NothingMoved

(* A step of a WS with a message of front end g, that asks nobody: a report*)
(* may be counted once.                                                    *)
LEMMA WSReadsReport ==
  ASSUME TypeOK, NEW f \in Fess, CookiesCounted(f), pending' = pending,
         NEW g \in Fess, NEW kind, Pending(g, ShardOf[g], kind),
         NEW outs \in Outbox, AsksNobody(outs), Receive(g, ShardOf[g], outs),
         \/ nbPending' = nbPending
         \/ /\ Head(net[Up(g)]) \in Spent
            /\ nbPending' = [nbPending EXCEPT ![g] = Decrement(@)]
  PROVE  CookiesCounted(f)'
<1>1. ShardOf[g] \in Shards /\ nbPending \in [Fess -> Nat]
  BY PlacesOK DEF TypeOK, WSTypeOK
<1>2. Number(net'[Down(f)], Asks) = Number(net[Down(f)], Asks)
  BY <1>1, NotAsked
<1>3. CASE f # g
  <2>1. Up(f) # <<g, ShardOf[g]>> /\ nbPending'[f] = nbPending[f]
    BY <1>1, <1>3 DEF Up
  <2>2. net'[Up(f)] = net[Up(f)]
    BY <1>1, <2>1, WSStepLinks
  <2>3. QED
    BY <1>2, <2>1, <2>2, NothingMoved
<1>4. CASE f = g
  <2>1. Up(f) = <<g, ShardOf[g]>>
    BY <1>4 DEF Up
  <2>2. net'[Up(f)] = Tail(net[Up(f)])
    BY <1>1, <2>1, WSStepLinks
  <2>3. net[Up(f)] # << >>
    BY <2>1 DEF Pending
  <2>4. \/ nbPending'[f] = nbPending[f]
        \/ Head(net[Up(f)]) \in Spent /\ nbPending'[f] = Decrement(nbPending[f])
    BY <1>1, <1>4
  <2>5. QED
    BY <1>2, <2>2, <2>3, <2>4, ReadAndCounted
<1>5. QED
  BY <1>3, <1>4

(* What a WS does with a message of a front end leaves its counts high     *)
(* enough: it forgets a cookie only when told that it is spent or dropped. *)
LEMMA WSFromFESSteps ==
  ASSUME TypeOK, NEW g \in Fess,
         WSShardAnswer(g) \/ WSLoginClient(g) \/ WSLogoffClient(g)
           \/ WSRemovedPendingCookie(g) \/ WSChangeShardReq(g)
  PROVE  \E kind, outs :
           /\ Pending(g, ShardOf[g], kind) /\ outs \in Outbox /\ AsksNobody(outs)
           /\ Receive(g, ShardOf[g], outs)
           /\ \/ nbPending' = nbPending
              \/ /\ Head(net[Up(g)]) \in Spent
                 /\ nbPending' = [nbPending EXCEPT ![g] = Decrement(@)]
<1> DEFINE s == ShardOf[g]
           m == Head(net[Up(g)])
<1>0. /\ WSTyped /\ s \in Shards /\ <<g, s>> \in Links /\ Up(g) = <<g, s>>
      /\ LS \notin Fess /\ Fess \subseteq FesOrNone
  BY TypeOKIs, LinksAre, WSNulls, NodesDistinct DEF Up
<1>1. CASE WSShardAnswer(g)
  <2>1. /\ Pending(g, s, "M_ENTER_SHARD_ANSWER") /\ Receive(g, s, To(LS, m))
        /\ nbPending' = nbPending
    BY <1>0, <1>1 DEF WSShardAnswer, wsVars
  <2>2. m \in Message
    BY <1>0, <2>1, WSHeadTyped
  <2>3. To(LS, m) \in Outbox /\ AsksNobody(To(LS, m))
    BY <1>0, <2>2, AskingNobody
  <2> HIDE DEF m
  <2>4. QED
    BY <2>1, <2>3
<1>2. CASE WSLoginClient(g)
  <2>1. Pending(g, s, "M_CLIENT_CONNECT_STATUS") /\ m.v = 1
    BY <1>0, <1>2 DEF WSLoginClient
  <2>2. m \in Message /\ m.u \in Users /\ m.kind = "M_CLIENT_CONNECT_STATUS"
    BY <1>0, <2>1, WSHeadTyped
  <2>3. m \in Spent
    BY <2>1, <2>2 DEF Spent
  <2> DEFINE no == Msg("M_CLIENT_DISCONNECT", m.u)
             yes == [m EXCEPT !.fsSid = g]
  <2>4. \/ nbPending' = nbPending /\ Receive(g, s, To(g, no))
        \/ nbPending' = [nbPending EXCEPT ![g] = Decrement(@)] /\ Receive(g, s, To(LS, yes))
    BY <1>0, <1>2 DEF WSLoginClient
  <2>5. no \in Message \ Asks
    <3>1. no \in Message
      BY <2>2, WSMsgTyped DEF WSKinds
    <3>2. no.kind = "M_CLIENT_DISCONNECT"
      BY DEF Msg
    <3>3. QED
      BY <3>1, <3>2 DEF Asks
  <2>6. yes \in Message
    <3> HIDE DEF m
    <3> QED
      BY <1>0, <2>2 DEF Message, Answers
  <2> HIDE DEF no, yes
  <2>7. /\ To(g, no) \in Outbox /\ AsksNobody(To(g, no))
        /\ To(LS, yes) \in Outbox /\ AsksNobody(To(LS, yes))
    BY <1>0, <2>5, <2>6, AskingNobody
  <2>8. QED
    BY <2>1, <2>3, <2>4, <2>7
<1>3. CASE WSLogoffClient(g)
  <2>1. /\ Pending(g, s, "M_CLIENT_CONNECT_STATUS") /\ Receive(g, s, Silent)
        /\ nbPending' = nbPending
    BY <1>3 DEF WSLogoffClient
  <2>2. QED
    BY <2>1, AskingNobody
<1>4. CASE WSRemovedPendingCookie(g)
  <2>1. /\ Pending(g, s, "M_LOGIN_SERVER_RPC") /\ Receive(g, s, To(LS, m))
        /\ nbPending' = [nbPending EXCEPT ![g] = Decrement(@)]
    BY <1>0, <1>4 DEF WSRemovedPendingCookie
  <2>2. m \in Message /\ m.kind = "M_LOGIN_SERVER_RPC"
    BY <1>0, <2>1, WSHeadTyped
  <2>3. m \in Spent /\ To(LS, m) \in Outbox /\ AsksNobody(To(LS, m))
    BY <1>0, <2>2, AskingNobody DEF Spent
  <2>4. QED
    BY <2>1, <2>3
<1>5. CASE WSChangeShardReq(g)
  <2> DEFINE out == [m EXCEPT !.fsSid = g]
  <2>1. /\ Pending(g, s, "M_CS_CHANGE_SHARD_REQ") /\ nbPending' = nbPending
        /\ Receive(g, s, Silent) \/ Receive(g, s, To(LS, out))
    BY <1>0, <1>5 DEF WSChangeShardReq, wsVars
  <2>2. m \in Message /\ m.kind = "M_CS_CHANGE_SHARD_REQ"
    BY <1>0, <2>1, WSHeadTyped
  <2>3. out \in Message
    <3> HIDE DEF m
    <3> QED
      BY <1>0, <2>2 DEF Message, Answers
  <2> HIDE DEF out
  <2>4. To(LS, out) \in Outbox /\ AsksNobody(To(LS, out))
    BY <1>0, <2>3, AskingNobody
  <2>5. QED
    BY <2>1, <2>4, AskingNobody
<1>6. QED
  BY <1>1, <1>2, <1>3, <1>4, <1>5

LEMMA WSFromFESCounts ==
  ASSUME TypeOK, NEW f \in Fess, CookiesCounted(f), pending' = pending, NEW g \in Fess,
         WSShardAnswer(g) \/ WSLoginClient(g) \/ WSLogoffClient(g)
           \/ WSRemovedPendingCookie(g) \/ WSChangeShardReq(g)
  PROVE  CookiesCounted(f)'
BY WSFromFESSteps, WSReadsReport

(* A WS counts a cookie before it asks a front end to await it. *)
LEMMA WSChooseShardCounts ==
  ASSUME TypeOK, NEW f \in Fess, CookiesCounted(f), pending' = pending,
         NEW s \in Shards, WSChooseShard(s)
  PROVE  CookiesCounted(f)'
<1> DEFINE m == Head(net[<<LS, s>>])
<1>1. Pending(LS, s, "M_ENTER_SHARD_REQUEST")
  BY DEF WSChooseShard
<1>2. PICK g \in Best(s) : /\ nbPending' = [nbPending EXCEPT ![g] = @ + 1]
                           /\ Receive(LS, s, To(g, m))
  BY DEF WSChooseShard
<1>3. m \in Message /\ m.kind = "M_ENTER_SHARD_REQUEST"
  BY <1>1, TypeOKIs, LinksAre, WSHeadTyped
<1>4. m \in Asks /\ To(g, m) \in Outbox /\ g \in Fess /\ ShardOf[g] = s /\ LS \notin Fess
  BY <1>3, ToTyped, NodesDistinct DEF Asks, Best, FesOf
<1> HIDE DEF m
<1>5. net'[Up(f)] = net[Up(f)]
  BY <1>2, <1>4, WSStepLinks DEF Up
<1>6. net'[Down(f)] = IF ShardOf[f] = s THEN net[Down(f)] \o To(g, m)[f] ELSE net[Down(f)]
  BY <1>2, <1>4, WSStepLinks
<1>7. nbPending \in [Fess -> Nat] /\ f \in Nodes /\ net[Down(f)] \in Seq(Message)
  BY AwaitedTyped DEF TypeOK, WSTypeOK, Nodes
<1> DEFINE q == net[Down(f)]
<1>8. Number(q \o To(g, m)[f], Asks) =
        IF f = g /\ m \in Asks THEN Number(q, Asks) + 1 ELSE Number(q, Asks)
  <2>1. To(g, m)[f] = IF f = g THEN <<m>> ELSE << >>
    BY <1>7 DEF To, Silent
  <2>2. q \in Seq(Message)
    BY <1>7
  <2> HIDE DEF q
  <2>3. q \o << >> = q
    BY <2>2, ConcatEmptySeq
  <2>4. Number(q \o <<m>>, Asks) = IF m \in Asks THEN Number(q, Asks) + 1 ELSE Number(q, Asks)
    BY <1>3, <2>2, NumberSent
  <2>5. QED
    BY <2>1, <2>3, <2>4
<1>9. CASE f # g
  <2>1. Number(net'[Down(f)], Asks) = Number(net[Down(f)], Asks)
    BY <1>6, <1>9, <1>8
  <2>2. nbPending'[f] = nbPending[f]
    BY <1>2, <1>7, <1>9
  <2>3. QED
    BY <1>5, <2>1, <2>2, NothingMoved
<1>10. CASE f = g
  <2> DEFINE c == Cardinality(pending[f])
             d == Number(net[Down(f)], Asks)
             n == Number(net[Up(f)], Spent)
  <2>1. Number(net'[Down(f)], Asks) = d + 1
    BY <1>4, <1>6, <1>10, <1>8
  <2>2. nbPending'[f] = nbPending[f] + 1
    BY <1>2, <1>4, <1>7, <1>10
  <2>3. Awaited(f)' = c + (d + 1) + n
    BY <1>5, <2>1 DEF Awaited, Down, Up
  <2>4. c \in Nat /\ d \in Nat /\ n \in Nat /\ c + d + n <= nbPending[f] /\ nbPending[f] \in Nat
    BY AwaitedTyped DEF CookiesCounted, Awaited
  <2>5. c + (d + 1) + n <= nbPending'[f]
    <3> HIDE DEF c, d, n
    <3> QED
      BY <2>2, <2>4
  <2>6. QED
    BY <2>3, <2>5 DEF CookiesCounted
<1>11. QED
  BY <1>9, <1>10

(* What a WS does for the LS, another WS or a finished query asks no front *)
(* end to await a client, but for WSChooseShard.                           *)
LEMMA WSOtherSteps ==
  ASSUME TypeOK, NEW s \in Shards,
         \/ WSNoFrontend(s) \/ WSDisconnectClient(s) \/ WSForceLogoff(s)
         \/ WSRelayToFES(s) \/ WSMoveUserDataReq(s) \/ WSQueryDone(s)
         \/ \E from \in Shards \ {s} : WSSendUserData(from, s)
  PROVE  \E src, outs : /\ src \notin Fess /\ outs \in Outbox /\ AsksNobody(outs)
                        /\ Receive(src, s, outs) \/ Emit(s, outs)
                        /\ nbPending' = nbPending
<1> DEFINE m == Head(net[<<LS, s>>])
<1>0. /\ WSTyped /\ <<LS, s>> \in Links /\ LS \notin Fess /\ Shards \cap Fess = {}
      /\ Silent \in Outbox /\ AsksNobody(Silent)
  BY TypeOKIs, LinksAre, NodesDistinct, AskingNobody
<1>2. ASSUME NEW u \in Users
      PROVE  DisconnectClient(s, u) \in Outbox /\ AsksNobody(DisconnectClient(s, u))
  <2> DEFINE no == Msg("M_CLIENT_DISCONNECT", u)
  <2>1. no \in Message /\ no.kind = "M_CLIENT_DISCONNECT"
    BY WSMsgTyped DEF WSKinds, Msg
  <2>2. no \in Message \ Asks
    <3> HIDE DEF no
    <3> QED
      BY <2>1 DEF Asks
  <2> HIDE DEF no
  <2>3. To(wsAssoc[s][u], no) \in Outbox /\ AsksNobody(To(wsAssoc[s][u], no))
    BY <2>2, AskingNobody
  <2>4. QED
    BY <1>0, <2>3 DEF DisconnectClient, no
<1>3. CASE WSNoFrontend(s)
  <2> DEFINE ans == [m EXCEPT !.kind = "M_ENTER_SHARD_ANSWER", !.v = 1]
  <2>1. /\ Pending(LS, s, "M_ENTER_SHARD_REQUEST") /\ Receive(LS, s, To(LS, ans))
        /\ nbPending' = nbPending
    BY <1>3 DEF WSNoFrontend, wsVars
  <2>2. m \in Message
    BY <1>0, <2>1, WSHeadTyped
  <2>3. ans \in Message
    <3> HIDE DEF m
    <3>1. "M_ENTER_SHARD_ANSWER" \in Kinds /\ 1 \in Nat \ {0}
      BY DEF Kinds
    <3> QED
      BY <2>2, <3>1, RefusalTyped
  <2> HIDE DEF ans
  <2>4. To(LS, ans) \in Outbox /\ AsksNobody(To(LS, ans))
    BY <1>0, <2>3, AskingNobody
  <2>5. QED
    BY <1>0, <2>1, <2>4
<1>4. CASE WSDisconnectClient(s) \/ WSForceLogoff(s)
  <2>1. /\ \/ Pending(LS, s, "M_CLIENT_DISCONNECT")
           \/ Pending(LS, s, "M_NT_REQ_FORCE_LOGOFF")
        /\ Receive(LS, s, DisconnectClient(s, m.u)) /\ nbPending' = nbPending
    BY <1>4 DEF WSDisconnectClient, WSForceLogoff, wsVars
  <2>2. m.u \in Users
    BY <1>0, <2>1, WSHeadTyped
  <2> HIDE DEF m
  <2>3. QED
    BY <1>0, <1>2, <2>1, <2>2
<1>5. CASE WSRelayToFES(s)
  <2>1. /\ \/ Pending(LS, s, "M_ENTER__SHARD")
           \/ Pending(LS, s, "M_SC_CHANGE_SHARD_ANS")
        /\ Receive(LS, s, IF m.fsSid = NoFes THEN Silent ELSE To(m.fsSid, m))
        /\ nbPending' = nbPending
    BY <1>5 DEF WSRelayToFES, wsVars
  <2>2. m \in Message /\ m.kind \in {"M_ENTER__SHARD", "M_SC_CHANGE_SHARD_ANS"}
    BY <1>0, <2>1, WSHeadTyped
  <2>3. m \in Message \ Asks
    BY <2>2 DEF Asks
  <2> HIDE DEF m
  <2>4. To(m.fsSid, m) \in Outbox /\ AsksNobody(To(m.fsSid, m))
    BY <2>3, AskingNobody
  <2>5. QED
    BY <1>0, <2>1, <2>4
<1>6. CASE WSMoveUserDataReq(s)
  BY <1>0, <1>6 DEF WSMoveUserDataReq
<1>7. CASE WSQueryDone(s)
  <2>1. PICK i \in DOMAIN jobs[s], fails \in BOOLEAN :
          Emit(s, IF fails THEN Silent ELSE JobOutbox(s, jobs[s][i]))
    BY <1>7 DEF WSQueryDone
  <2> DEFINE j == jobs[s][i]
  <2>2. j \in Job
    BY LenProperties, ElementOfSeq DEF TypeOK, WSTypeOK
  <2>3. /\ j.u \in Users /\ data[s][j.u] \in Nat
        /\ j.job \in {"FamilyLogout", "ForcedLogout", "GetUserMoveData"}
    BY <2>2 DEF Job, TypeOK, WSTypeOK
  <2> HIDE DEF j
  <2>4. \E n : \E out \in Message \ Asks : JobOutbox(s, j) = To(n, out)
    <3>1. CASE j.job = "FamilyLogout"
      <4> DEFINE out == Msg("M_CLIENT_CONNECT_STATUS", j.u)
      <4>1. out \in Message /\ out.kind = "M_CLIENT_CONNECT_STATUS"
        BY <2>3, WSMsgTyped DEF WSKinds, Msg
      <4>2. JobOutbox(s, j) = To(LS, out)
        BY <3>1 DEF JobOutbox
      <4> HIDE DEF out
      <4>3. out \in Message \ Asks
        BY <4>1 DEF Asks
      <4>4. QED
        BY <4>2, <4>3
    <3>2. CASE j.job = "ForcedLogout"
      <4> DEFINE out == Msg("M_LS_RELOGOFF", j.u)
      <4>1. out \in Message /\ out.kind = "M_LS_RELOGOFF"
        BY <2>3, WSMsgTyped DEF WSKinds, Msg
      <4>2. JobOutbox(s, j) = To(LS, out)
        BY <3>2 DEF JobOutbox
      <4> HIDE DEF out
      <4>3. out \in Message \ Asks
        BY <4>1 DEF Asks
      <4>4. QED
        BY <4>2, <4>3
    <3>3. CASE j.job = "GetUserMoveData"
      <4> DEFINE out == [Msg("M_NT_SEND_USER_DATA", j.u) EXCEPT !.v = data[s][j.u]]
      <4>1. out \in Message /\ out.kind = "M_NT_SEND_USER_DATA"
        BY <2>3, WSMsgTyped DEF WSKinds, Msg
      <4>2. JobOutbox(s, j) = To(j.to, out)
        BY <3>3 DEF JobOutbox
      <4> HIDE DEF out
      <4>3. out \in Message \ Asks
        BY <4>1 DEF Asks
      <4>4. QED
        BY <4>2, <4>3
    <3>4. QED
      BY <2>3, <3>1, <3>2, <3>3
  <2>5. JobOutbox(s, j) \in Outbox /\ AsksNobody(JobOutbox(s, j))
    BY <2>4, AskingNobody
  <2>6. nbPending' = nbPending
    BY <1>7 DEF WSQueryDone
  <2>7. QED
    BY <1>0, <2>1, <2>5, <2>6 DEF j
<1>8. ASSUME NEW from \in Shards \ {s}, WSSendUserData(from, s)
      PROVE  \E src, outs : /\ src \notin Fess /\ outs \in Outbox /\ AsksNobody(outs)
                            /\ Receive(src, s, outs) \/ Emit(s, outs)
                            /\ nbPending' = nbPending
  <2> DEFINE u  == Head(net[<<from, s>>]).u
             out == Msg("M_NT_MOVE_USER_DATA_END", u)
  <2>1. /\ Pending(from, s, "M_NT_SEND_USER_DATA") /\ Receive(from, s, To(LS, out))
        /\ nbPending' = nbPending
    BY <1>8 DEF WSSendUserData
  <2>2. u \in Users
    BY <1>0, <2>1, LinksAre, WSHeadTyped
  <2>3. out \in Message
    BY <2>2, WSMsgTyped DEF WSKinds
  <2> HIDE DEF out
  <2>4. To(LS, out) \in Outbox /\ AsksNobody(To(LS, out))
    BY <1>0, <2>3, AskingNobody
  <2>5. from \notin Fess
    BY <1>0
  <2>6. QED
    BY <2>1, <2>4, <2>5
<1>9. QED
  BY <1>3, <1>4, <1>5, <1>6, <1>7, <1>8

LEMMA WSOtherCounts ==
  ASSUME TypeOK, NEW f \in Fess, CookiesCounted(f), pending' = pending, NEW s \in Shards,
         \/ WSNoFrontend(s) \/ WSDisconnectClient(s) \/ WSForceLogoff(s)
         \/ WSRelayToFES(s) \/ WSMoveUserDataReq(s) \/ WSQueryDone(s)
         \/ \E from \in Shards \ {s} : WSSendUserData(from, s)
  PROVE  CookiesCounted(f)'
BY WSOtherSteps, WSAsksNobody

(* A step of another front end changes nothing that is counted. *)
LEMMA FESElsewhere ==
  ASSUME TypeOK, NEW f \in Fess, CookiesCounted(f), nbPending' = nbPending,
         NEW g \in Fess \ {f}, pending'[f] = pending[f],
         net' = net \/ \E outs \in Outbox : Receive(ShardOf[g], g, outs) \/ Emit(g, outs)
  PROVE  CookiesCounted(f)'
<1>1. net'[Down(f)] = net[Down(f)] /\ net'[Up(f)] = net[Up(f)]
  BY FESStepLinks
<1>2. QED
  BY <1>1, NothingMoved

(* An outbox that reports no cookie of front end f. *)
ReportsNothing(f, outs) ==
  outs[ShardOf[f]] = << >> \/ \E m \in Message \ Spent : outs[ShardOf[f]] = <<m>>

(* A front end reads a message and reports nothing: it may keep the cookie *)
(* of a request.                                                           *)
LEMMA FESReads ==
  ASSUME TypeOK, NEW f \in Fess, CookiesCounted(f), nbPending' = nbPending,
         NEW kind, Pending(ShardOf[f], f, kind),
         NEW outs \in Outbox, ReportsNothing(f, outs), Receive(ShardOf[f], f, outs),
         \/ pending'[f] = pending[f]
         \/ /\ Head(net[Down(f)]) \in Asks
            /\ \E S, p : S \subseteq pending[f] /\ pending'[f] = S \cup {p}
  PROVE  CookiesCounted(f)'
<1> DEFINE q == net[Down(f)]
           r == net[Up(f)]
           c == Cardinality(pending[f])
           d == Number(q, Asks)
           n == Number(r, Spent)
           k == Number(Tail(q), Asks)
           c2 == Cardinality(pending'[f])
<1>1. /\ q \in Seq(Message) /\ r \in Seq(Message) /\ d \in Nat /\ n \in Nat /\ c \in Nat
      /\ IsFiniteSet(pending[f]) /\ nbPending[f] \in Nat /\ c + d + n <= nbPending[f]
  BY AwaitedTyped DEF CookiesCounted, Awaited
<1>2. q # << >>
  BY DEF Pending, Down
<1>3. net'[Down(f)] = Tail(q) /\ net'[Up(f)] = r \o outs[ShardOf[f]]
  BY FESStepLinks
<1>4. Number(r \o outs[ShardOf[f]], Spent) = n
  <2> HIDE DEF r
  <2>1. CASE outs[ShardOf[f]] = << >>
    BY <1>1, <2>1, ConcatEmptySeq
  <2>2. ASSUME NEW m \in Message \ Spent, outs[ShardOf[f]] = <<m>>
        PROVE  Number(r \o outs[ShardOf[f]], Spent) = n
    BY <1>1, <2>2, NumberSent
  <2>3. QED
    BY <2>1, <2>2 DEF ReportsNothing
<1>5. /\ k = IF Head(q) \in Asks THEN d - 1 ELSE d
      /\ Head(q) \in Asks => d > 0
  <2> HIDE DEF q
  <2> QED
    BY <1>1, <1>2, NumberRead
<1>6. /\ IsFiniteSet(pending'[f]) /\ c2 \in Nat
      /\ \/ c2 = c
         \/ Head(q) \in Asks /\ c2 <= c + 1
  <2>1. CASE pending'[f] = pending[f]
    BY <1>1, <2>1
  <2>2. ASSUME Head(q) \in Asks, NEW S, NEW p, S \subseteq pending[f], pending'[f] = S \cup {p}
        PROVE  <1>6
    <3>1. IsFiniteSet(S) /\ Cardinality(S) <= c /\ Cardinality(S) \in Nat
      BY <1>1, <2>2, FS_Subset, FS_CardinalityType
    <3>2. /\ IsFiniteSet(S \cup {p})
          /\ Cardinality(S \cup {p}) = IF p \in S THEN Cardinality(S) ELSE Cardinality(S) + 1
      BY <3>1, FS_AddElement
    <3> HIDE DEF c, q
    <3>3. QED
      BY <1>1, <2>2, <3>1, <3>2
  <2>3. QED
    BY <2>1, <2>2
<1>7. Awaited(f)' = c2 + k + n
  BY <1>3, <1>4 DEF Awaited, Down, Up
<1>8. c2 + k + n <= nbPending[f]
  <2> HIDE DEF c, d, n, k, c2, q
  <2> QED
    BY <1>1, <1>5, <1>6
<1>9. QED
  BY <1>6, <1>7, <1>8 DEF CookiesCounted

(* A front end sends its WS one message on its own: it forgets a cookie    *)
(* when that is a report, and only one.                                    *)
LEMMA FESSends ==
  ASSUME TypeOK, NEW f \in Fess, CookiesCounted(f), nbPending' = nbPending,
         NEW out \in Message, Emit(f, To(ShardOf[f], out)),
         \/ pending'[f] = pending[f] /\ out \notin Spent
         \/ \E p \in pending[f] : pending'[f] = pending[f] \ {p}
  PROVE  CookiesCounted(f)'
<1> DEFINE q == net[Down(f)]
           r == net[Up(f)]
           c == Cardinality(pending[f])
           d == Number(q, Asks)
           n == Number(r, Spent)
           k == Number(r \o <<out>>, Spent)
           c2 == Cardinality(pending'[f])
<1>1. /\ r \in Seq(Message) /\ d \in Nat /\ n \in Nat /\ c \in Nat
      /\ IsFiniteSet(pending[f]) /\ nbPending[f] \in Nat /\ c + d + n <= nbPending[f]
  BY AwaitedTyped DEF CookiesCounted, Awaited
<1>2. To(ShardOf[f], out) \in Outbox /\ To(ShardOf[f], out)[ShardOf[f]] = <<out>>
  BY ToTyped, LinksApart, PlacesOK DEF To, Silent
<1>3. net'[Down(f)] = q /\ net'[Up(f)] = r \o <<out>>
  BY <1>2, FESStepLinks
<1>4. k = IF out \in Spent THEN n + 1 ELSE n
  <2> HIDE DEF r
  <2> QED
    BY <1>1, NumberSent
<1>5. /\ IsFiniteSet(pending'[f]) /\ c2 \in Nat
      /\ \/ c2 = c /\ out \notin Spent
         \/ c2 = c - 1
  BY <1>1, FS_RemoveElement, FS_CardinalityType
<1>6. Awaited(f)' = c2 + d + k
  BY <1>3 DEF Awaited, Down, Up
<1>7. c2 + d + k <= nbPending[f]
  <2> HIDE DEF c, d, n, k, c2, q
  <2> QED
    BY <1>1, <1>4, <1>5
<1>8. QED
  BY <1>5, <1>6, <1>7 DEF CookiesCounted

(* Every step of a front end keeps the counts high enough. *)
LEMMA FESCounts ==
  ASSUME TypeOK, NEW f \in Fess, CookiesCounted(f), nbPending' = nbPending, FSNext
  PROVE  CookiesCounted(f)'
<1>1. PICK g \in Fess :
        \/ FSChooseShard(g) \/ FSDisconnectClient(g) \/ FSEnterShardOk(g)
        \/ FSChangeShardAns(g) \/ FSShardValidation(g) \/ FSInvalidCookie(g)
        \/ FSDisconnected(g) \/ FSRefreshPending(g)
  BY DEF FSNext
<1> DEFINE m == Head(net[Down(g)])
           ans == [m EXCEPT !.kind = "M_ENTER_SHARD_ANSWER", !.f = g, !.v = 0]
<1>0. /\ FSTyped /\ Silent \in Outbox /\ ReportsNothing(g, Silent) /\ Down(g) = <<ShardOf[g], g>>
      /\ pending \in [Fess -> SUBSET [u : Users, ck : Cookie]]
      /\ conn \in [Fess -> [Conns -> Conn]]
      /\ "M_CLIENT_CONNECT_STATUS" \in Kinds \ Answers
      /\ "M_LOGIN_SERVER_RPC" \in Kinds \ Answers
  <2>1. FSTyped /\ Silent \in Outbox
    BY TypeOKIs, SilentTyped
  <2>2. ReportsNothing(g, Silent)
    BY LinksApart, PlacesOK DEF ReportsNothing, Silent
  <2>3. QED
    BY <2>1, <2>2 DEF Down, FSTyped, FSTypeOK, Kinds, Answers
<1>2. CASE FSChooseShard(g)
  <2>1. /\ Pending(ShardOf[g], g, "M_ENTER_SHARD_REQUEST")
        /\ pending' = [pending EXCEPT ![g] = Announced(g, m.u, m.ck)]
        /\ Receive(ShardOf[g], g, To(ShardOf[g], ans))
    BY <1>0, <1>2 DEF FSChooseShard
  <2>2. m \in Message /\ m.kind = "M_ENTER_SHARD_REQUEST" /\ m \in Asks
    BY <1>0, <2>1, FSHeadTyped DEF Asks
  <2>3. ans \in Message /\ ans.kind = "M_ENTER_SHARD_ANSWER"
    <3> HIDE DEF m
    <3>1. ans \in Message
      BY <2>2, OfferTyped
    <3>2. QED
      BY <2>2, <3>1 DEF Message
  <2> HIDE DEF ans
  <2>4. To(ShardOf[g], ans) \in Outbox /\ ReportsNothing(g, To(ShardOf[g], ans))
    <3>1. To(ShardOf[g], ans) \in Outbox /\ To(ShardOf[g], ans)[ShardOf[g]] = <<ans>>
      BY <2>3, ToTyped, LinksApart, PlacesOK DEF To, Silent
    <3>2. ans \in Message \ Spent
      BY <2>3 DEF Spent
    <3>3. QED
      BY <3>1, <3>2 DEF ReportsNothing
  <2>5. \E S, p : S \subseteq pending[g] /\ pending'[g] = S \cup {p}
    BY <1>0, <2>1 DEF Announced
  <2>6. CASE f = g
    <3>1. Head(net[Down(f)]) \in Asks
      BY <2>2, <2>6
    <3>2. /\ Pending(ShardOf[f], f, "M_ENTER_SHARD_REQUEST")
          /\ ReportsNothing(f, To(ShardOf[g], ans)) /\ To(ShardOf[g], ans) \in Outbox
          /\ Receive(ShardOf[f], f, To(ShardOf[g], ans))
      BY <2>1, <2>4, <2>6
    <3>3. \/ pending'[f] = pending[f]
          \/ /\ Head(net[Down(f)]) \in Asks
             /\ \E S, p : S \subseteq pending[f] /\ pending'[f] = S \cup {p}
      BY <2>5, <2>6, <3>1
    <3>4. QED
      BY <3>2, <3>3, FESReads
  <2>7. CASE f # g
    BY <1>0, <2>1, <2>4, <2>7, FESElsewhere
  <2>8. QED
    BY <2>6, <2>7
<1>3. CASE FSDisconnectClient(g) \/ FSEnterShardOk(g) \/ FSChangeShardAns(g)
  <2>1. /\ \/ Pending(ShardOf[g], g, "M_CLIENT_DISCONNECT")
           \/ Pending(ShardOf[g], g, "M_ENTER__SHARD")
           \/ Pending(ShardOf[g], g, "M_SC_CHANGE_SHARD_ANS")
        /\ Receive(ShardOf[g], g, Silent) /\ pending' = pending
    BY <1>3 DEF FSDisconnectClient, FSEnterShardOk, FSChangeShardAns
  <2>2. CASE f = g
    BY <1>0, <2>1, <2>2, FESReads
  <2>3. CASE f # g
    BY <1>0, <2>1, <2>3, FESElsewhere
  <2>4. QED
    BY <2>2, <2>3
<1>4. CASE FSInvalidCookie(g)
  <2>1. pending' = pending /\ net' = net
    BY <1>4 DEF FSInvalidCookie, netVars
  <2>2. QED
    BY <2>1, NothingMoved
<1>5. ASSUME NEW out \in Message, Emit(g, To(ShardOf[g], out)),
             \/ pending' = pending /\ out \notin Spent
             \/ \E p \in pending[g] : pending' = [pending EXCEPT ![g] = @ \ {p}]
      PROVE  CookiesCounted(f)'
  <2>1. CASE f = g
    <3>1. Emit(f, To(ShardOf[f], out))
      BY <1>5, <2>1
    <3>2. \/ pending'[f] = pending[f] /\ out \notin Spent
          \/ \E p \in pending[f] : pending'[f] = pending[f] \ {p}
      BY <1>0, <1>5, <2>1
    <3>3. QED
      BY <3>1, <3>2, FESSends
  <2>2. CASE f # g
    <3>1. pending'[f] = pending[f] /\ To(ShardOf[g], out) \in Outbox
      BY <1>0, <1>5, <2>2, ToTyped
    <3>2. QED
      BY <1>5, <2>2, <3>1, FESElsewhere
  <2>3. QED
    BY <2>1, <2>2
<1>6. CASE FSShardValidation(g)
  <2> DEFINE e == Head(events[g])
             u == conn[g][e.k].u
             out == [Msg("M_CLIENT_CONNECT_STATUS", u) EXCEPT !.v = 1, !.ck = e.ck]
  <2>1. /\ [u |-> u, ck |-> e.ck] \in pending[g]
        /\ pending' = [pending EXCEPT ![g] = @ \ {[u |-> u, ck |-> e.ck]}]
        /\ Emit(g, To(ShardOf[g], out)) /\ events[g] # << >>
    BY <1>6 DEF FSShardValidation
  <2>2. u \in Users /\ e.ck \in Cookie
    BY <1>0, <2>1, EventTyped
  <2> HIDE DEF e, u
  <2>3. out \in Message
    BY <1>0, <2>2, FSNulls, MsgTyped
  <2> HIDE DEF out
  <2>4. QED
    BY <1>5, <2>1, <2>3
<1>7. CASE FSDisconnected(g)
  <2> DEFINE k == Head(events[g]).k
             out == Msg("M_CLIENT_CONNECT_STATUS", conn[g][k].u)
  <2>1. /\ pending' = pending /\ events[g] # << >>
        /\ net' = net \/ Emit(g, To(ShardOf[g], out))
    BY <1>7 DEF FSDisconnected
  <2>2. conn[g][k].u \in Users
    BY <1>0, <2>1, EventTyped
  <2>3. out \in Message /\ out.kind = "M_CLIENT_CONNECT_STATUS" /\ out.v = 0
    <3>1. out \in Message
      BY <1>0, <2>2, FSNulls, MsgTyped
    <3>2. QED
      BY <3>1 DEF Msg
  <2> HIDE DEF out, k
  <2>4. out \notin Spent
    BY <2>3 DEF Spent
  <2>5. CASE net' = net
    BY <2>1, <2>5, NothingMoved
  <2>6. QED
    BY <1>5, <2>1, <2>3, <2>4, <2>5
<1>8. CASE FSRefreshPending(g)
  <2>1. PICK p \in pending[g] :
          /\ pending' = [pending EXCEPT ![g] = @ \ {p}]
          /\ Emit(g, To(ShardOf[g], [Msg("M_LOGIN_SERVER_RPC", p.u) EXCEPT !.ck = p.ck]))
    BY <1>8 DEF FSRefreshPending
  <2> DEFINE out == [Msg("M_LOGIN_SERVER_RPC", p.u) EXCEPT !.ck = p.ck]
  <2>2. p.u \in Users /\ p.ck \in Cookie
    BY <1>0
  <2>3. out \in Message
    BY <1>0, <2>2, FSNulls, MsgTyped
  <2> HIDE DEF out
  <2>4. QED
    BY <1>5, <2>1, <2>3 DEF out
<1>9. QED
  BY <1>1, <1>2, <1>3, <1>4, <1>6, <1>7, <1>8

(* A step of a WS keeps the counts high enough. *)
LEMMA WSCounts ==
  ASSUME TypeOK, NEW f \in Fess, CookiesCounted(f), pending' = pending, WSNext
  PROVE  CookiesCounted(f)'
<1>1. CASE \E g \in Fess :
             \/ WSShardAnswer(g) \/ WSLoginClient(g) \/ WSLogoffClient(g)
             \/ WSRemovedPendingCookie(g) \/ WSChangeShardReq(g)
  BY <1>1, WSFromFESCounts
<1>2. CASE \E s \in Shards : WSChooseShard(s)
  BY <1>2, WSChooseShardCounts
<1>3. CASE \E s \in Shards :
             \/ WSNoFrontend(s) \/ WSDisconnectClient(s) \/ WSForceLogoff(s)
             \/ WSRelayToFES(s) \/ WSMoveUserDataReq(s) \/ WSQueryDone(s)
             \/ \E from \in Shards \ {s} : WSSendUserData(from, s)
  BY <1>3, WSOtherCounts
<1>4. QED
  BY <1>1, <1>2, <1>3 DEF WSNext

(* Neither the LS nor the SS nor a user at play uses the links of a front  *)
(* end.                                                                    *)
LEMMA OthersLinks ==
  ASSUME TypeOK, NEW f \in Fess,
         \/ LSStep \/ SSStep \/ SSShardAnswer \/ UNCHANGED vars
         \/ \E g \in Fess, k \in Conns : Play(g, k)
  PROVE  net'[Down(f)] = net[Down(f)] /\ net'[Up(f)] = net[Up(f)]
<1>1. CASE net' = net
  BY <1>1
<1>2. ASSUME NEW me \in {LS, SS}, NEW src, NEW outs,
             Receive(src, me, outs) \/ Emit(me, outs)
      PROVE  net'[Down(f)] = net[Down(f)] /\ net'[Up(f)] = net[Up(f)]
  BY <1>2, ElsewhereQuiet
<1>3. CASE LSStep
  <2>1. LSNext
    BY <1>3 DEF LSStep
  <2>2. CASE \/ LSShardsList \/ LSChooseShardRefused \/ LSChooseShard
             \/ LSDisconnectClient \/ LSForceLogoff
    <3>1. \E outs : Receive(SS, LS, outs)
      BY <2>2 DEF LSShardsList, LSChooseShardRefused, LSChooseShard, LSDisconnectClient,
                  LSForceLogoff
    <3>2. QED
      BY <1>2, <3>1
  <2>3. ASSUME NEW s \in Shards,
               \/ LSShardAnswer(s) \/ LSRemovedPendingCookie(s) \/ LSReviseLogoff(s)
               \/ LSClientMustWait(s) \/ LSClientConnected(s)
               \/ LSClientDisconnected(s) \/ LSClientHandedOver(s)
               \/ LSChangeShardReq(s) \/ LSMoveDataEnd(s)
        PROVE  net'[Down(f)] = net[Down(f)] /\ net'[Up(f)] = net[Up(f)]
    <3>1. \E outs : Receive(s, LS, outs)
      BY <2>3 DEF LSShardAnswer, LSRemovedPendingCookie, LSReviseLogoff, LSClientMustWait,
                  LSClientConnected, LSClientDisconnected, LSClientHandedOver,
                  LSChangeShardReq, LSMoveDataEnd
    <3>2. QED
      BY <1>2, <3>1
  <2>4. CASE \E u \in Users : LSMoveTimeout(u)
    BY <1>1, <2>4 DEF LSMoveTimeout, netVars
  <2>5. QED
    BY <2>1, <2>2, <2>3, <2>4 DEF LSNext
<1>4. CASE SSStep \/ SSShardAnswer
  <2>1. \/ net' = net
        \/ \E outs : Emit(SS, outs)
        \/ Receive(LS, SS, Silent)
    BY <1>4 DEF SSStep, SSNext, SSUserAuth, SSAlreadyOnline, SSForceLogin, SSUserChooseShard,
                SSUserDisconnection, SSDisplayShardList, SSForceLogoff, SSClientConnected,
                SSFailed, SSShardAnswer, FromLS, netVars
  <2>2. QED
    BY <1>1, <1>2, <2>1
<1>5. CASE UNCHANGED vars \/ \E g \in Fess, k \in Conns : Play(g, k)
  BY <1>1, <1>5 DEF vars, Play, netVars
<1>6. QED
  BY <1>3, <1>4, <1>5

(* The LS, the SS and the clients have no part in it: a client sends       *)
(* through its front end, and never a report.                              *)
LEMMA OthersCount ==
  ASSUME TypeOK, NEW f \in Fess, CookiesCounted(f), [Next]_vars, ~WSStep, ~FSStep
  PROVE  CookiesCounted(f)'
<1>0. pending' = pending /\ nbPending' = nbPending
  <2>1. pending' = pending
    BY OnlyFES
  <2>2. nbPending' = nbPending
    <3>1. CASE UNCHANGED vars
      BY <3>1 DEF vars, wsVars
    <3>2. CASE LSStep \/ SSStep \/ ClientStep \/ SSShardAnswer
               \/ \E g \in Fess, k \in Conns : Play(g, k)
      BY <3>2 DEF LSStep, SSStep, ClientStep, SSShardAnswer, Play, wsVars
    <3>3. QED
      BY <3>1, <3>2 DEF Next
  <2>3. QED
    BY <2>1, <2>2
<1>1. CASE net' = net
  BY <1>0, <1>1, NothingMoved
<1>2. CASE \/ LSStep \/ SSStep \/ SSShardAnswer \/ UNCHANGED vars
           \/ \E g \in Fess, k \in Conns : Play(g, k)
  <2>1. net'[Down(f)] = net[Down(f)] /\ net'[Up(f)] = net[Up(f)]
    BY <1>2, OthersLinks
  <2>2. QED
    BY <1>0, <2>1, NothingMoved
<1>3. CASE ClientStep
  <2>1. CASE \/ \E u \in Users : ClientConnect(u)
             \/ \E g \in Fess, k \in Conns : ClientClose(g, k)
    BY <1>1, <2>1 DEF ClientConnect, ClientClose, netVars
  <2>2. ASSUME NEW g \in Fess, NEW k \in Conns, FSChangeShardReq(g, k)
        PROVE  CookiesCounted(f)'
    <3>1. PICK s \in Shards : Emit(g, To(ShardOf[g],
            [Msg("M_CS_CHANGE_SHARD_REQ", conn[g][k].u) EXCEPT !.s = s]))
      BY <2>2 DEF FSChangeShardReq
    <3> DEFINE out == [Msg("M_CS_CHANGE_SHARD_REQ", conn[g][k].u) EXCEPT !.s = s]
    <3>2. conn[g][k].u \in Users /\ s \in ShardOrNone
          /\ "M_CS_CHANGE_SHARD_REQ" \in Kinds \ Answers
      BY DEF TypeOK, FSTypeOK, Conn, ShardOrNone, Kinds, Answers
    <3>3. out \in Message
      BY <3>2, FSNulls, MsgTyped
    <3>4. out.kind = "M_CS_CHANGE_SHARD_REQ"
      BY DEF Msg
    <3> HIDE DEF out
    <3>5. out \in Message /\ out \notin Spent /\ Emit(g, To(ShardOf[g], out))
      BY <3>1, <3>3, <3>4 DEF Spent, out
    <3>6. CASE f = g
      BY <1>0, <3>5, <3>6, FESSends
    <3>7. CASE f # g
      <4>1. To(ShardOf[g], out) \in Outbox
        BY <3>5, ToTyped
      <4>2. QED
        BY <1>0, <3>5, <3>7, <4>1, FESElsewhere
    <3>8. QED
      BY <3>6, <3>7
  <2>3. QED
    BY <1>3, <2>1, <2>2 DEF ClientStep
<1>4. QED
  BY <1>2, <1>3 DEF Next

LEMMA CookiesKept ==
  ASSUME TypeOK, NEW f \in Fess, CookiesCounted(f), [Next]_vars
  PROVE  CookiesCounted(f)'
<1>1. CASE WSStep
  BY <1>1, WSCounts DEF WSStep, fsVars
<1>2. CASE FSStep
  BY <1>2, FESCounts DEF FSStep, wsVars
<1>3. CASE ~WSStep /\ ~FSStep
  BY <1>3, OthersCount
<1>4. QED
  BY <1>1, <1>2, <1>3

(* Where no cookie waits or is on its way, none is counted. *)
LEMMA CookiesNone ==
  ASSUME TypeOK, NEW f \in Fess, pending[f] = {},
         net[Down(f)] = << >>, net[Up(f)] = << >>
  PROVE  CookiesCounted(f)
<1>1. Number(net[Down(f)], Asks) = 0 /\ Number(net[Up(f)], Spent) = 0
  BY AwaitedTyped, NumberTyped
<1>2. nbPending[f] \in Nat
  BY AwaitedTyped
<1>3. QED
  BY <1>1, <1>2, FS_EmptySet DEF CookiesCounted, Awaited

LEMMA CookiesInit ==
  ASSUME Init, NEW f \in Fess
  PROVE  CookiesCounted(f)
<1>1. TypeOK
  BY InitTyped
<1>2. pending[f] = {}
  BY DEF Init, FSInit
<1>3. net[Down(f)] = << >> /\ net[Up(f)] = << >>
  BY <1>1, AwaitedTyped DEF Init, NetInit
<1>4. QED
  BY <1>1, <1>2, <1>3, CookiesNone

LEMMA CookiesSuffice ==
  ASSUME TypeOK, \A f \in Fess : CookiesCounted(f)
  PROVE  PendingCounted
<1> SUFFICES ASSUME NEW f \in Fess
             PROVE  Cardinality(pending[f]) <= nbPending[f]
  BY DEF PendingCounted
<1> DEFINE c == Cardinality(pending[f])
           d == Number(net[Down(f)], Asks)
           n == Number(net[Up(f)], Spent)
<1>1. c \in Nat /\ d \in Nat /\ n \in Nat /\ nbPending[f] \in Nat /\ c + d + n <= nbPending[f]
  BY AwaitedTyped DEF CookiesCounted, Awaited
<1> HIDE DEF c, d, n
<1>2. c <= nbPending[f]
  BY <1>1
<1>3. QED
  BY <1>2 DEF c

(* NbPendingUsers of a front end is never less than the cookies that wait  *)
(* there, whatever requests, reports, timeouts and refusals are on their   *)
(* way: the WS never routes a client by a count that is too low.           *)
THEOREM PendingNeverUndercounted == Spec => []PendingCounted
<1> DEFINE PInv == TypeOK /\ \A f \in Fess : CookiesCounted(f)
<1>1. Init => PInv
  BY InitTyped, CookiesInit
<1>2. PInv /\ [Next]_vars => PInv'
  BY NextTyped, CookiesKept
<1>3. PInv => PendingCounted
  BY CookiesSuffice
<1> HIDE DEF PInv
<1>4. QED
  BY <1>1, <1>2, <1>3, PTL DEF Spec

-----------------------------------------------------------------------------
(* Sockets and associations                                                *)
(*                                                                         *)
(* The inductive invariant is Sockets of FrontendServer_proofs: what the   *)
(* receive queue of a front end says of the life of its sockets.           *)

(* No step spoils what a front end keeps of its sockets. *)
LEMMA SocketsKept ==
  ASSUME TypeOK, NEW f \in Fess, Sockets(f), [Next]_vars
  PROVE  Sockets(f)'
<1>0. FSTyped
  BY TypeOKIs
<1>1. CASE FSStep
  BY <1>0, <1>1, FESKeepsSockets DEF FSStep
<1>2. CASE ClientStep
  <2>1. \/ \E u \in Users : ClientConnect(u)
        \/ \E g \in Fess, k \in Conns : ClientClose(g, k) \/ FSChangeShardReq(g, k)
    BY <1>2 DEF ClientStep
  <2>2. QED
    BY <1>0, <2>1, FESKeepsSockets
<1>3. CASE UNCHANGED <<conn, events, assoc>>
  BY <1>3 DEF Sockets
<1>4. CASE \/ LSStep \/ WSStep \/ SSStep \/ SSShardAnswer \/ UNCHANGED vars
           \/ \E g \in Fess, k \in Conns : Play(g, k)
  <2>1. UNCHANGED <<conn, events, assoc>>
    BY <1>4 DEF LSStep, WSStep, SSStep, SSShardAnswer, Play, vars, fsVars
  <2>2. QED
    BY <1>3, <2>1
<1>5. QED
  BY <1>1, <1>2, <1>4 DEF Next

(* A session of a front end is always that of a socket its client has      *)
(* validated, open or about to be reported gone: cbWSDisconnectClient and  *)
(* a second cookie never close somebody else's socket.                     *)
THEOREM AssociationNamesItsUser == Spec => []AssociationsName
<1> DEFINE SInv == TypeOK /\ \A f \in Fess : Sockets(f)
<1>1. Init => SInv
  BY InitTyped, SocketsInit DEF Init
<1>2. SInv /\ [Next]_vars => SInv'
  BY NextTyped, SocketsKept
<1>3. SInv => AssociationsName
  BY SocketsName
<1> HIDE DEF SInv
<1>4. QED
  BY <1>1, <1>2, <1>3, PTL DEF Spec

-----------------------------------------------------------------------------
(* What a WS knows of the sessions of its front ends                       *)
(*                                                                         *)
(* A WS will believe of a user what the last report on its way says, or,   *)
(* with none on its way, what it holds now.  It is never about to believe  *)
(* in a session that its front end has neither kept nor is about to report *)
(* ended; and a session it is not about to believe in, because its query   *)
(* failed, is on its way to be closed.                                     *)

Report(u) == {m \in Message : m.kind = "M_CLIENT_CONNECT_STATUS" /\ m.u = u}
(* The last report about u in the queue q is that it is connected; there   *)
(* is none.                                                                *)
LastSays(q, u) ==
  \E i \in DOMAIN q : /\ q[i] \in Report(u) /\ q[i].v = 1
                      /\ \A j \in DOMAIN q : j > i => q[j] \notin Report(u)
Unsaid(q, u) == \A i \in DOMAIN q : q[i] \notin Report(u)

LEMMA SaidByLast ==
  ASSUME NEW q \in Seq(Message), NEW m \in Message, NEW u
  PROVE  IF m \in Report(u)
         THEN ~Unsaid(q \o <<m>>, u) /\ (LastSays(q \o <<m>>, u) <=> m.v = 1)
         ELSE (Unsaid(q \o <<m>>, u) <=> Unsaid(q, u)) /\ (LastSays(q \o <<m>>, u) <=> LastSays(q, u))
<1> DEFINE r == q \o <<m>>
           n == Len(q) + 1
<1>1. /\ DOMAIN q = 1..(n - 1) /\ DOMAIN r = 1..n /\ n \in Nat \ {0} /\ r[n] = m
      /\ \A i \in DOMAIN q : r[i] = q[i]
  BY PositionsSent
<1> HIDE DEF r, n
<1>2. ASSUME m \in Report(u)
      PROVE  ~Unsaid(r, u) /\ (LastSays(r, u) <=> m.v = 1)
  <2>1. ~Unsaid(r, u)
    BY <1>1, <1>2 DEF Unsaid
  <2>2. ASSUME LastSays(r, u)
        PROVE  m.v = 1
    <3>1. PICK i \in DOMAIN r : /\ r[i] \in Report(u) /\ r[i].v = 1
                                /\ \A j \in DOMAIN r : j > i => r[j] \notin Report(u)
      BY <2>2 DEF LastSays
    <3>2. i = n
      BY <1>1, <1>2, <3>1
    <3>3. QED
      BY <1>1, <3>1, <3>2
  <2>3. ASSUME m.v = 1
        PROVE  LastSays(r, u)
    <3>1. n \in DOMAIN r /\ \A j \in DOMAIN r : ~(j > n)
      BY <1>1
    <3>2. QED
      BY <1>1, <1>2, <2>3, <3>1 DEF LastSays
  <2>4. QED
    BY <2>1, <2>2, <2>3
<1>3. ASSUME m \notin Report(u)
      PROVE  (Unsaid(r, u) <=> Unsaid(q, u)) /\ (LastSays(r, u) <=> LastSays(q, u))
  <2>1. Unsaid(r, u) <=> Unsaid(q, u)
    BY <1>1, <1>3 DEF Unsaid
  <2>2. ASSUME LastSays(r, u)
        PROVE  LastSays(q, u)
    <3>1. PICK i \in DOMAIN r : /\ r[i] \in Report(u) /\ r[i].v = 1
                                /\ \A j \in DOMAIN r : j > i => r[j] \notin Report(u)
      BY <2>2 DEF LastSays
    <3>2. i \in DOMAIN q
      BY <1>1, <1>3, <3>1
    <3>3. \A j \in DOMAIN q : j \in DOMAIN r /\ r[j] = q[j]
      BY <1>1
    <3>4. QED
      BY <3>1, <3>2, <3>3 DEF LastSays
  <2>3. ASSUME LastSays(q, u)
        PROVE  LastSays(r, u)
    <3>1. PICK i \in DOMAIN q : /\ q[i] \in Report(u) /\ q[i].v = 1
                                /\ \A j \in DOMAIN q : j > i => q[j] \notin Report(u)
      BY <2>3 DEF LastSays
    <3>2. i \in DOMAIN r /\ r[i] = q[i]
      BY <1>1
    <3>3. \A j \in DOMAIN r : j > i => r[j] \notin Report(u)
      BY <1>1, <1>3, <3>1
    <3>4. QED
      BY <3>1, <3>2, <3>3 DEF LastSays
  <2>4. QED
    BY <2>1, <2>2, <2>3
<1>4. QED
  BY <1>2, <1>3 DEF r

LEMMA SaidByFirst ==
  ASSUME NEW q \in Seq(Message), q # << >>, NEW u
  PROVE  IF Head(q) \in Report(u)
         THEN /\ ~Unsaid(q, u)
              /\ LastSays(q, u) <=> LastSays(Tail(q), u) \/ (Unsaid(Tail(q), u) /\ Head(q).v = 1)
         ELSE (Unsaid(Tail(q), u) <=> Unsaid(q, u)) /\ (LastSays(Tail(q), u) <=> LastSays(q, u))
<1> DEFINE r == Tail(q)
           m == Head(q)
           n == Len(q)
<1>1. /\ DOMAIN q = 1..n /\ DOMAIN r = 1..(n - 1) /\ n \in Nat \ {0} /\ m = q[1]
      /\ \A i \in DOMAIN r : i + 1 \in DOMAIN q /\ r[i] = q[i + 1]
      /\ \A i \in DOMAIN q \ {1} : i - 1 \in DOMAIN r /\ r[i - 1] = q[i]
  BY PositionsRead
<1> HIDE DEF r, m, n
<1>2. ASSUME NEW i \in DOMAIN r, r[i] \in Report(u), r[i].v = 1,
             \A j \in DOMAIN r : j > i => r[j] \notin Report(u)
      PROVE  LastSays(q, u)
  <2>1. i + 1 \in DOMAIN q /\ q[i + 1] = r[i]
    BY <1>1
  <2>2. \A j \in DOMAIN q : j > i + 1 => q[j] \notin Report(u)
    <3> SUFFICES ASSUME NEW j \in DOMAIN q, j > i + 1 PROVE q[j] \notin Report(u)
      OBVIOUS
    <3>1. j - 1 \in DOMAIN r /\ r[j - 1] = q[j] /\ j - 1 > i
      BY <1>1
    <3>2. QED
      BY <1>2, <3>1
  <2>3. QED
    BY <1>2, <2>1, <2>2 DEF LastSays
<1>3. LastSays(r, u) => LastSays(q, u)
  BY <1>2 DEF LastSays
<1>4. ASSUME NEW i \in DOMAIN q \ {1}, q[i] \in Report(u), q[i].v = 1,
             \A j \in DOMAIN q : j > i => q[j] \notin Report(u)
      PROVE  LastSays(r, u)
  <2>1. i - 1 \in DOMAIN r /\ r[i - 1] = q[i]
    BY <1>1
  <2>2. \A j \in DOMAIN r : j > i - 1 => r[j] \notin Report(u)
    <3> SUFFICES ASSUME NEW j \in DOMAIN r, j > i - 1 PROVE r[j] \notin Report(u)
      OBVIOUS
    <3>1. j + 1 \in DOMAIN q /\ r[j] = q[j + 1] /\ j + 1 > i
      BY <1>1
    <3>2. QED
      BY <1>4, <3>1
  <2>3. QED
    BY <1>4, <2>1, <2>2 DEF LastSays
<1>5. ASSUME m \in Report(u)
      PROVE  ~Unsaid(q, u) /\ (LastSays(q, u) <=> LastSays(r, u) \/ (Unsaid(r, u) /\ m.v = 1))
  <2>1. 1 \in DOMAIN q
    BY <1>1
  <2>2. ~Unsaid(q, u)
    BY <1>1, <1>5, <2>1 DEF Unsaid
  <2>3. ASSUME LastSays(q, u), ~LastSays(r, u)
        PROVE  Unsaid(r, u) /\ m.v = 1
    <3>1. PICK i \in DOMAIN q : /\ q[i] \in Report(u) /\ q[i].v = 1
                                /\ \A j \in DOMAIN q : j > i => q[j] \notin Report(u)
      BY <2>3 DEF LastSays
    <3>2. i = 1
      BY <1>4, <2>3, <3>1
    <3>3. \A j \in DOMAIN r : j + 1 \in DOMAIN q /\ j + 1 > 1 /\ r[j] = q[j + 1]
      BY <1>1
    <3>4. Unsaid(r, u)
      BY <3>1, <3>2, <3>3 DEF Unsaid
    <3>5. QED
      BY <1>1, <3>1, <3>2, <3>4
  <2>4. ASSUME Unsaid(r, u), m.v = 1
        PROVE  LastSays(q, u)
    <3>1. \A j \in DOMAIN q : j > 1 => q[j] \notin Report(u)
      <4> SUFFICES ASSUME NEW j \in DOMAIN q, j > 1 PROVE q[j] \notin Report(u)
        OBVIOUS
      <4>1. j - 1 \in DOMAIN r /\ r[j - 1] = q[j]
        BY <1>1
      <4>2. QED
        BY <2>4, <4>1 DEF Unsaid
    <3>2. QED
      BY <1>1, <1>5, <2>1, <2>4, <3>1 DEF LastSays
  <2>5. QED
    BY <1>3, <2>2, <2>3, <2>4
<1>6. ASSUME m \notin Report(u)
      PROVE  (Unsaid(r, u) <=> Unsaid(q, u)) /\ (LastSays(r, u) <=> LastSays(q, u))
  <2>1. Unsaid(q, u) => Unsaid(r, u)
    BY <1>1 DEF Unsaid
  <2>2. Unsaid(r, u) => Unsaid(q, u)
    <3> SUFFICES ASSUME Unsaid(r, u), NEW i \in DOMAIN q PROVE q[i] \notin Report(u)
      BY DEF Unsaid
    <3>1. CASE i = 1
      BY <1>1, <1>6, <3>1
    <3>2. CASE i # 1
      <4>1. i - 1 \in DOMAIN r /\ r[i - 1] = q[i]
        BY <1>1, <3>2
      <4>2. QED
        BY <4>1 DEF Unsaid
    <3>3. QED
      BY <3>1, <3>2
  <2>3. LastSays(q, u) => LastSays(r, u)
    <3> SUFFICES ASSUME LastSays(q, u) PROVE LastSays(r, u)
      OBVIOUS
    <3>1. PICK i \in DOMAIN q : /\ q[i] \in Report(u) /\ q[i].v = 1
                                /\ \A j \in DOMAIN q : j > i => q[j] \notin Report(u)
      BY DEF LastSays
    <3>2. i # 1
      BY <1>1, <1>6, <3>1
    <3>3. QED
      BY <1>4, <3>1, <3>2
  <2>4. QED
    BY <1>3, <2>1, <2>2, <2>3
<1>7. QED
  BY <1>5, <1>6 DEF r, m

(* The orders to close the session of u. *)
Closes(u) == {m \in Message : m.kind = "M_CLIENT_DISCONNECT" /\ m.u = u}
ToldIn(q, u) == \E i \in DOMAIN q : q[i] \in Closes(u)

LEMMA ToldSent ==
  ASSUME NEW q \in Seq(Message), NEW r \in Seq(Message), NEW u, ToldIn(q, u)
  PROVE  ToldIn(q \o r, u)
<1>1. PICK i \in DOMAIN q : q[i] \in Closes(u)
  BY DEF ToldIn
<1>2. /\ DOMAIN q = 1..Len(q) /\ Len(q) \in Nat /\ Len(r) \in Nat
      /\ q \o r \in Seq(Message) /\ Len(q \o r) = Len(q) + Len(r)
  BY LenProperties, ConcatProperties
<1>3. DOMAIN (q \o r) = 1..(Len(q) + Len(r))
  BY <1>2, LenProperties
<1>4. i \in 1..(Len(q) + Len(r)) /\ i <= Len(q)
  BY <1>2
<1>5. (q \o r)[i] = q[i]
  BY <1>4, ConcatProperties
<1>6. QED
  BY <1>1, <1>3, <1>4, <1>5 DEF ToldIn

LEMMA ToldItself ==
  ASSUME NEW q \in Seq(Message), NEW u, NEW m \in Closes(u)
  PROVE  ToldIn(q \o <<m>>, u)
<1>1. m \in Message
  BY DEF Closes
<1> DEFINE n == Len(q) + 1
<1>2. n \in DOMAIN (q \o <<m>>) /\ (q \o <<m>>)[n] = m
  BY <1>1, PositionsSent
<1> HIDE DEF n
<1>3. QED
  BY <1>2 DEF ToldIn

LEMMA ToldRead ==
  ASSUME NEW q \in Seq(Message), q # << >>, NEW u, ToldIn(q, u), Head(q) \notin Closes(u)
  PROVE  ToldIn(Tail(q), u)
<1>1. PICK i \in DOMAIN q : q[i] \in Closes(u)
  BY DEF ToldIn
<1>2. i # 1
  BY <1>1, PositionsRead
<1>3. i - 1 \in DOMAIN Tail(q) /\ Tail(q)[i - 1] = q[i]
  BY <1>2, PositionsRead
<1>4. QED
  BY <1>1, <1>3 DEF ToldIn

(* What the WS of f will believe of u once it has read the reports on      *)
(* their way.                                                              *)
Believed(f, u) == \/ LastSays(net[Up(f)], u)
                  \/ Unsaid(net[Up(f)], u) /\ wsAssoc[ShardOf[f]][u] = f
(* It will not believe in a session that f has neither kept nor is about   *)
(* to report ended, and f is told to close one it will not believe in.     *)
Real(f, u)  == Believed(f, u) => Held(f, u)
Known(f, u) == assoc[f][u] # 0 => Believed(f, u) \/ ToldIn(net[Down(f)], u)

(* Front end f says nothing about u: it starts no session of u, and one it *)
(* gives up has its disconnection queued.                                  *)
Quiet(f, u) ==
  /\ \/ net'[Up(f)] = net[Up(f)]
     \/ \E m \in Message \ Report(u) : net'[Up(f)] = net[Up(f)] \o <<m>>
  /\ assoc'[f][u] \in {0, assoc[f][u]}
  /\ Held(f, u) => Held(f, u)'
  /\ assoc'[f][u] # 0 /\ ToldIn(net[Down(f)], u) => ToldIn(net'[Down(f)], u)
(* Front end f reports of u what is now true. *)
Speaks(f, u) ==
  \E m \in Report(u) : /\ net'[Up(f)] = net[Up(f)] \o <<m>>
                       /\ m.v = 1 <=> assoc'[f][u] # 0

LEMMA QuietOrSpeaks ==
  ASSUME TypeOK, NEW f \in Fess, NEW u \in Users, wsAssoc' = wsAssoc,
         Quiet(f, u) \/ Speaks(f, u)
  PROVE  (Real(f, u) => Real(f, u)') /\ (Known(f, u) => Known(f, u)')
<1> DEFINE q == net[Up(f)]
           r == net'[Up(f)]
<1>1. q \in Seq(Message)
  BY AwaitedTyped
<1>2. Believed(f, u) <=> LastSays(q, u) \/ (Unsaid(q, u) /\ wsAssoc[ShardOf[f]][u] = f)
  BY DEF Believed
<1>3. Believed(f, u)' <=> LastSays(r, u) \/ (Unsaid(r, u) /\ wsAssoc[ShardOf[f]][u] = f)
  BY DEF Believed, Up
<1>4. Report(u) \subseteq Message
  BY DEF Report
<1>5. CASE Quiet(f, u)
  <2>1. r = q \/ \E m \in Message \ Report(u) : r = q \o <<m>>
    BY <1>5 DEF Quiet
  <2> HIDE DEF q, r
  <2>2. Believed(f, u)' <=> Believed(f, u)
    <3>1. CASE r = q
      BY <1>2, <1>3, <3>1
    <3>2. ASSUME NEW m \in Message \ Report(u), r = q \o <<m>>
          PROVE  (Unsaid(r, u) <=> Unsaid(q, u)) /\ (LastSays(r, u) <=> LastSays(q, u))
      BY <1>1, <3>2, SaidByLast
    <3>3. QED
      BY <1>2, <1>3, <2>1, <3>1, <3>2
  <2>3. Real(f, u) => Real(f, u)'
    BY <1>5, <2>2 DEF Real, Quiet
  <2>4. Known(f, u) => Known(f, u)'
    BY <1>5, <2>2 DEF Known, Quiet, Down
  <2>5. QED
    BY <2>3, <2>4
<1>6. CASE Speaks(f, u)
  <2>1. PICK m \in Report(u) : r = q \o <<m>> /\ (m.v = 1 <=> assoc'[f][u] # 0)
    BY <1>6 DEF Speaks
  <2> HIDE DEF q, r
  <2>2. Believed(f, u)' <=> assoc'[f][u] # 0
    BY <1>1, <1>3, <1>4, <2>1, SaidByLast
  <2>3. QED
    BY <2>2 DEF Real, Known, Held
<1>7. QED
  BY <1>5, <1>6

(* What front end f leaves on its links. *)
LEMMA FESOwnLinks ==
  ASSUME TypeOK, NEW f \in Fess
  PROVE  /\ \A out : out \in Message /\ Emit(f, To(ShardOf[f], out)) =>
              net'[Up(f)] = net[Up(f)] \o <<out>> /\ net'[Down(f)] = net[Down(f)]
         /\ \A out : out \in Message /\ Receive(ShardOf[f], f, To(ShardOf[f], out)) =>
              net'[Up(f)] = net[Up(f)] \o <<out>> /\ net'[Down(f)] = Tail(net[Down(f)])
         /\ Receive(ShardOf[f], f, Silent) =>
              net'[Up(f)] = net[Up(f)] /\ net'[Down(f)] = Tail(net[Down(f)])
<1>1. ASSUME NEW out \in Message
      PROVE  To(ShardOf[f], out) \in Outbox /\ To(ShardOf[f], out)[ShardOf[f]] = <<out>>
  BY ToTyped, LinksApart, PlacesOK DEF To, Silent
<1>2. Silent \in Outbox /\ Silent[ShardOf[f]] = << >> /\ net[Up(f)] \o << >> = net[Up(f)]
  BY SilentTyped, LinksApart, PlacesOK, AwaitedTyped, ConcatEmptySeq DEF Silent
<1>3. QED
  BY <1>1, <1>2, FESStepLinks

(* A step of a front end, or of a client of it, either says nothing about  *)
(* a user or says what is now true.                                        *)
LEMMA FESOwn ==
  ASSUME TypeOK, NEW f \in Fess, Sockets(f), NEW u \in Users,
         \/ FSChooseShard(f) \/ FSDisconnectClient(f) \/ FSEnterShardOk(f)
         \/ FSChangeShardAns(f) \/ FSShardValidation(f) \/ FSInvalidCookie(f)
         \/ FSDisconnected(f) \/ FSRefreshPending(f)
         \/ \E k \in Conns : ClientClose(f, k) \/ FSChangeShardReq(f, k)
  PROVE  Quiet(f, u) \/ Speaks(f, u)
<1> DEFINE q == net[Down(f)]
           m == Head(q)
<1>0. /\ FSTyped /\ q \in Seq(Message) /\ Down(f) = <<ShardOf[f], f>>
      /\ "M_CLIENT_CONNECT_STATUS" \in Kinds \ Answers
      /\ "M_LOGIN_SERVER_RPC" \in Kinds \ Answers
      /\ "M_CS_CHANGE_SHARD_REQ" \in Kinds \ Answers
  BY TypeOKIs, AwaitedTyped DEF Down, Kinds, Answers
<1>1. ASSUME NEW kind, Pending(ShardOf[f], f, kind)
      PROVE  /\ m \in Message /\ m.kind = kind /\ m.u \in Users
             /\ m \notin Closes(u) /\ ToldIn(q, u) => ToldIn(Tail(q), u)
  <2>1. q # << >>
    BY <1>0, <1>1 DEF Pending
  <2>2. m \in Message /\ m.kind = kind /\ m.u \in Users
    BY <1>0, <1>1, FSHeadTyped
  <2>3. m \notin Closes(u) /\ ToldIn(q, u) => ToldIn(Tail(q), u)
    <3> HIDE DEF q
    <3> QED
      BY <1>0, <2>1, ToldRead DEF m
  <2>4. QED
    BY <2>2, <2>3
<1>2. CASE FSChooseShard(f)
  <2> DEFINE ans == [m EXCEPT !.kind = "M_ENTER_SHARD_ANSWER", !.f = f, !.v = 0]
  <2>1. /\ Pending(ShardOf[f], f, "M_ENTER_SHARD_REQUEST") /\ DisconnectAccount(f, m.u)
        /\ Receive(ShardOf[f], f, To(ShardOf[f], ans))
    BY <1>0, <1>2 DEF FSChooseShard
  <2>2. m \in Message /\ m.kind = "M_ENTER_SHARD_REQUEST" /\ m.u \in Users
    BY <1>1, <2>1
  <2>3. ans \in Message /\ ans.kind = "M_ENTER_SHARD_ANSWER"
    <3> HIDE DEF m
    <3>1. ans \in Message
      BY <2>2, OfferTyped
    <3>2. QED
      BY <2>2, <3>1 DEF Message
  <2> HIDE DEF ans
  <2>4. ans \notin Report(u) /\ m \notin Closes(u)
    BY <2>2, <2>3 DEF Report, Closes
  <2>5. net'[Up(f)] = net[Up(f)] \o <<ans>> /\ net'[Down(f)] = Tail(q)
    BY <2>1, <2>3, FESOwnLinks
  <2>6. ToldIn(q, u) => ToldIn(Tail(q), u)
    BY <1>1, <2>1, <2>4
  <2> HIDE DEF m
  <2>7. assoc'[f][u] \in {0, assoc[f][u]}
    BY <1>0, <2>1, <2>2, SocketsTyped DEF DisconnectAccount
  <2>8. Held(f, u) => Held(f, u)'
    BY <1>0, <2>1, <2>2, DisconnectAccountHeld
  <2>9. QED
    BY <2>3, <2>4, <2>5, <2>6, <2>7, <2>8 DEF Quiet
<1>3. CASE FSDisconnectClient(f)
  <2>1. /\ Pending(ShardOf[f], f, "M_CLIENT_DISCONNECT") /\ DisconnectAccount(f, m.u)
        /\ Receive(ShardOf[f], f, Silent)
    BY <1>0, <1>3 DEF FSDisconnectClient
  <2>2. m \in Message /\ m.u \in Users
    BY <1>1, <2>1
  <2>3. net'[Up(f)] = net[Up(f)] /\ net'[Down(f)] = Tail(q)
    BY <2>1, FESOwnLinks
  <2>4. m \notin Closes(u) /\ ToldIn(q, u) => ToldIn(Tail(q), u)
    BY <1>1, <2>1
  <2> HIDE DEF m
  <2>5. /\ assoc'[f][u] \in {0, assoc[f][u]}
        /\ m.u = u => assoc'[f][u] = 0
    BY <1>0, <2>1, <2>2, SocketsTyped DEF DisconnectAccount
  <2>6. Held(f, u) => Held(f, u)'
    BY <1>0, <2>1, <2>2, DisconnectAccountHeld
  <2>7. m \in Closes(u) => m.u = u
    BY DEF Closes
  <2>8. QED
    BY <2>3, <2>4, <2>5, <2>6, <2>7 DEF Quiet
<1>4. CASE FSEnterShardOk(f) \/ FSChangeShardAns(f)
  <2>1. /\ \/ Pending(ShardOf[f], f, "M_ENTER__SHARD")
           \/ Pending(ShardOf[f], f, "M_SC_CHANGE_SHARD_ANS")
        /\ Receive(ShardOf[f], f, Silent) /\ events' = events /\ assoc' = assoc
    BY <1>4 DEF FSEnterShardOk, FSChangeShardAns
  <2>2. net'[Up(f)] = net[Up(f)] /\ net'[Down(f)] = Tail(q)
    BY <2>1, FESOwnLinks
  <2>3. m.kind \in {"M_ENTER__SHARD", "M_SC_CHANGE_SHARD_ANS"}
    BY <1>1, <2>1
  <2>4. m \notin Closes(u)
    BY <2>3 DEF Closes
  <2>5. ToldIn(q, u) => ToldIn(Tail(q), u)
    BY <1>1, <2>1, <2>4
  <2>6. \A k \in Conns : conn'[f][k].app = conn[f][k].app /\ conn'[f][k].u = conn[f][k].u
    <3>1. CASE FSEnterShardOk(f)
      <4> DEFINE k == assoc[f][Head(net[<<ShardOf[f], f>>]).u]
      <4>1. conn' = IF k = 0 THEN conn ELSE [conn EXCEPT ![f][k].entered = conn[f][k].open]
        BY <3>1 DEF FSEnterShardOk
      <4> HIDE DEF k
      <4>2. QED
        BY <1>0, <4>1, SocketsTyped DEF Conn
    <3>2. CASE FSChangeShardAns(f)
      <4>1. PICK K \in SUBSET Conns :
              conn' = [conn EXCEPT ![f] = [j \in Conns |->
                         IF j \in K THEN [@[j] EXCEPT !.asked = FALSE] ELSE @[j]]]
        BY <3>2 DEF FSChangeShardAns
      <4>2. QED
        BY <1>0, <4>1, SocketsTyped DEF Conn
    <3>3. QED
      BY <1>4, <3>1, <3>2
  <2>7. Held(f, u) => Held(f, u)'
    BY <1>0, <2>1, <2>6, FlagsHeld
  <2>8. QED
    BY <2>1, <2>2, <2>5, <2>7 DEF Quiet
<1>5. CASE FSShardValidation(f)
  <2> DEFINE e == Head(events[f])
             v == conn[f][e.k].u
             out == [Msg("M_CLIENT_CONNECT_STATUS", v) EXCEPT !.v = 1, !.ck = e.ck]
  <2>1. Emit(f, To(ShardOf[f], out)) /\ events[f] # << >>
    BY <1>5 DEF FSShardValidation
  <2>2. v \in Users /\ e.ck \in Cookie
    BY <1>0, <2>1, EventTyped
  <2>3. /\ u = v => assoc'[f][u] # 0
        /\ u # v => assoc'[f][u] = assoc[f][u] /\ (Held(f, u) => Held(f, u)')
    BY <1>0, <1>5, ShardValidationHeld
  <2> HIDE DEF e, v
  <2>4. out \in Message
    BY <1>0, <2>2, FSNulls, MsgTyped
  <2>5. out.kind = "M_CLIENT_CONNECT_STATUS" /\ out.v = 1 /\ out.u = v
    BY DEF Msg
  <2> HIDE DEF out
  <2>6. net'[Up(f)] = net[Up(f)] \o <<out>> /\ net'[Down(f)] = q
    BY <2>1, <2>4, FESOwnLinks
  <2>7. CASE u = v
    <3>1. out \in Report(u)
      BY <2>4, <2>5, <2>7 DEF Report
    <3>2. QED
      BY <2>3, <2>5, <2>6, <2>7, <3>1 DEF Speaks
  <2>8. CASE u # v
    <3>1. out \in Message \ Report(u)
      BY <2>4, <2>5, <2>8 DEF Report
    <3>2. QED
      BY <2>3, <2>6, <2>8, <3>1 DEF Quiet
  <2>9. QED
    BY <2>7, <2>8
<1>6. CASE FSInvalidCookie(f)
  <2>1. Held(f, u) => Held(f, u)'
    BY <1>0, <1>6, InvalidCookieHeld
  <2>2. net' = net
    BY <1>6 DEF FSInvalidCookie, netVars
  <2>3. assoc'[f][u] \in {0, assoc[f][u]}
    <3>1. PICK v : assoc' = [assoc EXCEPT ![f][v] = 0]
      BY <1>6 DEF FSInvalidCookie
    <3>2. QED
      BY <1>0, <3>1, SocketsTyped
  <2>4. QED
    BY <2>1, <2>2, <2>3 DEF Quiet
<1>7. CASE FSDisconnected(f)
  <2> DEFINE k == Head(events[f]).k
             v == conn[f][k].u
             out == Msg("M_CLIENT_CONNECT_STATUS", v)
  <2>1. /\ events[f] # << >>
        /\ IF conn[f][k].app
           THEN assoc' = [assoc EXCEPT ![f][v] = 0] /\ Emit(f, To(ShardOf[f], out))
           ELSE UNCHANGED <<assoc, net>>
    BY <1>7 DEF FSDisconnected, Reported
  <2>2. v \in Users
    BY <1>0, <2>1, EventTyped
  <2>3. ~(conn[f][k].app /\ v = u) => assoc'[f][u] = assoc[f][u] /\ (Held(f, u) => Held(f, u)')
    BY <1>0, <1>7, DisconnectedHeld
  <2> HIDE DEF k, v
  <2>4. out \in Message
    BY <1>0, <2>2, FSNulls, MsgTyped
  <2>5. out.kind = "M_CLIENT_CONNECT_STATUS" /\ out.v = 0 /\ out.u = v
    BY DEF Msg
  <2> HIDE DEF out
  <2>6. CASE ~conn[f][k].app
    BY <2>1, <2>3, <2>6 DEF Quiet
  <2>7. CASE conn[f][k].app
    <3>1. net'[Up(f)] = net[Up(f)] \o <<out>> /\ net'[Down(f)] = q
      BY <2>1, <2>4, <2>7, FESOwnLinks
    <3>2. CASE u = v
      <4>1. out \in Report(u)
        BY <2>4, <2>5, <3>2 DEF Report
      <4>2. assoc'[f][u] = 0
        BY <1>0, <2>1, <2>2, <2>7, <3>2, SocketsTyped
      <4>3. out.v = 1 <=> assoc'[f][u] # 0
        BY <2>5, <4>2
      <4>4. QED
        BY <3>1, <4>1, <4>3 DEF Speaks
    <3>3. CASE u # v
      <4>1. out \in Message \ Report(u)
        BY <2>4, <2>5, <3>3 DEF Report
      <4>2. QED
        BY <2>3, <3>1, <3>3, <4>1 DEF Quiet
    <3>4. QED
      BY <3>2, <3>3
  <2>8. QED
    BY <2>6, <2>7
<1>8. CASE FSRefreshPending(f)
  <2>1. PICK p \in pending[f] :
          Emit(f, To(ShardOf[f], [Msg("M_LOGIN_SERVER_RPC", p.u) EXCEPT !.ck = p.ck]))
    BY <1>8 DEF FSRefreshPending
  <2> DEFINE out == [Msg("M_LOGIN_SERVER_RPC", p.u) EXCEPT !.ck = p.ck]
  <2>2. p.u \in Users /\ p.ck \in Cookie
    BY <1>0 DEF FSTyped, FSTypeOK
  <2>3. out \in Message
    BY <1>0, <2>2, FSNulls, MsgTyped
  <2>4. out.kind = "M_LOGIN_SERVER_RPC"
    BY DEF Msg
  <2> HIDE DEF out
  <2>5. out \in Message \ Report(u)
    BY <2>3, <2>4 DEF Report
  <2>6. net'[Up(f)] = net[Up(f)] \o <<out>> /\ net'[Down(f)] = q
    BY <2>1, <2>3, FESOwnLinks DEF out
  <2>7. Held(f, u) => Held(f, u)'
    BY <1>0, <1>8, FlagsHeld DEF FSRefreshPending
  <2>8. assoc' = assoc
    BY <1>8 DEF FSRefreshPending
  <2>9. QED
    BY <2>5, <2>6, <2>7, <2>8 DEF Quiet
<1>9. ASSUME NEW k \in Conns, ClientClose(f, k)
      PROVE  Quiet(f, u)
  <2>1. Held(f, u) => Held(f, u)'
    BY <1>0, <1>9, ClientCloseHeld
  <2>2. net' = net /\ assoc' = assoc
    BY <1>9 DEF ClientClose, netVars
  <2>3. QED
    BY <2>1, <2>2 DEF Quiet
<1>10. ASSUME NEW k \in Conns, FSChangeShardReq(f, k)
       PROVE  Quiet(f, u)
  <2>1. PICK s \in Shards : Emit(f, To(ShardOf[f],
          [Msg("M_CS_CHANGE_SHARD_REQ", conn[f][k].u) EXCEPT !.s = s]))
    BY <1>10 DEF FSChangeShardReq
  <2> DEFINE out == [Msg("M_CS_CHANGE_SHARD_REQ", conn[f][k].u) EXCEPT !.s = s]
  <2>2. conn[f][k].u \in Users /\ s \in ShardOrNone
    BY <1>0, SocketsTyped DEF Conn, ShardOrNone
  <2>3. out \in Message
    BY <1>0, <2>2, FSNulls, MsgTyped
  <2>4. out.kind = "M_CS_CHANGE_SHARD_REQ"
    BY DEF Msg
  <2> HIDE DEF out
  <2>5. out \in Message \ Report(u)
    BY <2>3, <2>4 DEF Report
  <2>6. net'[Up(f)] = net[Up(f)] \o <<out>> /\ net'[Down(f)] = q
    BY <2>1, <2>3, FESOwnLinks DEF out
  <2>7. conn' = [conn EXCEPT ![f][k].asked = TRUE] /\ UNCHANGED <<assoc, events>>
    BY <1>10 DEF FSChangeShardReq
  <2>8. \A j \in Conns : conn'[f][j].app = conn[f][j].app /\ conn'[f][j].u = conn[f][j].u
    BY <1>0, <2>7, SocketsTyped DEF Conn
  <2>9. Held(f, u) => Held(f, u)'
    BY <1>0, <2>7, <2>8, FlagsHeld
  <2>10. QED
    BY <2>5, <2>6, <2>7, <2>9 DEF Quiet
<1>11. QED
  BY <1>2, <1>3, <1>4, <1>5, <1>6, <1>7, <1>8, <1>9, <1>10

(* Every user a WS has a session of is on a front end of its shard. *)
OfItsShard ==
  \A s \in Shards, u \in Users : wsAssoc[s][u] # NoFes => ShardOf[wsAssoc[s][u]] = s

(* What the WS of g does with a message of g, told from what it does to    *)
(* its sessions.                                                           *)
LEMMA WSNews ==
  ASSUME TypeOK, NEW g \in Fess,
         WSShardAnswer(g) \/ WSLoginClient(g) \/ WSLogoffClient(g)
           \/ WSRemovedPendingCookie(g) \/ WSChangeShardReq(g)
  PROVE  LET m == Head(net[Up(g)])
             s == ShardOf[g]
         IN  /\ m \in Message /\ m.u \in Users /\ s \in Shards
             /\ \/ m.kind # "M_CLIENT_CONNECT_STATUS" /\ wsAssoc' = wsAssoc
                \/ /\ m.kind = "M_CLIENT_CONNECT_STATUS"
                   /\ wsAssoc' = [wsAssoc EXCEPT ![s][m.u] = NoFes]
                   /\ m.v = 0 \/ Receive(g, s, To(g, Msg("M_CLIENT_DISCONNECT", m.u)))
                \/ /\ m.kind = "M_CLIENT_CONNECT_STATUS" /\ m.v = 1
                   /\ wsAssoc' = [wsAssoc EXCEPT ![s][m.u] = IF @ = NoFes THEN g ELSE @]
<1> DEFINE m == Head(net[Up(g)])
           s == ShardOf[g]
<1>0. /\ WSTyped /\ s \in Shards /\ <<g, s>> \in Links /\ Up(g) = <<g, s>>
  BY TypeOKIs, LinksAre, WSNulls DEF Up
<1>1. \A kind : Pending(g, s, kind) => m \in Message /\ m.u \in Users /\ m.kind = kind
  BY <1>0, WSHeadTyped
<1>2. CASE WSShardAnswer(g)
  <2>1. Pending(g, s, "M_ENTER_SHARD_ANSWER") /\ wsAssoc' = wsAssoc
    BY <1>2 DEF WSShardAnswer, wsVars
  <2>2. QED
    BY <1>0, <1>1, <2>1
<1>3. CASE WSLoginClient(g)
  <2>1. /\ Pending(g, s, "M_CLIENT_CONNECT_STATUS") /\ m.v = 1
        /\ \/ /\ wsAssoc' = [wsAssoc EXCEPT ![s][m.u] = NoFes]
              /\ Receive(g, s, To(g, Msg("M_CLIENT_DISCONNECT", m.u)))
           \/ wsAssoc' = [wsAssoc EXCEPT ![s][m.u] = IF @ = NoFes THEN g ELSE @]
    BY <1>0, <1>3 DEF WSLoginClient, LogoffClient
  <2>2. QED
    BY <1>0, <1>1, <2>1
<1>4. CASE WSLogoffClient(g)
  <2>1. /\ Pending(g, s, "M_CLIENT_CONNECT_STATUS") /\ m.v = 0
        /\ wsAssoc' = [wsAssoc EXCEPT ![s][m.u] = NoFes]
    BY <1>0, <1>4 DEF WSLogoffClient, LogoffClient
  <2>2. QED
    BY <1>0, <1>1, <2>1
<1>5. CASE WSRemovedPendingCookie(g)
  <2>1. Pending(g, s, "M_LOGIN_SERVER_RPC") /\ wsAssoc' = wsAssoc
    BY <1>5 DEF WSRemovedPendingCookie
  <2>2. QED
    BY <1>0, <1>1, <2>1
<1>6. CASE WSChangeShardReq(g)
  <2>1. Pending(g, s, "M_CS_CHANGE_SHARD_REQ") /\ wsAssoc' = wsAssoc
    BY <1>6 DEF WSChangeShardReq, wsVars
  <2>2. QED
    BY <1>0, <1>1, <2>1
<1>7. QED
  BY <1>2, <1>3, <1>4, <1>5, <1>6

(* A message of g is read by its WS; nothing on its way to f is lost. *)
LEMMA WSNewsLinks ==
  ASSUME TypeOK, NEW f \in Fess, NEW g \in Fess, NEW u,
         WSShardAnswer(g) \/ WSLoginClient(g) \/ WSLogoffClient(g)
           \/ WSRemovedPendingCookie(g) \/ WSChangeShardReq(g)
  PROVE  /\ ToldIn(net[Down(f)], u) => ToldIn(net'[Down(f)], u)
         /\ f = g => net[Up(f)] # << >> /\ net'[Up(f)] = Tail(net[Up(f)])
         /\ f # g => net'[Up(f)] = net[Up(f)]
<1>1. PICK kind, outs : /\ Pending(g, ShardOf[g], kind) /\ outs \in Outbox
                        /\ Receive(g, ShardOf[g], outs)
  BY WSFromFESSteps
<1>2. /\ ShardOf[g] \in Shards /\ outs[f] \in Seq(Message) /\ net[Down(f)] \in Seq(Message)
      /\ (Up(f) = <<g, ShardOf[g]>>) <=> (f = g)
  BY <1>1, LinksApart, AwaitedTyped, PlacesOK DEF Outbox, Up
<1>3. ToldIn(net[Down(f)], u) => ToldIn(net'[Down(f)], u)
  <2>1. net'[Down(f)] = IF ShardOf[f] = ShardOf[g] THEN net[Down(f)] \o outs[f]
                                                   ELSE net[Down(f)]
    BY <1>1, <1>2, WSStepLinks
  <2>2. QED
    BY <1>2, <2>1, ToldSent
<1>4. net[<<g, ShardOf[g]>>] # << >>
  BY <1>1 DEF Pending
<1>5. QED
  BY <1>1, <1>2, <1>3, <1>4, WSStepLinks

(* A WS whose login query fails tells the front end to close the session.  *)
LEMMA FailedLoginTold ==
  ASSUME TypeOK, NEW f \in Fess, NEW u \in Users,
         Receive(f, ShardOf[f], To(f, Msg("M_CLIENT_DISCONNECT", u)))
  PROVE  ToldIn(net'[Down(f)], u)
<1> DEFINE no == Msg("M_CLIENT_DISCONNECT", u)
<1>1. no \in Message /\ no.kind = "M_CLIENT_DISCONNECT" /\ no.u = u
  BY WSMsgTyped DEF WSKinds, Msg
<1>2. Receive(f, ShardOf[f], To(f, no))
  OBVIOUS
<1> HIDE DEF no
<1>3. /\ To(f, no) \in Outbox /\ To(f, no)[f] = <<no>> /\ ShardOf[f] \in Shards
      /\ net[Down(f)] \in Seq(Message)
  BY <1>1, ToTyped, LinksApart, AwaitedTyped, PlacesOK DEF To, Silent
<1> DEFINE outs == To(f, no)
<1>4. outs \in Outbox /\ Receive(f, ShardOf[f], outs) /\ outs[f] = <<no>>
  BY <1>3, <1>2
<1> HIDE DEF outs
<1>5. net'[Down(f)] = net[Down(f)] \o <<no>>
  <2>1. /\ Down(f) \in Links /\ Down(f) # <<f, ShardOf[f]>>
        /\ Down(f)[1] = ShardOf[f] /\ Down(f)[2] = f
    BY AwaitedTyped, LinksApart, PlacesOK DEF Down, Up
  <2>2. net'[Down(f)] = net[Down(f)] \o outs[Down(f)[2]]
    BY <1>4, <2>1 DEF Receive
  <2>3. QED
    BY <1>4, <2>1, <2>2
<1>6. no \in Closes(u)
  BY <1>1 DEF Closes
<1>7. QED
  BY <1>3, <1>5, <1>6, ToldItself

(* A WS never comes to believe what no report says, and with one front end *)
(* on the shard it comes to believe every report but for a failed query.   *)
LEMMA WSHears ==
  ASSUME TypeOK, NEW f \in Fess, NEW u \in Users, NEW g \in Fess,
         WSShardAnswer(g) \/ WSLoginClient(g) \/ WSLogoffClient(g)
           \/ WSRemovedPendingCookie(g) \/ WSChangeShardReq(g)
  PROVE  /\ Believed(f, u)' => Believed(f, u)
         /\ OfItsShard /\ (\A h \in Fess : ShardOf[h] = ShardOf[f] => h = f) /\ Believed(f, u)
              => Believed(f, u)' \/ ToldIn(net'[Down(f)], u)
<1> DEFINE q == net[Up(f)]
           m == Head(net[Up(g)])
           s == ShardOf[g]
           b == wsAssoc[ShardOf[f]][u]
           c == wsAssoc'[ShardOf[f]][u]
<1>1. /\ wsAssoc \in [Shards -> [Users -> FesOrNone]] /\ q \in Seq(Message)
      /\ ShardOf[f] \in Shards /\ s \in Shards /\ f # NoFes /\ g # NoFes
  BY AwaitedTyped, PlacesOK, NullsDistinct DEF TypeOK, WSTypeOK
<1>2. /\ m \in Message /\ m.u \in Users
      /\ \/ m.kind # "M_CLIENT_CONNECT_STATUS" /\ wsAssoc' = wsAssoc
         \/ /\ m.kind = "M_CLIENT_CONNECT_STATUS"
            /\ wsAssoc' = [wsAssoc EXCEPT ![s][m.u] = NoFes]
            /\ m.v = 0 \/ Receive(g, s, To(g, Msg("M_CLIENT_DISCONNECT", m.u)))
         \/ /\ m.kind = "M_CLIENT_CONNECT_STATUS" /\ m.v = 1
            /\ wsAssoc' = [wsAssoc EXCEPT ![s][m.u] = IF @ = NoFes THEN g ELSE @]
  BY WSNews
<1>3. /\ f = g => net[Up(f)] # << >> /\ net'[Up(f)] = Tail(q)
      /\ f # g => net'[Up(f)] = q
  BY WSNewsLinks
<1>4. Believed(f, u) <=> LastSays(q, u) \/ (Unsaid(q, u) /\ b = f)
  BY DEF Believed
<1>5. Believed(f, u)' <=> LastSays(net'[Up(f)], u) \/ (Unsaid(net'[Up(f)], u) /\ c = f)
  BY DEF Believed, Up
<1>6. OfItsShard => (b # NoFes => ShardOf[b] = ShardOf[f])
  BY <1>1 DEF OfItsShard
<1>7. b \in Fess \cup {NoFes}
  BY <1>1 DEF FesOrNone
<1> HIDE DEF m, s
<1>8. s # ShardOf[f] \/ m.u # u => c = b
  BY <1>1, <1>2
<1>9. s = ShardOf[f] /\ m.u = u => c \in {b, NoFes} \/ (b = NoFes /\ c = g)
  BY <1>1, <1>2
<1>10. s = ShardOf[f] /\ m.u = u /\ m.kind = "M_CLIENT_CONNECT_STATUS" =>
         \/ c = NoFes /\ (m.v = 0 \/ Receive(g, s, To(g, Msg("M_CLIENT_DISCONNECT", m.u))))
         \/ m.v = 1 /\ c = IF b = NoFes THEN g ELSE b
  BY <1>1, <1>2
<1>11. m.kind # "M_CLIENT_CONNECT_STATUS" => c = b
  BY <1>2
<1>12. m \in Report(u) <=> m.kind = "M_CLIENT_CONNECT_STATUS" /\ m.u = u
  BY <1>2 DEF Report
<1> HIDE DEF b, c
<1>13. CASE f # g
  <2>1. net'[Up(f)] = q
    BY <1>3, <1>13
  <2> HIDE DEF q
  <2>2. c = f => b = f
    BY <1>1, <1>8, <1>9, <1>13
  <2>3. ASSUME \A h \in Fess : ShardOf[h] = ShardOf[f] => h = f
        PROVE  c = b
    BY <1>8, <1>13, <2>3 DEF s
  <2>4. QED
    BY <1>4, <1>5, <2>1, <2>2, <2>3
<1>14. CASE f = g
  <2>1. q # << >> /\ net'[Up(f)] = Tail(q) /\ m = Head(q) /\ s = ShardOf[f]
    BY <1>3, <1>14 DEF m, s
  <2> HIDE DEF q
  <2>2. CASE m \notin Report(u)
    <3>1. (Unsaid(Tail(q), u) <=> Unsaid(q, u)) /\ (LastSays(Tail(q), u) <=> LastSays(q, u))
      BY <1>1, <2>1, <2>2, SaidByFirst
    <3>2. c = b
      BY <1>8, <1>11, <1>12, <2>2
    <3>3. QED
      BY <1>4, <1>5, <2>1, <3>1, <3>2
  <2>3. CASE m \in Report(u)
    <3>1. /\ ~Unsaid(q, u)
          /\ LastSays(q, u) <=> LastSays(Tail(q), u) \/ (Unsaid(Tail(q), u) /\ m.v = 1)
      BY <1>1, <2>1, <2>3, SaidByFirst
    <3>2. \/ c = NoFes /\ (m.v = 0 \/ ToldIn(net'[Down(f)], u))
          \/ m.v = 1 /\ c = IF b = NoFes THEN f ELSE b
      <4>1. Receive(g, s, To(g, Msg("M_CLIENT_DISCONNECT", m.u))) /\ m.u = u
              => ToldIn(net'[Down(f)], u)
        BY <1>14, <2>1, FailedLoginTold
      <4>2. QED
        BY <1>10, <1>12, <1>14, <2>1, <2>3, <4>1
    <3>3. c = f => m.v = 1
      BY <1>1, <3>2
    <3>4. ASSUME OfItsShard, \A h \in Fess : ShardOf[h] = ShardOf[f] => h = f
          PROVE  b \in {f, NoFes}
      BY <1>6, <1>7, <3>4
    <3>5. ASSUME OfItsShard, \A h \in Fess : ShardOf[h] = ShardOf[f] => h = f,
                 m.v = 1, ~ToldIn(net'[Down(f)], u)
          PROVE  c = f
      <4>1. m.v # 0
        BY <3>5
      <4>2. QED
        BY <3>2, <3>4, <3>5, <4>1
    <3>6. QED
      BY <1>4, <1>5, <2>1, <3>1, <3>3, <3>5
  <2>4. QED
    BY <2>2, <2>3
<1>15. QED
  BY <1>13, <1>14

(* What a WS does otherwise leaves the sessions it knows alone, and what   *)
(* a front end has sent.                                                   *)
LEMMA WSNoNews ==
  ASSUME TypeOK, NEW s \in Shards,
         \/ WSNoFrontend(s) \/ WSDisconnectClient(s) \/ WSForceLogoff(s)
         \/ WSRelayToFES(s) \/ WSMoveUserDataReq(s) \/ WSQueryDone(s)
         \/ \E from \in Shards \ {s} : WSSendUserData(from, s)
         \/ WSChooseShard(s)
  PROVE  /\ wsAssoc' = wsAssoc
         /\ \A f \in Fess, u \in Users :
              /\ net'[Up(f)] = net[Up(f)]
              /\ ToldIn(net[Down(f)], u) => ToldIn(net'[Down(f)], u)
<1>1. wsAssoc' = wsAssoc
  BY DEF WSNoFrontend, WSDisconnectClient, WSForceLogoff, WSRelayToFES,
         WSMoveUserDataReq, WSQueryDone, WSSendUserData, WSChooseShard, wsVars
<1>2. \E src, outs : /\ src \notin Fess /\ outs \in Outbox
                     /\ Receive(src, s, outs) \/ Emit(s, outs)
  <2>1. CASE WSChooseShard(s)
    <3> DEFINE m == Head(net[<<LS, s>>])
    <3>1. PICK g : Receive(LS, s, To(g, m))
      BY <2>1 DEF WSChooseShard
    <3>2. m \in Message /\ LS \notin Fess
      BY <2>1, TypeOKIs, LinksAre, WSHeadTyped, NodesDistinct DEF WSChooseShard
    <3>3. To(g, m) \in Outbox
      BY <3>2, ToTyped
    <3>4. QED
      BY <3>1, <3>2, <3>3
  <2>2. CASE ~WSChooseShard(s)
    BY <2>2, WSOtherSteps
  <2>3. QED
    BY <2>1, <2>2
<1>3. ASSUME NEW src, NEW outs \in Outbox, src \notin Fess,
             Receive(src, s, outs) \/ Emit(s, outs),
             NEW f \in Fess, NEW u \in Users
      PROVE  /\ net'[Up(f)] = net[Up(f)]
             /\ ToldIn(net[Down(f)], u) => ToldIn(net'[Down(f)], u)
  <2>1. Up(f) # <<src, s>> /\ outs[f] \in Seq(Message) /\ net[Down(f)] \in Seq(Message)
    BY <1>3, LinksApart, AwaitedTyped DEF Up, Outbox
  <2>2. net'[Down(f)] = IF ShardOf[f] = s THEN net[Down(f)] \o outs[f] ELSE net[Down(f)]
    BY <1>3, WSStepLinks
  <2>3. net'[Up(f)] = net[Up(f)]
    BY <1>3, <2>1, WSStepLinks
  <2>4. QED
    BY <2>1, <2>2, <2>3, ToldSent
<1>4. QED
  BY <1>1, <1>2, <1>3

(* No step of a WS makes it believe what is not so. *)
LEMMA WSKeepsFaith ==
  ASSUME TypeOK, NEW f \in Fess, NEW u \in Users, WSNext, UNCHANGED <<assoc, conn, events>>
  PROVE  /\ Real(f, u) => Real(f, u)'
         /\ OfItsShard /\ (\A h \in Fess : ShardOf[h] = ShardOf[f] => h = f) /\ Known(f, u)
              => Known(f, u)'
<1>0. Held(f, u)' <=> Held(f, u)
  BY DEF Held, Ends
<1>1. ASSUME NEW g \in Fess,
             WSShardAnswer(g) \/ WSLoginClient(g) \/ WSLogoffClient(g)
               \/ WSRemovedPendingCookie(g) \/ WSChangeShardReq(g)
      PROVE  /\ Real(f, u) => Real(f, u)'
             /\ OfItsShard /\ (\A h \in Fess : ShardOf[h] = ShardOf[f] => h = f) /\ Known(f, u)
                  => Known(f, u)'
  <2>1. /\ Believed(f, u)' => Believed(f, u)
        /\ OfItsShard /\ (\A h \in Fess : ShardOf[h] = ShardOf[f] => h = f) /\ Believed(f, u)
             => Believed(f, u)' \/ ToldIn(net'[Down(f)], u)
    BY <1>1, WSHears
  <2>2. ToldIn(net[Down(f)], u) => ToldIn(net'[Down(f)], u)
    BY <1>1, WSNewsLinks
  <2>3. Real(f, u) => Real(f, u)'
    BY <1>0, <2>1 DEF Real
  <2>4. assoc'[f][u] = assoc[f][u] /\ (Known(f, u)' <=> (assoc'[f][u] # 0 =>
                                         Believed(f, u)' \/ ToldIn(net'[Down(f)], u)))
    BY DEF Known, Down
  <2>5. QED
    BY <2>1, <2>2, <2>3, <2>4 DEF Known
<1>2. ASSUME NEW s \in Shards,
             \/ WSNoFrontend(s) \/ WSDisconnectClient(s) \/ WSForceLogoff(s)
             \/ WSRelayToFES(s) \/ WSMoveUserDataReq(s) \/ WSQueryDone(s)
             \/ \E from \in Shards \ {s} : WSSendUserData(from, s)
             \/ WSChooseShard(s)
      PROVE  (Real(f, u) => Real(f, u)') /\ (Known(f, u) => Known(f, u)')
  <2>1. /\ wsAssoc' = wsAssoc /\ net'[Up(f)] = net[Up(f)]
        /\ ToldIn(net[Down(f)], u) => ToldIn(net'[Down(f)], u)
    BY <1>2, WSNoNews
  <2>2. Quiet(f, u)
    BY <1>0, <2>1 DEF Quiet
  <2>3. QED
    BY <2>1, <2>2, QuietOrSpeaks
<1>3. CASE \E g \in Fess :
             \/ WSShardAnswer(g) \/ WSLoginClient(g) \/ WSLogoffClient(g)
             \/ WSRemovedPendingCookie(g) \/ WSChangeShardReq(g)
  BY <1>1, <1>3
<1>4. CASE \E s \in Shards :
             \/ WSNoFrontend(s) \/ WSDisconnectClient(s) \/ WSForceLogoff(s)
             \/ WSRelayToFES(s) \/ WSMoveUserDataReq(s) \/ WSQueryDone(s)
             \/ \E from \in Shards \ {s} : WSSendUserData(from, s)
             \/ WSChooseShard(s)
  BY <1>2, <1>4
<1>5. QED
  BY <1>3, <1>4 DEF WSNext

(* Whatever a front end does, it uses its own links alone. *)
LEMMA FESSpeaks ==
  ASSUME TypeOK, NEW g \in Fess,
         \/ FSChooseShard(g) \/ FSDisconnectClient(g) \/ FSEnterShardOk(g)
         \/ FSChangeShardAns(g) \/ FSShardValidation(g) \/ FSInvalidCookie(g)
         \/ FSDisconnected(g) \/ FSRefreshPending(g)
         \/ \E k \in Conns : ClientClose(g, k) \/ FSChangeShardReq(g, k)
  PROVE  net' = net \/ \E outs \in Outbox : Receive(ShardOf[g], g, outs) \/ Emit(g, outs)
<1>0. /\ FSTyped
      /\ \A out \in Message : To(ShardOf[g], out) \in Outbox
      /\ Silent \in Outbox
      /\ {"M_CLIENT_CONNECT_STATUS", "M_LOGIN_SERVER_RPC", "M_CS_CHANGE_SHARD_REQ"}
           \subseteq Kinds \ Answers
  BY TypeOKIs, ToTyped, SilentTyped DEF Kinds, Answers
<1>1. CASE FSChooseShard(g)
  <2> DEFINE m == Head(net[<<ShardOf[g], g>>])
             ans == [m EXCEPT !.kind = "M_ENTER_SHARD_ANSWER", !.f = g, !.v = 0]
  <2>1. /\ Pending(ShardOf[g], g, "M_ENTER_SHARD_REQUEST")
        /\ Receive(ShardOf[g], g, To(ShardOf[g], ans))
    BY <1>1 DEF FSChooseShard
  <2>2. m \in Message
    BY <1>0, <2>1, FSHeadTyped
  <2> HIDE DEF m
  <2>3. ans \in Message
    BY <2>2, OfferTyped
  <2> HIDE DEF ans
  <2>4. QED
    BY <1>0, <2>1, <2>3
<1>2. CASE FSDisconnectClient(g) \/ FSEnterShardOk(g) \/ FSChangeShardAns(g)
  BY <1>0, <1>2 DEF FSDisconnectClient, FSEnterShardOk, FSChangeShardAns
<1>3. CASE FSShardValidation(g)
  <2> DEFINE e == Head(events[g])
             v == conn[g][e.k].u
             out == [Msg("M_CLIENT_CONNECT_STATUS", v) EXCEPT !.v = 1, !.ck = e.ck]
  <2>1. Emit(g, To(ShardOf[g], out)) /\ events[g] # << >>
    BY <1>3 DEF FSShardValidation
  <2>2. v \in Users /\ e.ck \in Cookie
    BY <1>0, <2>1, EventTyped
  <2> HIDE DEF e, v
  <2>3. out \in Message
    BY <1>0, <2>2, FSNulls, MsgTyped
  <2> HIDE DEF out
  <2>4. QED
    BY <1>0, <2>1, <2>3
<1>4. CASE FSInvalidCookie(g) \/ \E k \in Conns : ClientClose(g, k)
  BY <1>4 DEF FSInvalidCookie, ClientClose, netVars
<1>5. CASE FSDisconnected(g)
  <2> DEFINE k == Head(events[g]).k
             out == Msg("M_CLIENT_CONNECT_STATUS", conn[g][k].u)
  <2>1. events[g] # << >> /\ (net' = net \/ Emit(g, To(ShardOf[g], out)))
    BY <1>5 DEF FSDisconnected, Reported
  <2>2. conn[g][k].u \in Users
    BY <1>0, <2>1, EventTyped
  <2> HIDE DEF k
  <2>3. out \in Message
    BY <1>0, <2>2, FSNulls, MsgTyped
  <2> HIDE DEF out
  <2>4. QED
    BY <1>0, <2>1, <2>3
<1>6. CASE FSRefreshPending(g)
  <2>1. PICK p \in pending[g] :
          Emit(g, To(ShardOf[g], [Msg("M_LOGIN_SERVER_RPC", p.u) EXCEPT !.ck = p.ck]))
    BY <1>6 DEF FSRefreshPending
  <2>2. p.u \in Users /\ p.ck \in Cookie
    BY <1>0 DEF FSTyped, FSTypeOK
  <2>3. [Msg("M_LOGIN_SERVER_RPC", p.u) EXCEPT !.ck = p.ck] \in Message
    BY <1>0, <2>2, FSNulls, MsgTyped
  <2>4. QED
    BY <1>0, <2>1, <2>3
<1>7. ASSUME NEW k \in Conns, FSChangeShardReq(g, k)
      PROVE  \E outs \in Outbox : Emit(g, outs)
  <2>1. PICK s \in Shards : Emit(g, To(ShardOf[g],
          [Msg("M_CS_CHANGE_SHARD_REQ", conn[g][k].u) EXCEPT !.s = s]))
    BY <1>7 DEF FSChangeShardReq
  <2>2. conn[g][k].u \in Users /\ s \in ShardOrNone
    BY <1>0, SocketsTyped DEF Conn, ShardOrNone
  <2>3. [Msg("M_CS_CHANGE_SHARD_REQ", conn[g][k].u) EXCEPT !.s = s] \in Message
    BY <1>0, <2>2, FSNulls, MsgTyped
  <2>4. QED
    BY <1>0, <2>1, <2>3
<1>8. QED
  BY <1>1, <1>2, <1>3, <1>4, <1>5, <1>6, <1>7

(* No other step makes a front end say what is not so. *)
LEMMA OthersQuietOrSpeak ==
  ASSUME TypeOK, NEW f \in Fess, Sockets(f), NEW u \in Users, [Next]_vars, ~WSStep
  PROVE  wsAssoc' = wsAssoc /\ (Quiet(f, u) \/ Speaks(f, u))
<1>0. FSTyped
  BY TypeOKIs
<1>1. wsAssoc' = wsAssoc
  BY DEF Next, vars, LSStep, FSStep, SSStep, ClientStep, SSShardAnswer, Play, wsVars
<1>2. SUFFICES Quiet(f, u) \/ Speaks(f, u)
  BY <1>1
<1>3. ASSUME net'[Down(f)] = net[Down(f)], net'[Up(f)] = net[Up(f)],
             conn'[f] = conn[f], events'[f] = events[f], assoc'[f] = assoc[f]
      PROVE  Quiet(f, u)
  BY <1>3 DEF Quiet, Held, Ends
<1>4. CASE \/ LSStep \/ SSStep \/ SSShardAnswer \/ UNCHANGED vars
           \/ \E g \in Fess, k \in Conns : Play(g, k)
  <2>1. UNCHANGED <<conn, events, assoc>>
    BY <1>4 DEF LSStep, SSStep, SSShardAnswer, Play, vars, fsVars
  <2>2. QED
    BY <1>3, <1>4, <2>1, OthersLinks
<1>5. ASSUME NEW g \in Fess,
             \/ FSChooseShard(g) \/ FSDisconnectClient(g) \/ FSEnterShardOk(g)
             \/ FSChangeShardAns(g) \/ FSShardValidation(g) \/ FSInvalidCookie(g)
             \/ FSDisconnected(g) \/ FSRefreshPending(g)
             \/ \E k \in Conns : ClientClose(g, k) \/ FSChangeShardReq(g, k)
      PROVE  Quiet(f, u) \/ Speaks(f, u)
  <2>1. CASE g = f
    BY <1>5, <2>1, FESOwn
  <2>2. CASE g # f
    <3>1. conn'[f] = conn[f] /\ events'[f] = events[f] /\ assoc'[f] = assoc[f]
      BY <1>0, <1>5, <2>2, OtherSockets
    <3>2. net'[Down(f)] = net[Down(f)] /\ net'[Up(f)] = net[Up(f)]
      <4>1. net' = net \/ \E outs \in Outbox : Receive(ShardOf[g], g, outs) \/ Emit(g, outs)
        BY <1>0, <1>5, FESSpeaks
      <4>2. QED
        BY <2>2, <4>1, FESStepLinks
    <3>3. QED
      BY <1>3, <3>1, <3>2
  <2>3. QED
    BY <2>1, <2>2
<1>6. CASE \E v \in Users : ClientConnect(v)
  <2>1. Held(f, u) => Held(f, u)'
    BY <1>0, <1>6, ClientConnectHeld
  <2>2. net' = net /\ assoc' = assoc
    BY <1>6 DEF ClientConnect, netVars
  <2>3. QED
    BY <2>1, <2>2 DEF Quiet
<1>7. CASE FSStep
  BY <1>5, <1>7 DEF FSStep, FSNext
<1>8. CASE ClientStep
  BY <1>5, <1>6, <1>8 DEF ClientStep
<1>9. QED
  BY <1>4, <1>7, <1>8 DEF Next

(* So no step at all makes a WS believe what is not so, nor forget, with   *)
(* one front end on the shard, what is.                                    *)
LEMMA FaithKept ==
  ASSUME TypeOK, NEW f \in Fess, Sockets(f), NEW u \in Users, [Next]_vars
  PROVE  /\ Real(f, u) => Real(f, u)'
         /\ OfItsShard /\ (\A h \in Fess : ShardOf[h] = ShardOf[f] => h = f) /\ Known(f, u)
              => Known(f, u)'
<1>1. CASE WSStep
  BY <1>1, WSKeepsFaith DEF WSStep, fsVars
<1>2. CASE ~WSStep
  BY <1>2, OthersQuietOrSpeak, QuietOrSpeaks
<1>3. QED
  BY <1>1, <1>2

LEMMA OfItsShardKept ==
  ASSUME TypeOK, OfItsShard, [Next]_vars
  PROVE  OfItsShard'
<1>1. wsAssoc \in [Shards -> [Users -> FesOrNone]]
  BY DEF TypeOK, WSTypeOK
<1>2. CASE wsAssoc' = wsAssoc
  BY <1>2 DEF OfItsShard
<1>3. ASSUME NEW g \in Fess,
             WSShardAnswer(g) \/ WSLoginClient(g) \/ WSLogoffClient(g)
               \/ WSRemovedPendingCookie(g) \/ WSChangeShardReq(g)
      PROVE  OfItsShard'
  <2> DEFINE m == Head(net[Up(g)])
             s == ShardOf[g]
  <2>1. /\ m.u \in Users /\ s \in Shards
        /\ \/ wsAssoc' = wsAssoc
           \/ wsAssoc' = [wsAssoc EXCEPT ![s][m.u] = NoFes]
           \/ wsAssoc' = [wsAssoc EXCEPT ![s][m.u] = IF @ = NoFes THEN g ELSE @]
    BY <1>3, WSNews
  <2> HIDE DEF m
  <2>2. \A t \in Shards, u \in Users :
          wsAssoc'[t][u] \in {wsAssoc[t][u], NoFes} \/ (t = s /\ wsAssoc'[t][u] = g)
    BY <1>1, <2>1
  <2>3. QED
    BY <2>2 DEF OfItsShard
<1>4. ASSUME NEW s \in Shards,
             \/ WSNoFrontend(s) \/ WSDisconnectClient(s) \/ WSForceLogoff(s)
             \/ WSRelayToFES(s) \/ WSMoveUserDataReq(s) \/ WSQueryDone(s)
             \/ \E from \in Shards \ {s} : WSSendUserData(from, s)
             \/ WSChooseShard(s)
      PROVE  wsAssoc' = wsAssoc
  BY <1>4 DEF WSNoFrontend, WSDisconnectClient, WSForceLogoff, WSRelayToFES,
              WSMoveUserDataReq, WSQueryDone, WSSendUserData, WSChooseShard, wsVars
<1>5. CASE WSStep
  BY <1>2, <1>3, <1>4, <1>5 DEF WSStep, WSNext
<1>6. CASE ~WSStep
  <2>1. wsAssoc' = wsAssoc
    BY <1>6 DEF Next, vars, LSStep, FSStep, SSStep, ClientStep, SSShardAnswer, Play, wsVars
  <2>2. QED
    BY <1>2, <2>1
<1>7. QED
  BY <1>5, <1>6

(* Before anything is sent nothing is said and nobody has a session. *)
LEMMA FaithInit ==
  ASSUME Init, NEW f \in Fess, NEW u \in Users
  PROVE  Real(f, u) /\ Known(f, u) /\ OfItsShard
<1>1. TypeOK
  BY InitTyped
<1>2. net[Up(f)] = << >>
  BY <1>1, AwaitedTyped DEF Init, NetInit
<1>3. /\ wsAssoc = [s \in Shards |-> [v \in Users |-> NoFes]]
      /\ assoc[f] = [v \in Users |-> 0] /\ ShardOf[f] \in Shards /\ f # NoFes
  BY PlacesOK, NullsDistinct DEF Init, WSInit, FSInit
<1>4. DOMAIN net[Up(f)] = {}
  BY <1>2
<1>5. ~LastSays(net[Up(f)], u)
  BY <1>4 DEF LastSays
<1>6. ~Believed(f, u)
  BY <1>3, <1>5 DEF Believed
<1>7. assoc[f][u] = 0
  BY <1>3
<1>8. OfItsShard
  BY <1>3 DEF OfItsShard
<1>9. QED
  BY <1>6, <1>7, <1>8 DEF Real, Known

(* With nothing on its way or queued a WS believes what it holds, and a    *)
(* session of a front end is one it has kept.                              *)
LEMMA SettledFaith ==
  ASSUME TypeOK, Settled, NEW f \in Fess, NEW u \in Users
  PROVE  /\ Real(f, u) => (wsAssoc[ShardOf[f]][u] = f => assoc[f][u] # 0)
         /\ Known(f, u) => (assoc[f][u] # 0 => wsAssoc[ShardOf[f]][u] = f)
<1>1. net[Up(f)] = << >> /\ net[Down(f)] = << >> /\ events[f] = << >>
  BY AwaitedTyped, LinksApart DEF Settled
<1>2. DOMAIN net[Up(f)] = {} /\ DOMAIN net[Down(f)] = {} /\ DOMAIN events[f] = {}
  BY <1>1
<1>3. Believed(f, u) <=> wsAssoc[ShardOf[f]][u] = f
  BY <1>2 DEF Believed, LastSays, Unsaid
<1>4. ~ToldIn(net[Down(f)], u)
  BY <1>2 DEF ToldIn
<1>5. Held(f, u) => assoc[f][u] # 0
  BY <1>2 DEF Held, Ends, EndsIn
<1>6. QED
  BY <1>3, <1>4, <1>5 DEF Real, Known

(* Once everything sent has arrived, a WS holds no session of a front end  *)
(* that the front end does not have: a session it was told of has ended    *)
(* only if it was told so, after.                                          *)
THEOREM SessionsTheWSHoldsAreReal == Spec => []SessionsAreReal
<1> DEFINE RInv == /\ TypeOK /\ \A f \in Fess : Sockets(f)
                   /\ \A f \in Fess, u \in Users : Real(f, u)
<1>1. Init => RInv
  BY InitTyped, SocketsInit, FaithInit DEF Init
<1>2. RInv /\ [Next]_vars => RInv'
  <2> SUFFICES ASSUME RInv, [Next]_vars PROVE RInv'
    OBVIOUS
  <2>1. TypeOK' /\ \A f \in Fess : Sockets(f)'
    BY NextTyped, SocketsKept
  <2>2. ASSUME NEW f \in Fess, NEW u \in Users
        PROVE  Real(f, u)'
    BY FaithKept
  <2>3. QED
    BY <2>1, <2>2
<1>3. RInv => SessionsAreReal
  BY SettledFaith DEF SessionsAreReal
<1> HIDE DEF RInv
<1>4. QED
  BY <1>1, <1>2, <1>3, PTL DEF Spec

(* With one front end per shard it then knows exactly their sessions: no   *)
(* connection or disconnection goes unreported, is lost to another report  *)
(* or is applied out of order.                                             *)
THEOREM SessionsAreKnown ==
  ASSUME \A f, g \in Fess : ShardOf[f] = ShardOf[g] => f = g
  PROVE  Spec => []WSKnowsItsSessions
<1> DEFINE KInv == /\ TypeOK /\ (\A f \in Fess : Sockets(f)) /\ OfItsShard
                   /\ \A f \in Fess, u \in Users : Real(f, u) /\ Known(f, u)
<1>1. Init => KInv
  <2> SUFFICES ASSUME Init PROVE KInv
    OBVIOUS
  <2>1. OfItsShard
    BY DEF Init, WSInit, OfItsShard
  <2>2. QED
    BY <2>1, InitTyped, SocketsInit, FaithInit DEF Init
<1>2. KInv /\ [Next]_vars => KInv'
  <2> SUFFICES ASSUME KInv, [Next]_vars PROVE KInv'
    OBVIOUS
  <2>1. TypeOK' /\ (\A f \in Fess : Sockets(f)') /\ OfItsShard'
    BY NextTyped, SocketsKept, OfItsShardKept
  <2>2. ASSUME NEW f \in Fess, NEW u \in Users
        PROVE  Real(f, u)' /\ Known(f, u)'
    BY FaithKept
  <2>3. QED
    BY <2>1, <2>2
<1>3. KInv => WSKnowsItsSessions
  BY SettledFaith DEF WSKnowsItsSessions
<1> HIDE DEF KInv
<1>4. QED
  BY <1>1, <1>2, <1>3, PTL DEF Spec

-----------------------------------------------------------------------------
(* One session of a user on a front end                                    *)
(*                                                                         *)
(* OneSession of FrontendServer_proofs is kept as long as no cookie is     *)
(* announced that a client has shown already. The LS makes a new cookie    *)
(* for every choice of a shard, so this is so unless users change shard:   *)
(* then the cookie of the login is announced again, perhaps while a socket *)
(* that shows it waits in the queue.                                       *)

(* An answer that offers a front end, and the cookies clients are or will  *)
(* be offered, or show.                                                    *)
Opening(m) == m.kind \in Answers /\ m.v = 0
Offered(ck) ==
  \/ \E l \in Links : \E i \in DOMAIN net[l] : Opening(net[l][i]) /\ net[l][i].ck = ck
  \/ \E u \in Users : \E o \in offers[u] : o.ck = ck
  \/ \E f \in Fess : \E i \in DOMAIN events[f] :
       events[f][i].ev = "validation" /\ events[f][i].ck = ck

(* The message i of link l asks to await a client, with a cookie. *)
Asked(l, i) == l # <<SS, LS>> /\ net[l][i] \in Asks
OnceAsked ==
  \A l, k \in Links : \A i \in DOMAIN net[l], j \in DOMAIN net[k] :
    Asked(l, i) /\ Asked(k, j) /\ net[l][i].ck = net[k][j].ck => l = k /\ i = j
NotOffered ==
  \A l \in Links : \A i \in DOMAIN net[l] :
    Asked(l, i) => /\ net[l][i].ck.key <= lastKey
                   /\ \A ck \in Cookie : Offered(ck) => net[l][i].ck # ck
Issued == \A ck \in Cookie : Offered(ck) => ck.key <= lastKey
Unchanging ==
  \A l \in Links : \A i \in DOMAIN net[l] : net[l][i].kind # "M_CS_CHANGE_SHARD_REQ"
(* A cookie is announced once, and before any client has it. *)
NewCookies == OnceAsked /\ NotOffered /\ Issued /\ Unchanging

(* Everything in outbox `outs` is in M. *)
Carries(outs, M) ==
  outs \in Outbox /\ \A n \in Nodes : \A i \in DOMAIN outs[n] : outs[n][i] \in M

LEMMA CarriesSilent == \A M : Carries(Silent, M)
<1>1. \A n \in Nodes : Silent[n] = << >>
  BY DEF Silent
<1>2. QED
  BY <1>1, SilentTyped DEF Carries

LEMMA CarriesTo ==
  ASSUME NEW M, NEW n, NEW m \in Message, m \in M
  PROVE  Carries(To(n, m), M)
<1>1. \A k \in Nodes : To(n, m)[k] = IF k = n THEN <<m>> ELSE << >>
  BY DEF To, Silent
<1>2. QED
  BY <1>1, ToTyped DEF Carries

LEMMA CarriesBoth ==
  ASSUME NEW M, NEW a, Carries(a, M), NEW b, Carries(b, M)
  PROVE  Carries(a \oplus b, M)
<1>1. a \in Outbox /\ b \in Outbox /\ (a \oplus b) \in Outbox
  BY JoinTyped DEF Carries
<1>2. ASSUME NEW n \in Nodes, NEW i \in DOMAIN (a \oplus b)[n]
      PROVE  (a \oplus b)[n][i] \in M
  <2> DEFINE p == a[n]
             q == b[n]
  <2>1. (a \oplus b)[n] = p \o q /\ p \in Seq(Message) /\ q \in Seq(Message)
    BY <1>1 DEF \oplus, Outbox
  <2>2. /\ \A j \in DOMAIN p : p[j] \in M
        /\ \A j \in DOMAIN q : q[j] \in M
    BY DEF Carries
  <2> HIDE DEF p, q
  <2>3. i \in DOMAIN (p \o q)
    BY <1>2, <2>1
  <2>4. (p \o q)[i] \in M
    <3>1. /\ DOMAIN p = 1..Len(p) /\ DOMAIN q = 1..Len(q) /\ Len(p) \in Nat /\ Len(q) \in Nat
          /\ DOMAIN (p \o q) = 1..(Len(p) + Len(q))
          /\ \A j \in 1..(Len(p) + Len(q)) :
               (p \o q)[j] = IF j <= Len(p) THEN p[j] ELSE q[j - Len(p)]
      BY <2>1, LenProperties, ConcatProperties
    <3>2. CASE i <= Len(p)
      BY <2>2, <2>3, <3>1, <3>2
    <3>3. CASE ~(i <= Len(p))
      <4>1. i - Len(p) \in DOMAIN q /\ (p \o q)[i] = q[i - Len(p)]
        BY <2>3, <3>1, <3>3
      <4>2. QED
        BY <2>2, <4>1
    <3>4. QED
      BY <3>2, <3>3
  <2>5. QED
    BY <2>1, <2>4
<1>3. QED
  BY <1>1, <1>2 DEF Carries

(* In a step of `me` that sends `outs` every message left on a link was    *)
(* there, d places further back, or has been sent by `me`.                 *)
Passes(d, me, outs) ==
  \A l \in Links : \A i \in DOMAIN net'[l] :
    \/ i + d[l] \in DOMAIN net[l] /\ net'[l][i] = net[l][i + d[l]]
    \/ /\ l[1] = me
       /\ \E j \in DOMAIN outs[l[2]] : i = Len(net[l]) + j /\ net'[l][i] = outs[l[2]][j]

(* One link on which `me` sends. *)
LEMMA SentPasses ==
  ASSUME NEW q \in Seq(Message), NEW r \in Seq(Message), NEW i \in DOMAIN (q \o r)
  PROVE  \/ i + 0 \in DOMAIN q /\ (q \o r)[i] = q[i + 0]
         \/ \E j \in DOMAIN r : i = Len(q) + j /\ (q \o r)[i] = r[j]
<1>1. /\ DOMAIN q = 1..Len(q) /\ DOMAIN r = 1..Len(r) /\ Len(q) \in Nat /\ Len(r) \in Nat
      /\ DOMAIN (q \o r) = 1..(Len(q) + Len(r))
      /\ \A j \in 1..(Len(q) + Len(r)) :
           (q \o r)[j] = IF j <= Len(q) THEN q[j] ELSE r[j - Len(q)]
  BY LenProperties, ConcatProperties
<1>2. CASE i <= Len(q)
  BY <1>1, <1>2
<1>3. CASE ~(i <= Len(q))
  <2>1. i - Len(q) \in DOMAIN r /\ (q \o r)[i] = r[i - Len(q)] /\ i = Len(q) + (i - Len(q))
    BY <1>1, <1>3
  <2>2. QED
    BY <2>1
<1>4. QED
  BY <1>2, <1>3

LEMMA ReceivePasses ==
  ASSUME NetTyped, NEW src, NEW me, <<src, me>> \in Links, net[<<src, me>>] # << >>,
         NEW outs \in Outbox, Receive(src, me, outs),
         NEW d, d = [l \in Links |-> IF l = <<src, me>> THEN 1 ELSE 0]
  PROVE  d \in [Links -> {0, 1}] /\ Passes(d, me, outs)
<1>1. ASSUME NEW l \in Links, NEW i \in DOMAIN net'[l]
      PROVE  \/ i + d[l] \in DOMAIN net[l] /\ net'[l][i] = net[l][i + d[l]]
             \/ /\ l[1] = me
                /\ \E j \in DOMAIN outs[l[2]] :
                     i = Len(net[l]) + j /\ net'[l][i] = outs[l[2]][j]
  <2>1. net[l] \in Seq(Message) /\ outs[l[2]] \in Seq(Message)
    BY LinksAre DEF NetTyped, Outbox
  <2>2. CASE l = <<src, me>>
    <3>1. net'[l] = Tail(net[l]) /\ d[l] = 1
      BY <2>2 DEF Receive
    <3>2. QED
      BY <1>1, <2>1, <2>2, <3>1, PositionsRead
  <2>3. CASE l # <<src, me>> /\ l[1] = me
    <3> DEFINE q == net[l]
               r == outs[l[2]]
    <3>1. net'[l] = q \o r /\ d[l] = 0
      BY <2>3 DEF Receive
    <3>2. q \in Seq(Message) /\ r \in Seq(Message) /\ i \in DOMAIN (q \o r)
      BY <1>1, <2>1, <3>1
    <3>3. \/ i + 0 \in DOMAIN q /\ (q \o r)[i] = q[i + 0]
          \/ \E j \in DOMAIN r : i = Len(q) + j /\ (q \o r)[i] = r[j]
      <4> HIDE DEF q, r
      <4> QED
        BY <3>2, SentPasses
    <3>4. QED
      BY <2>3, <3>1, <3>3
  <2>4. CASE l # <<src, me>> /\ l[1] # me
    <3>1. net'[l] = net[l] /\ d[l] = 0
      BY <2>4 DEF Receive
    <3>2. i \in Nat
      BY <1>1, <2>1, <3>1, LenProperties
    <3>3. QED
      BY <1>1, <3>1, <3>2
  <2>5. QED
    BY <2>2, <2>3, <2>4
<1>2. QED
  BY <1>1 DEF Passes

LEMMA EmitPasses ==
  ASSUME NetTyped, NEW me, NEW outs \in Outbox, Emit(me, outs),
         NEW d, d = [l \in Links |-> 0]
  PROVE  d \in [Links -> {0, 1}] /\ Passes(d, me, outs)
<1>1. ASSUME NEW l \in Links, NEW i \in DOMAIN net'[l]
      PROVE  \/ i + d[l] \in DOMAIN net[l] /\ net'[l][i] = net[l][i + d[l]]
             \/ /\ l[1] = me
                /\ \E j \in DOMAIN outs[l[2]] :
                     i = Len(net[l]) + j /\ net'[l][i] = outs[l[2]][j]
  <2>1. net[l] \in Seq(Message) /\ outs[l[2]] \in Seq(Message) /\ d[l] = 0
    BY LinksAre DEF NetTyped, Outbox
  <2>2. CASE l[1] = me
    <3> DEFINE q == net[l]
               r == outs[l[2]]
    <3>1. net'[l] = q \o r
      BY <2>2 DEF Emit
    <3>2. q \in Seq(Message) /\ r \in Seq(Message) /\ i \in DOMAIN (q \o r)
      BY <1>1, <2>1, <3>1
    <3>3. \/ i + 0 \in DOMAIN q /\ (q \o r)[i] = q[i + 0]
          \/ \E j \in DOMAIN r : i = Len(q) + j /\ (q \o r)[i] = r[j]
      <4> HIDE DEF q, r
      <4> QED
        BY <3>2, SentPasses
    <3>4. QED
      BY <2>1, <2>2, <3>1, <3>3
  <2>3. CASE l[1] # me
    <3>1. net'[l] = net[l]
      BY <2>3 DEF Emit
    <3>2. i \in Nat
      BY <1>1, <2>1, <3>1, LenProperties
    <3>3. QED
      BY <1>1, <2>1, <3>1, <3>2
  <2>4. QED
    BY <2>2, <2>3
<1>2. QED
  BY <1>1 DEF Passes

LEMMA StillPasses ==
  ASSUME NetTyped, net' = net, NEW me, NEW d, d = [l \in Links |-> 0]
  PROVE  d \in [Links -> {0, 1}] /\ Passes(d, me, Silent)
<1>1. \A l \in Links : d[l] = 0 /\ \A i \in DOMAIN net[l] : i + 0 = i
  <2>1. \A l \in Links : net[l] \in Seq(Message)
    BY DEF NetTyped
  <2>2. QED
    BY <2>1, LenProperties
<1>2. QED
  BY <1>1 DEF Passes

(* What a service that asks no front end to await a client sends: of the   *)
(* answers it passes on, the cookie was offered before.                    *)
Mild(me) == {m \in Message : /\ m.kind # "M_CS_CHANGE_SHARD_REQ"
                             /\ m \in Asks => me = SS
                             /\ Opening(m) => Offered(m.ck)}
Calm(me, outs) ==
  Carries(outs, Mild(me)) /\ \E d \in [Links -> {0, 1}] : Passes(d, me, outs)
(* Clients are given, and show, cookies that were offered before. *)
OffersKept ==
  /\ \A u \in Users : \A o \in offers'[u] : Offered(o.ck)
  /\ \A f \in Fess : \A i \in DOMAIN events'[f] :
       events'[f][i].ev = "validation" => Offered(events'[f][i].ck)

LEMMA OffersUnchanged ==
  ASSUME UNCHANGED <<offers, events>>
  PROVE  OffersKept
BY DEF OffersKept, Offered

(* SS sends to the LS alone. *)
LEMMA FromSS == \A l \in Links : l[1] = SS => l = <<SS, LS>>
BY NodesDistinct, PlacesOK DEF Links

(* Positions on a link are numbers from 1 on, and a message is typed. *)
LEMMA PositionsTyped ==
  ASSUME NEW N \in [Links -> Seq(Message)], NEW l \in Links, NEW i \in DOMAIN N[l]
  PROVE  i \in Nat \ {0} /\ N[l][i] \in Message /\ N[l][i].ck \in Cookie
<1>1. i \in Nat \ {0} /\ N[l][i] \in Message
  BY LenProperties, ElementOfSeq
<1>2. QED
  BY <1>1, MessageIs

LEMMA CalmKeepsCookies ==
  ASSUME NetTyped, NetTyped', NewCookies, NEW me, NEW outs, Calm(me, outs), OffersKept,
         lastKey' = lastKey
  PROVE  NewCookies'
<1>1. PICK d \in [Links -> {0, 1}] : Passes(d, me, outs)
  BY DEF Calm
<1>2. ASSUME NEW l \in Links, NEW i \in DOMAIN net'[l]
      PROVE  /\ i \in Nat \ {0} /\ d[l] \in {0, 1} /\ net'[l][i].ck \in Cookie
             /\ \/ i + d[l] \in DOMAIN net[l] /\ net'[l][i] = net[l][i + d[l]]
                \/ l[1] = me /\ net'[l][i] \in Mild(me)
  <2>1. i \in Nat \ {0} /\ d[l] \in {0, 1} /\ net'[l][i].ck \in Cookie
    BY <1>2, PositionsTyped DEF NetTyped
  <2>2. l[2] \in Nodes /\ \A j \in DOMAIN outs[l[2]] : outs[l[2]][j] \in Mild(me)
    BY LinksAre DEF Calm, Carries
  <2>3. QED
    BY <1>1, <2>1, <2>2 DEF Passes
<1>3. ASSUME NEW ck \in Cookie, Offered(ck)'
      PROVE  Offered(ck)
  <2>1. CASE \E l \in Links : \E i \in DOMAIN net'[l] : Opening(net'[l][i]) /\ net'[l][i].ck = ck
    <3>0. PICK l \in Links :
            \E i \in DOMAIN net'[l] : Opening(net'[l][i]) /\ net'[l][i].ck = ck
      BY <2>1
    <3>1. PICK i \in DOMAIN net'[l] : Opening(net'[l][i]) /\ net'[l][i].ck = ck
      BY <3>0
    <3>2. CASE i + d[l] \in DOMAIN net[l] /\ net'[l][i] = net[l][i + d[l]]
      BY <3>1, <3>2 DEF Offered
    <3>3. CASE net'[l][i] \in Mild(me)
      BY <3>1, <3>3 DEF Mild
    <3>4. QED
      BY <1>2, <3>2, <3>3
  <2>2. CASE \/ \E u \in Users : \E o \in offers'[u] : o.ck = ck
             \/ \E f \in Fess : \E i \in DOMAIN events'[f] :
                  events'[f][i].ev = "validation" /\ events'[f][i].ck = ck
    BY <2>2 DEF OffersKept
  <2>3. QED
    BY <1>3, <2>1, <2>2 DEF Offered
<1>4. ASSUME NEW l \in Links, NEW i \in DOMAIN net'[l], Asked(l, i)'
      PROVE  /\ i + d[l] \in DOMAIN net[l] /\ net'[l][i] = net[l][i + d[l]]
             /\ Asked(l, i + d[l])
  <2>1. ~(l[1] = me /\ net'[l][i] \in Mild(me))
    BY <1>4, FromSS DEF Asked, Mild
  <2>2. QED
    BY <1>2, <1>4, <2>1 DEF Asked
<1>5. OnceAsked'
  <2> SUFFICES ASSUME NEW l \in Links, NEW k \in Links, NEW i \in DOMAIN net'[l],
                      NEW j \in DOMAIN net'[k], Asked(l, i)', Asked(k, j)',
                      net'[l][i].ck = net'[k][j].ck
               PROVE  l = k /\ i = j
    BY DEF OnceAsked
  <2>0. /\ i + d[l] \in DOMAIN net[l] /\ net'[l][i] = net[l][i + d[l]] /\ Asked(l, i + d[l])
        /\ j + d[k] \in DOMAIN net[k] /\ net'[k][j] = net[k][j + d[k]] /\ Asked(k, j + d[k])
    BY <1>4
  <2>1. l = k /\ i + d[l] = j + d[k]
    BY <2>0 DEF NewCookies, OnceAsked
  <2>2. i \in Nat /\ j \in Nat /\ d[l] \in {0, 1}
    BY <1>2
  <2>3. QED
    BY <2>1, <2>2
<1>6. NotOffered'
  BY <1>2, <1>3, <1>4 DEF NewCookies, NotOffered
<1>7. Issued'
  BY <1>3 DEF NewCookies, Issued
<1>8. Unchanging'
  BY <1>2 DEF NewCookies, Unchanging, Mild
<1>9. QED
  BY <1>5, <1>6, <1>7, <1>8 DEF NewCookies

(* No request left on a link has cookie ck, when of every link the first   *)
(* d messages are read.                                                    *)
Lone(d, ck) ==
  \A l \in Links : \A i \in DOMAIN net[l] : i > d[l] /\ Asked(l, i) => net[l][i].ck # ck

(* A service asks to await a client with a cookie no other request has and *)
(* nobody has been offered.                                                *)
LEMMA AskKeepsCookies ==
  ASSUME NetTyped, NetTyped', NewCookies, NEW me, NEW n, NEW m \in Asks,
         NEW d \in [Links -> {0, 1}], Passes(d, me, To(n, m)), Lone(d, m.ck),
         ~Offered(m.ck), lastKey \in Nat, lastKey' \in Nat, m.ck.key \in Nat,
         m.ck.key <= lastKey', lastKey <= lastKey', OffersKept
  PROVE  NewCookies'
<1>0. m \in Message /\ m.kind = "M_ENTER_SHARD_REQUEST" /\ ~Opening(m) /\ m.ck \in Cookie
  BY MessageIs DEF Asks, Opening, Answers
<1>1. ASSUME NEW l \in Links, NEW i \in DOMAIN net'[l]
      PROVE  /\ i \in Nat \ {0} /\ d[l] \in {0, 1} /\ net'[l][i].ck \in Cookie
             /\ \/ /\ i + d[l] \in DOMAIN net[l] /\ net'[l][i] = net[l][i + d[l]]
                   /\ i + d[l] > d[l]
                \/ l = <<me, n>> /\ i = Len(net[l]) + 1 /\ net'[l][i] = m
  <2>1. i \in Nat \ {0} /\ d[l] \in {0, 1} /\ net'[l][i].ck \in Cookie
    BY <1>1, PositionsTyped DEF NetTyped
  <2>2. l[2] \in Nodes /\ l = <<l[1], l[2]>>
    BY LinksAre
  <2>3. To(n, m)[l[2]] = IF l[2] = n THEN <<m>> ELSE << >>
    BY <2>2 DEF To, Silent
  <2>4. \A j \in DOMAIN To(n, m)[l[2]] : l[2] = n /\ j = 1 /\ To(n, m)[l[2]][j] = m
    BY <2>3
  <2>5. QED
    BY <1>1, <2>1, <2>2, <2>4 DEF Passes
<1>2. ASSUME NEW ck \in Cookie, Offered(ck)'
      PROVE  Offered(ck)
  <2>1. CASE \E l \in Links : \E i \in DOMAIN net'[l] : Opening(net'[l][i]) /\ net'[l][i].ck = ck
    <3>0. PICK l \in Links :
            \E i \in DOMAIN net'[l] : Opening(net'[l][i]) /\ net'[l][i].ck = ck
      BY <2>1
    <3>1. PICK i \in DOMAIN net'[l] : Opening(net'[l][i]) /\ net'[l][i].ck = ck
      BY <3>0
    <3>2. i + d[l] \in DOMAIN net[l] /\ net'[l][i] = net[l][i + d[l]]
      BY <1>0, <1>1, <3>1
    <3>3. QED
      BY <3>1, <3>2 DEF Offered
  <2>2. CASE \/ \E u \in Users : \E o \in offers'[u] : o.ck = ck
             \/ \E f \in Fess : \E i \in DOMAIN events'[f] :
                  events'[f][i].ev = "validation" /\ events'[f][i].ck = ck
    BY <2>2 DEF OffersKept
  <2>3. QED
    BY <1>2, <2>1, <2>2 DEF Offered
<1>3. ASSUME NEW l \in Links, NEW i \in DOMAIN net'[l], Asked(l, i)'
      PROVE  \/ /\ i + d[l] \in DOMAIN net[l] /\ net'[l][i] = net[l][i + d[l]]
                /\ Asked(l, i + d[l]) /\ net'[l][i].ck # m.ck
             \/ l = <<me, n>> /\ i = Len(net[l]) + 1 /\ net'[l][i] = m
  BY <1>1, <1>3 DEF Asked, Lone
<1>4. OnceAsked'
  <2> SUFFICES ASSUME NEW l \in Links, NEW k \in Links, NEW i \in DOMAIN net'[l],
                      NEW j \in DOMAIN net'[k], Asked(l, i)', Asked(k, j)',
                      net'[l][i].ck = net'[k][j].ck
               PROVE  l = k /\ i = j
    BY DEF OnceAsked
  <2>1. CASE net'[l][i].ck = m.ck
    <3>1. /\ l = <<me, n>> /\ i = Len(net[l]) + 1
          /\ k = <<me, n>> /\ j = Len(net[k]) + 1
      BY <1>3, <2>1
    <3>2. QED
      BY <3>1
  <2>2. CASE net'[l][i].ck # m.ck
    <3>1. /\ i + d[l] \in DOMAIN net[l] /\ net'[l][i] = net[l][i + d[l]] /\ Asked(l, i + d[l])
          /\ j + d[k] \in DOMAIN net[k] /\ net'[k][j] = net[k][j + d[k]] /\ Asked(k, j + d[k])
      BY <1>3, <2>2
    <3>2. l = k /\ i + d[l] = j + d[k]
      BY <3>1 DEF NewCookies, OnceAsked
    <3>3. QED
      BY <1>1, <3>2
  <2>3. QED
    BY <2>1, <2>2
<1>5. NotOffered'
  <2> SUFFICES ASSUME NEW l \in Links, NEW i \in DOMAIN net'[l], Asked(l, i)'
               PROVE  /\ net'[l][i].ck.key <= lastKey'
                      /\ \A ck \in Cookie : Offered(ck)' => net'[l][i].ck # ck
    BY DEF NotOffered
  <2>1. net'[l][i].ck \in Cookie /\ net'[l][i].ck.key \in Nat
    BY <1>1 DEF Cookie
  <2>2. CASE net'[l][i] = m
    BY <1>2, <2>2
  <2>3. CASE net'[l][i] # m
    <3>1. /\ net'[l][i].ck.key <= lastKey
          /\ \A ck \in Cookie : Offered(ck) => net'[l][i].ck # ck
      BY <1>3, <2>3 DEF NewCookies, NotOffered
    <3>2. QED
      BY <1>2, <2>1, <3>1
  <2>4. QED
    BY <2>2, <2>3
<1>6. Issued'
  BY <1>2 DEF NewCookies, Issued, Cookie
<1>7. Unchanging'
  BY <1>0, <1>1 DEF NewCookies, Unchanging
<1>8. QED
  BY <1>4, <1>5, <1>6, <1>7 DEF NewCookies

(* A front end offers a cookie it has just read, and no other request has. *)
LEMMA OfferKeepsCookies ==
  ASSUME NetTyped, NetTyped', NewCookies, NEW me, NEW n, NEW m \in Message, Opening(m),
         NEW d \in [Links -> {0, 1}], Passes(d, me, To(n, m)), Lone(d, m.ck),
         m.ck.key <= lastKey, lastKey' = lastKey, OffersKept
  PROVE  NewCookies'
<1>0. m \notin Asks /\ m.kind # "M_CS_CHANGE_SHARD_REQ"
  BY DEF Asks, Opening, Answers
<1>1. ASSUME NEW l \in Links, NEW i \in DOMAIN net'[l]
      PROVE  /\ i \in Nat \ {0} /\ d[l] \in {0, 1} /\ net'[l][i].ck \in Cookie
             /\ \/ /\ i + d[l] \in DOMAIN net[l] /\ net'[l][i] = net[l][i + d[l]]
                   /\ i + d[l] > d[l]
                \/ net'[l][i] = m
  <2>1. i \in Nat \ {0} /\ d[l] \in {0, 1} /\ net'[l][i].ck \in Cookie
    BY <1>1, PositionsTyped DEF NetTyped
  <2>2. l[2] \in Nodes
    BY LinksAre
  <2>3. To(n, m)[l[2]] = IF l[2] = n THEN <<m>> ELSE << >>
    BY <2>2 DEF To, Silent
  <2>4. \A j \in DOMAIN To(n, m)[l[2]] : To(n, m)[l[2]][j] = m
    BY <2>3
  <2>5. QED
    BY <1>1, <2>1, <2>4 DEF Passes
<1>2. ASSUME NEW ck \in Cookie, Offered(ck)'
      PROVE  Offered(ck) \/ ck = m.ck
  <2>1. CASE \E l \in Links : \E i \in DOMAIN net'[l] : Opening(net'[l][i]) /\ net'[l][i].ck = ck
    <3>0. PICK l \in Links :
            \E i \in DOMAIN net'[l] : Opening(net'[l][i]) /\ net'[l][i].ck = ck
      BY <2>1
    <3>1. PICK i \in DOMAIN net'[l] : Opening(net'[l][i]) /\ net'[l][i].ck = ck
      BY <3>0
    <3>2. CASE net'[l][i] = m
      BY <3>1, <3>2
    <3>3. CASE i + d[l] \in DOMAIN net[l] /\ net'[l][i] = net[l][i + d[l]]
      BY <3>1, <3>3 DEF Offered
    <3>4. QED
      BY <1>1, <3>2, <3>3
  <2>2. CASE \/ \E u \in Users : \E o \in offers'[u] : o.ck = ck
             \/ \E f \in Fess : \E i \in DOMAIN events'[f] :
                  events'[f][i].ev = "validation" /\ events'[f][i].ck = ck
    BY <2>2 DEF OffersKept
  <2>3. QED
    BY <1>2, <2>1, <2>2 DEF Offered
<1>3. ASSUME NEW l \in Links, NEW i \in DOMAIN net'[l], Asked(l, i)'
      PROVE  /\ i + d[l] \in DOMAIN net[l] /\ net'[l][i] = net[l][i + d[l]]
             /\ Asked(l, i + d[l]) /\ net'[l][i].ck # m.ck
  BY <1>0, <1>1, <1>3 DEF Asked, Lone
<1>4. OnceAsked'
  <2> SUFFICES ASSUME NEW l \in Links, NEW k \in Links, NEW i \in DOMAIN net'[l],
                      NEW j \in DOMAIN net'[k], Asked(l, i)', Asked(k, j)',
                      net'[l][i].ck = net'[k][j].ck
               PROVE  l = k /\ i = j
    BY DEF OnceAsked
  <2>1. l = k /\ i + d[l] = j + d[k]
    BY <1>3 DEF NewCookies, OnceAsked
  <2>2. QED
    BY <1>1, <2>1
<1>5. NotOffered'
  <2> SUFFICES ASSUME NEW l \in Links, NEW i \in DOMAIN net'[l], Asked(l, i)'
               PROVE  /\ net'[l][i].ck.key <= lastKey'
                      /\ \A ck \in Cookie : Offered(ck)' => net'[l][i].ck # ck
    BY DEF NotOffered
  <2>1. /\ net'[l][i].ck.key <= lastKey
        /\ \A ck \in Cookie : Offered(ck) => net'[l][i].ck # ck
    BY <1>3 DEF NewCookies, NotOffered
  <2>2. QED
    BY <1>2, <1>3, <2>1
<1>6. Issued'
  BY <1>2 DEF NewCookies, Issued
<1>7. Unchanging'
  BY <1>0, <1>1 DEF NewCookies, Unchanging
<1>8. QED
  BY <1>4, <1>5, <1>6, <1>7 DEF NewCookies

(* A step of `me` that sends nothing but such messages is calm. *)
LEMMA ReceiveCalm ==
  ASSUME NetTyped, NEW src, NEW me, <<src, me>> \in Links, NEW kind, Pending(src, me, kind),
         NEW outs, Carries(outs, Mild(me)), Receive(src, me, outs)
  PROVE  Calm(me, outs)
<1> DEFINE d == [l \in Links |-> IF l = <<src, me>> THEN 1 ELSE 0]
<1>1. outs \in Outbox /\ net[<<src, me>>] # << >>
  BY DEF Carries, Pending
<1>2. d \in [Links -> {0, 1}] /\ Passes(d, me, outs)
  <2> DEFINE e == d
  <2>1. e = [l \in Links |-> IF l = <<src, me>> THEN 1 ELSE 0]
    OBVIOUS
  <2> HIDE DEF d, e
  <2>2. e \in [Links -> {0, 1}] /\ Passes(e, me, outs)
    BY <1>1, <2>1, ReceivePasses
  <2>3. QED
    BY <2>2 DEF e
<1>3. QED
  BY <1>2 DEF Calm

LEMMA EmitCalm ==
  ASSUME NetTyped, NEW me, NEW outs, Carries(outs, Mild(me)), Emit(me, outs)
  PROVE  Calm(me, outs)
<1> DEFINE d == [l \in Links |-> 0]
<1>1. outs \in Outbox
  BY DEF Carries
<1>2. d \in [Links -> {0, 1}] /\ Passes(d, me, outs)
  <2> DEFINE e == d
  <2>1. e = [l \in Links |-> 0]
    OBVIOUS
  <2> HIDE DEF d, e
  <2>2. e \in [Links -> {0, 1}] /\ Passes(e, me, outs)
    BY <1>1, <2>1, EmitPasses
  <2>3. QED
    BY <2>2 DEF e
<1>3. QED
  BY <1>2 DEF Calm

LEMMA StillCalm ==
  ASSUME NetTyped, net' = net, NEW me
  PROVE  Calm(me, Silent)
<1> DEFINE d == [l \in Links |-> 0]
<1>1. d \in [Links -> {0, 1}] /\ Passes(d, me, Silent)
  <2> DEFINE e == d
  <2>1. e = [l \in Links |-> 0]
    OBVIOUS
  <2> HIDE DEF d, e
  <2>2. e \in [Links -> {0, 1}] /\ Passes(e, me, Silent)
    BY <2>1, StillPasses
  <2>3. QED
    BY <2>2 DEF e
<1>2. QED
  BY <1>1, CarriesSilent DEF Calm

(* The messages that have nothing to do with cookies on their way to a     *)
(* client.                                                                 *)
PlainKinds == Kinds \ (Answers \cup {"M_ENTER_SHARD_REQUEST", "M_CS_CHANGE_SHARD_REQ"})
Plain == {m \in Message : m.kind \in PlainKinds}

LEMMA PlainMild ==
  ASSUME NEW me, NEW outs, Carries(outs, Plain)
  PROVE  Carries(outs, Mild(me))
<1>1. Plain \subseteq Mild(me)
  BY DEF Plain, PlainKinds, Mild, Asks, Opening
<1>2. QED
  BY <1>1 DEF Carries

LEMMA PlainMsg ==
  ASSUME NEW kind \in PlainKinds, NEW u \in Users, NEW ck \in Cookie,
         NEW s \in ShardOrNone, NEW fs \in FesOrNone, NEW v \in Nat
  PROVE  /\ Msg(kind, u) \in Plain
         /\ [Msg(kind, u) EXCEPT !.v = v] \in Plain
         /\ [Msg(kind, u) EXCEPT !.s = s] \in Plain
         /\ [Msg(kind, u) EXCEPT !.ck = ck] \in Plain
         /\ [Msg(kind, u) EXCEPT !.fsSid = fs] \in Plain
         /\ [Msg(kind, u) EXCEPT !.v = v, !.ck = ck] \in Plain
<1>1. kind \in Kinds \ Answers
  BY DEF PlainKinds
<1>2. /\ Msg(kind, u).kind = kind
      /\ [Msg(kind, u) EXCEPT !.v = v].kind = kind
      /\ [Msg(kind, u) EXCEPT !.s = s].kind = kind
      /\ [Msg(kind, u) EXCEPT !.ck = ck].kind = kind
      /\ [Msg(kind, u) EXCEPT !.fsSid = fs].kind = kind
      /\ [Msg(kind, u) EXCEPT !.v = v, !.ck = ck].kind = kind
  BY DEF Msg
<1>3. QED
  BY <1>1, <1>2, MsgTyped DEF Plain

-----------------------------------------------------------------------------
(* What the LS sends: nothing but SendShardListToSS and its like, and the  *)
(* two requests to await a client.                                         *)

LSPlain == LSKinds \ {"M_ENTER_SHARD_REQUEST"}
LEMMA LSPlainOK == LSPlain \subseteq PlainKinds
BY DEF LSPlain, LSKinds, PlainKinds, Kinds, Answers

LEMMA PlainToSS ==
  ASSUME NEW kind \in LSPlain, NEW u \in Users
  PROVE  Carries(ToSS(kind, u), Plain)
<1>1. Msg(kind, u) \in Plain /\ Msg(kind, u) \in Message
  BY PlainMsg, LSPlainOK, NullsTyped DEF Plain
<1>2. QED
  BY <1>1, CarriesTo DEF ToSS

LEMMA PlainMoveRequest ==
  ASSUME NEW u \in Users, NEW from \in ShardOrNone, NEW to \in ShardOrNone
  PROVE  Carries(MoveRequest(u, from, to), Plain)
<1> DEFINE s == IF MainShard[u] \in {from, to} THEN to ELSE MainShard[u]
           m == [Msg("M_NT_MOVE_USER_DATA_REQ", u) EXCEPT !.s = s]
<1>1. "M_NT_MOVE_USER_DATA_REQ" \in LSPlain /\ s \in ShardOrNone
  BY NullsTyped DEF LSPlain, LSKinds
<1> HIDE DEF s
<1>2. m \in Plain /\ m \in Message
  BY <1>1, PlainMsg, LSPlainOK, NullsTyped DEF Plain
<1> HIDE DEF m
<1>3. Carries(To(from, m), Plain)
  BY <1>2, CarriesTo
<1>4. QED
  BY <1>3 DEF MoveRequest, m, s

LEMMA PlainEnterShardOk ==
  ASSUME NEW u \in Users, NEW s, NEW f \in FesOrNone
  PROVE  Carries(EnterShardOk(u, s, f), Plain)
<1> DEFINE m == [Msg("M_ENTER__SHARD", u) EXCEPT !.fsSid = f]
<1>1. "M_ENTER__SHARD" \in LSPlain
  BY DEF LSPlain, LSKinds
<1>2. m \in Plain /\ m \in Message
  BY <1>1, PlainMsg, LSPlainOK, NullsTyped DEF Plain
<1> HIDE DEF m
<1>3. Carries(To(s, m), Plain)
  BY <1>2, CarriesTo
<1>4. QED
  BY <1>3 DEF EnterShardOk, m

LEMMA PlainLogoffOutbox ==
  ASSUME NEW u \in Users
  PROVE  Carries(LogoffOutbox(u), Plain)
<1>1. "M_SC_SHARDS" \in LSPlain /\ "M_CLIENT_CONNECT_STATUS" \in LSPlain
  BY DEF LSPlain, LSKinds
<1>2. Carries(ToSS("M_SC_SHARDS", u), Plain) /\ Carries(ToSS("M_CLIENT_CONNECT_STATUS", u), Plain)
  BY <1>1, PlainToSS
<1>3. QED
  BY <1>2, CarriesSilent, CarriesBoth DEF LogoffOutbox

LEMMA PlainAdmitOutbox ==
  ASSUME LSTypeOK, NEW u \in Users, NEW s \in ShardOrNone, NEW f \in FesOrNone,
         NEW con \in Nat
  PROVE  Carries(AdmitOutbox(u, s, f, con), Plain)
<1> DEFINE m == [Msg("M_CLIENT_CONNECT_STATUS", u) EXCEPT !.v = con]
           b == IF moving[u] = NoMove /\ infoCur[u] = s THEN EnterShardOk(u, s, f)
                ELSE IF MoveBeforeEntry(u, s) THEN MoveRequest(u, infoCur[u], s) ELSE Silent
<1>1. "M_CLIENT_CONNECT_STATUS" \in LSPlain /\ infoCur[u] \in ShardOrNone
  BY DEF LSPlain, LSKinds, LSTypeOK
<1>2. m \in Plain /\ m \in Message
  BY <1>1, PlainMsg, LSPlainOK, NullsTyped DEF Plain
<1>3. Carries(b, Plain)
  BY <1>1, PlainEnterShardOk, PlainMoveRequest, CarriesSilent
<1>4. AdmitOutbox(u, s, f, con) = To(SS, m) \oplus b
  BY DEF AdmitOutbox
<1> HIDE DEF m, b
<1>5. Carries(To(SS, m), Plain)
  BY <1>2, CarriesTo
<1>6. QED
  BY <1>3, <1>4, <1>5, CarriesBoth

LEMMA LSPlainSteps ==
  ASSUME LSTyped, NEW s \in Shards,
         \/ LSShardsList \/ LSChooseShardRefused \/ LSDisconnectClient \/ LSForceLogoff
         \/ LSRemovedPendingCookie(s) \/ LSReviseLogoff(s) \/ LSClientMustWait(s)
         \/ LSClientConnected(s) \/ LSClientDisconnected(s) \/ LSClientHandedOver(s)
         \/ LSMoveDataEnd(s)
  PROVE  \E src \in Shards \cup {SS} : \E kind, outs :
           Pending(src, LS, kind) /\ Carries(outs, Plain) /\ Receive(src, LS, outs)
<1> DEFINE m == Head(net[<<SS, LS>>])
           n == Head(net[<<s, LS>>])
           u == n.u
<1>0. /\ {"M_SC_SHARDS", "M_SC_FAIL", "M_CLIENT_DISCONNECT", "M_NT_REQ_FORCE_LOGOFF"}
           \subseteq LSPlain
      /\ SS \in Shards \cup {SS} /\ s \in Shards \cup {SS} /\ s \in ShardOrNone
      /\ Carries(Silent, Plain) /\ NoCookie \in Cookie /\ NoFes \in FesOrNone
      /\ infoCur \in [Users -> ShardOrNone] /\ LSTypeOK
  BY CarriesSilent, NullsTyped DEF LSPlain, LSKinds, ShardOrNone, LSTyped, LSTypeOK
<1>1. CASE LSShardsList
  <2>1. Pending(SS, LS, "M_SC_SHARDS") /\ Receive(SS, LS, ToSS("M_SC_SHARDS", m.u))
    BY <1>1 DEF LSShardsList
  <2>2. m.u \in Users
    BY <1>0, <2>1, LSHeadTyped
  <2>3. Carries(ToSS("M_SC_SHARDS", m.u), Plain)
    BY <1>0, <2>2, PlainToSS
  <2>4. QED
    BY <1>0, <2>1, <2>3
<1>2. CASE LSChooseShardRefused
  <2>1. Pending(SS, LS, "M_ENTER_SHARD_REQUEST") /\ Receive(SS, LS, ToSS("M_SC_FAIL", m.u))
    BY <1>2 DEF LSChooseShardRefused
  <2>2. m.u \in Users
    BY <1>0, <2>1, LSHeadTyped
  <2>3. Carries(ToSS("M_SC_FAIL", m.u), Plain)
    BY <1>0, <2>2, PlainToSS
  <2>4. QED
    BY <1>0, <2>1, <2>3
<1>3. CASE LSDisconnectClient
  <2> DEFINE no == Msg("M_CLIENT_DISCONNECT", m.u)
  <2>1. /\ Pending(SS, LS, "M_CLIENT_DISCONNECT")
        /\ \/ Receive(SS, LS, Silent)
           \/ \E d : Receive(SS, LS, To(d, no))
    BY <1>3 DEF LSDisconnectClient
  <2>2. m.u \in Users
    BY <1>0, <2>1, LSHeadTyped
  <2>3. no \in Plain /\ no \in Message
    BY <1>0, <2>2, PlainMsg, LSPlainOK, NullsTyped DEF Plain
  <2> HIDE DEF no
  <2>4. \A d : Carries(To(d, no), Plain)
    BY <2>3, CarriesTo
  <2>5. QED
    BY <1>0, <2>1, <2>4
<1>4. CASE LSForceLogoff
  <2> DEFINE out == [Msg("M_NT_REQ_FORCE_LOGOFF", m.u) EXCEPT !.v = m.v]
             b == IF infoCur[m.u] = NoShard THEN Silent ELSE To(infoCur[m.u], out)
  <2>1. Pending(SS, LS, "M_NT_REQ_FORCE_LOGOFF") /\ Receive(SS, LS, To(SS, out) \oplus b)
    BY <1>4 DEF LSForceLogoff
  <2>2. m.u \in Users /\ m.v \in Nat
    BY <1>0, <2>1, LSHeadTyped
  <2>3. out \in Plain /\ out \in Message
    <3> HIDE DEF m
    <3> QED
      BY <1>0, <2>2, PlainMsg, LSPlainOK, NullsTyped DEF Plain
  <2> HIDE DEF out, m
  <2>4. \A d : Carries(To(d, out), Plain)
    BY <2>3, CarriesTo
  <2>5. Carries(b, Plain)
    BY <1>0, <2>4
  <2> HIDE DEF b
  <2>6. Carries(To(SS, out) \oplus b, Plain)
    BY <2>4, <2>5, CarriesBoth
  <2>7. QED
    BY <1>0, <2>1, <2>6
<1>5. CASE LSRemovedPendingCookie(s)
  BY <1>0, <1>5 DEF LSRemovedPendingCookie
<1>6. CASE LSReviseLogoff(s)
  <2> DEFINE ok(fails)  == LogoffResult(dbOnline[u], s, fails) \in {"ERR_NOERR", "ERR_ALREADYOFFLINE"}
             a(fails) == IF ok(fails) THEN Silent ELSE ToSS("M_SC_FAIL", u)
             b(fails) == IF ok(fails) /\ abnormal[u] THEN ToSS("M_SC_SHARDS", u) ELSE Silent
  <2>1. Pending(s, LS, "M_LS_RELOGOFF")
    BY <1>6 DEF LSReviseLogoff
  <2>2. PICK fails \in BOOLEAN : Receive(s, LS, a(fails) \oplus b(fails))
    BY <1>6 DEF LSReviseLogoff
  <2>3. u \in Users
    BY <1>0, <2>1, LSHeadTyped
  <2>4. Carries(ToSS("M_SC_FAIL", u), Plain) /\ Carries(ToSS("M_SC_SHARDS", u), Plain)
    BY <1>0, <2>3, PlainToSS
  <2>5. Carries(a(fails), Plain) /\ Carries(b(fails), Plain)
    BY <1>0, <2>4
  <2> HIDE DEF a, b
  <2>6. Carries(a(fails) \oplus b(fails), Plain)
    BY <2>5, CarriesBoth
  <2>7. QED
    BY <1>0, <2>1, <2>2, <2>6
<1>7. CASE LSClientMustWait(s)
  BY <1>0, <1>7 DEF LSClientMustWait
<1>8. CASE LSClientConnected(s)
  <2>1. /\ Pending(s, LS, "M_CLIENT_CONNECT_STATUS")
        /\ Receive(s, LS, AdmitOutbox(u, s, n.fsSid, 1))
    BY <1>8 DEF LSClientConnected
  <2>2. u \in Users /\ n.fsSid \in FesOrNone
    BY <1>0, <2>1, LSHeadTyped
  <2>3. Carries(AdmitOutbox(u, s, n.fsSid, 1), Plain)
    BY <1>0, <2>2, PlainAdmitOutbox
  <2>4. QED
    BY <1>0, <2>1, <2>3
<1>9. CASE LSClientDisconnected(s)
  <2> DEFINE cur  == IF abnormal[u] /\ infoCur[u] = NoShard THEN LoadedShard(u)
                                                            ELSE infoCur[u]
             home == moving[u] = NoMove /\ cur \notin {NoShard, MainShard[u]}
             a    == LogoffOutbox(u)
             b    == IF home THEN MoveRequest(u, cur, MainShard[u]) ELSE Silent
  <2>1. /\ Pending(s, LS, "M_CLIENT_CONNECT_STATUS") /\ Receive(s, LS, a \oplus b)
    BY <1>9 DEF LSClientDisconnected
  <2>2. u \in Users
    BY <1>0, <2>1, LSHeadTyped
  <2>3. cur \in ShardOrNone /\ MainShard[u] \in ShardOrNone
    BY <1>0, <2>2, NetIsTyped, NullsTyped DEF LSTyped, LoadedShard
  <2> HIDE DEF cur, u
  <2>4. Carries(a, Plain) /\ Carries(b, Plain)
    BY <1>0, <2>2, <2>3, PlainLogoffOutbox, PlainMoveRequest
  <2> HIDE DEF a, b
  <2>5. Carries(a \oplus b, Plain)
    BY <2>4, CarriesBoth
  <2>6. QED
    BY <1>0, <2>1, <2>5
<1>10. CASE LSClientHandedOver(s)
  <2> DEFINE w == waiting[u]
             a == LogoffOutbox(u)
             b == AdmitOutbox(u, w.s, w.f, 0)
  <2>1. /\ Pending(s, LS, "M_CLIENT_CONNECT_STATUS") /\ Receive(s, LS, a \oplus b)
    BY <1>10 DEF LSClientHandedOver
  <2>2. u \in Users
    BY <1>0, <2>1, LSHeadTyped
  <2>3. w.s \in ShardOrNone /\ w.f \in FesOrNone
    BY <1>0, <2>2 DEF LSTypeOK, Place
  <2> HIDE DEF w, u
  <2>4. Carries(a, Plain) /\ Carries(b, Plain)
    BY <1>0, <2>2, <2>3, PlainLogoffOutbox, PlainAdmitOutbox
  <2> HIDE DEF a, b
  <2>5. Carries(a \oplus b, Plain)
    BY <2>4, CarriesBoth
  <2>6. QED
    BY <1>0, <2>1, <2>5
<1>11. CASE LSMoveDataEnd(s)
  <2> DEFINE mv  == moving[u]
             leg == FirstLeg(mv, s)
             end == mv # NoMove /\ ~leg
             out == IF leg THEN MoveRequest(u, s, mv.to)
                    ELSE IF end /\ mv.reason = 1 /\ infoCur[u] # NoShard
                         THEN EnterShardOk(u, s, mv.f) ELSE Silent
  <2>1. /\ Pending(s, LS, "M_NT_MOVE_USER_DATA_END") /\ Receive(s, LS, out)
    BY <1>11 DEF LSMoveDataEnd
  <2>2. u \in Users
    BY <1>0, <2>1, LSHeadTyped
  <2>3. mv.to \in ShardOrNone /\ mv.f \in FesOrNone
    BY <1>0, <2>2 DEF LSTypeOK, Move
  <2>4. Carries(out, Plain)
    <3> HIDE DEF mv, u, leg, end
    <3> QED
      BY <1>0, <2>2, <2>3, PlainMoveRequest, PlainEnterShardOk
  <2> HIDE DEF out
  <2>5. QED
    BY <1>0, <2>1, <2>4
<1>12. QED
  BY <1>1, <1>2, <1>3, <1>4, <1>5, <1>6, <1>7, <1>8, <1>9, <1>10, <1>11

(* A message that is on a link and opens a shard has offered its cookie.   *)
LEMMA OpenedOffers ==
  ASSUME NetTyped, NEW src, NEW me, <<src, me>> \in Links, NEW kind, Pending(src, me, kind)
  PROVE  LET m == Head(net[<<src, me>>])
         IN  Opening(m) => Offered(m.ck)
<1> DEFINE l == <<src, me>>
           q == net[l]
<1>1. q \in Seq(Message) /\ q # << >>
  BY DEF NetTyped, Pending
<1>2. 1 \in DOMAIN q /\ Head(q) = q[1]
  <2> HIDE DEF q
  <2> QED
    BY <1>1, PositionsRead
<1>3. QED
  BY <1>2 DEF Offered

(* The LS passes on the answer of a front end as it is. *)
LEMMA LSAnswerCalm ==
  ASSUME LSTyped, NEW s \in Shards, LSShardAnswer(s)
  PROVE  \E outs : Calm(LS, outs)
<1> DEFINE m == Head(net[<<s, LS>>])
           req == changeReq[m.u]
           ans == [m EXCEPT !.kind = "M_SC_CHANGE_SHARD_ANS", !.fsSid = req.f]
<1>0. s \in Shards \cup {SS}
  OBVIOUS
<1>1. Pending(s, LS, "M_ENTER_SHARD_ANSWER")
  BY DEF LSShardAnswer
<1>2. /\ m \in Message /\ m.u \in Users /\ NetTyped /\ <<s, LS>> \in Links
      /\ m.kind = "M_ENTER_SHARD_ANSWER"
  BY <1>0, <1>1, LSHeadTyped, PendingTyped
<1>3. Opening(m) => Offered(m.ck)
  BY <1>1, <1>2, OpenedOffers
<1>4. req \in Place
  BY <1>2 DEF LSTyped, LSTypeOK
<1>5. \/ Receive(s, LS, To(SS, m))
      \/ Receive(s, LS, To(req.s, ans))
      \/ Receive(s, LS, Silent)
  BY DEF LSShardAnswer
<1> HIDE DEF m, req
<1>6. ans \in Message /\ ans.kind = "M_SC_CHANGE_SHARD_ANS" /\ ans.v = m.v /\ ans.ck = m.ck
  <2>1. req.f \in FesOrNone
    BY <1>4 DEF Place
  <2>2. QED
    BY <1>2, <2>1 DEF Message, Kinds, Answers
<1> HIDE DEF ans
<1>7. m \in Mild(LS) /\ ans \in Mild(LS)
  BY <1>2, <1>3, <1>6 DEF Mild, Asks, Opening, Answers
<1>8. Carries(To(SS, m), Mild(LS)) /\ Carries(To(req.s, ans), Mild(LS)) /\ Carries(Silent, Mild(LS))
  BY <1>2, <1>6, <1>7, CarriesTo, CarriesSilent
<1>9. QED
  BY <1>1, <1>2, <1>5, <1>8, ReceiveCalm

(* But for a new cookie every step of the LS is calm. *)
LEMMA LSCalm ==
  ASSUME LSTyped, Unchanging, LSNext, ~LSChooseShard
  PROVE  lastKey' = lastKey /\ \E outs : Calm(LS, outs)
<1>0. NetTyped
  BY NetIsTyped DEF LSTyped
<1>1. ASSUME NEW s \in Shards,
             \/ LSShardsList \/ LSChooseShardRefused \/ LSDisconnectClient \/ LSForceLogoff
             \/ LSRemovedPendingCookie(s) \/ LSReviseLogoff(s) \/ LSClientMustWait(s)
             \/ LSClientConnected(s) \/ LSClientDisconnected(s) \/ LSClientHandedOver(s)
             \/ LSMoveDataEnd(s)
      PROVE  lastKey' = lastKey /\ \E outs : Calm(LS, outs)
  <2>1. lastKey' = lastKey
    BY <1>1 DEF LSShardsList, LSChooseShardRefused, LSDisconnectClient, LSForceLogoff,
                LSRemovedPendingCookie, LSReviseLogoff, LSClientMustWait, LSClientConnected,
                LSClientDisconnected, LSClientHandedOver, LSMoveDataEnd, lsVars
  <2>2. PICK src \in Shards \cup {SS} : \E kind, outs :
          Pending(src, LS, kind) /\ Carries(outs, Plain) /\ Receive(src, LS, outs)
    BY <1>1, LSPlainSteps
  <2>3. <<src, LS>> \in Links
    BY LinksAre
  <2>4. QED
    BY <1>0, <2>1, <2>2, <2>3, PlainMild, ReceiveCalm
<1>2. ASSUME NEW s \in Shards, LSShardAnswer(s)
      PROVE  lastKey' = lastKey /\ \E outs : Calm(LS, outs)
  BY <1>2, LSAnswerCalm DEF LSShardAnswer
<1>3. ASSUME NEW s \in Shards
      PROVE  ~LSChangeShardReq(s)
  <2> SUFFICES ASSUME Pending(s, LS, "M_CS_CHANGE_SHARD_REQ")
               PROVE  FALSE
    BY DEF LSChangeShardReq
  <2> DEFINE l == <<s, LS>>
             q == net[l]
  <2>1. l \in Links
    BY LinksAre
  <2>2. q \in Seq(Message) /\ q # << >> /\ Head(q).kind = "M_CS_CHANGE_SHARD_REQ"
    BY <1>0, <2>1 DEF NetTyped, Pending
  <2>3. 1 \in DOMAIN q /\ Head(q) = q[1]
    <3> HIDE DEF q
    <3> QED
      BY <2>2, PositionsRead
  <2>4. QED
    BY <2>1, <2>2, <2>3 DEF Unchanging
<1>4. ASSUME NEW u \in Users, LSMoveTimeout(u)
      PROVE  lastKey' = lastKey /\ \E outs : Calm(LS, outs)
  BY <1>0, <1>4, StillCalm DEF LSMoveTimeout, netVars
<1>5. CASE LSShardsList \/ LSChooseShardRefused \/ LSDisconnectClient \/ LSForceLogoff
  <2>1. PICK u \in Users : TRUE
    BY SomeUser
  <2>2. MainShard[u] \in Shards
    BY PlacesOK
  <2>3. QED
    BY <1>1, <1>5, <2>2
<1>6. QED
  BY <1>1, <1>2, <1>3, <1>4, <1>5 DEF LSNext

(* A cookie the LS makes is new: its key is greater than any before.       *)
LEMMA LSChooseShardKeeps ==
  ASSUME LSTyped, NetTyped', NewCookies, LSChooseShard, OffersKept
  PROVE  NewCookies'
<1> DEFINE l == <<SS, LS>>
           m == Head(net[l])
           ck == [key |-> lastKey + 1, sock |-> m.v]
           out == [Msg("M_ENTER_SHARD_REQUEST", m.u) EXCEPT !.ck = ck]
           d == [k \in Links |-> IF k = l THEN 1 ELSE 0]
<1>1. /\ Pending(SS, LS, "M_ENTER_SHARD_REQUEST") /\ lastKey' = lastKey + 1
      /\ Receive(SS, LS, To(m.s, out))
  BY DEF LSChooseShard
<1>2. /\ m.u \in Users /\ m.v \in Nat /\ NetTyped /\ l \in Links
  BY <1>1, LSHeadTyped
<1>3. lastKey \in Nat
  BY DEF LSTyped, LSTypeOK
<1>4. ck \in Cookie /\ ck.key = lastKey + 1
  BY <1>2, <1>3 DEF Cookie
<1> HIDE DEF m, ck
<1>5. out \in Message /\ out.kind = "M_ENTER_SHARD_REQUEST" /\ out.ck = ck
  <2>1. "M_ENTER_SHARD_REQUEST" \in LSKinds
    BY DEF LSKinds
  <2>2. out \in Message
    BY <1>2, <1>4, <2>1, MsgTyped, LSKindsOK, NullsTyped
  <2>3. QED
    BY <2>2 DEF Msg
<1> HIDE DEF out
<1>6. out \in Asks /\ To(m.s, out) \in Outbox
  BY <1>5, ToTyped DEF Asks
<1>7. d \in [Links -> {0, 1}] /\ Passes(d, LS, To(m.s, out))
  <2>1. net[<<SS, LS>>] # << >>
    BY <1>1 DEF Pending
  <2>2. QED
    BY <1>1, <1>2, <1>6, <2>1, ReceivePasses
<1> HIDE DEF d
<1>8. ASSUME NEW k \in Links, NEW i \in DOMAIN net[k], Asked(k, i)
      PROVE  net[k][i].ck # out.ck
  <2>1. net[k][i].ck.key <= lastKey /\ net[k][i].ck \in Cookie
    BY <1>2, <1>8, PositionsTyped DEF NewCookies, NotOffered, NetTyped
  <2>2. net[k][i].ck.key \in Nat
    BY <2>1 DEF Cookie
  <2>3. QED
    BY <1>3, <1>4, <1>5, <2>1, <2>2
<1>9. Lone(d, out.ck)
  BY <1>8 DEF Lone
<1>10. ~Offered(out.ck)
  <2>1. SUFFICES ASSUME Offered(ck) PROVE FALSE
    BY <1>5
  <2>2. ck.key <= lastKey
    BY <1>4, <2>1 DEF NewCookies, Issued
  <2>3. QED
    BY <1>3, <1>4, <2>2
<1>11. /\ lastKey' \in Nat /\ out.ck.key \in Nat /\ out.ck.key <= lastKey' /\ lastKey <= lastKey'
  BY <1>1, <1>3, <1>4, <1>5
<1>12. QED
  BY <1>2, <1>3, <1>6, <1>7, <1>9, <1>10, <1>11, AskKeepsCookies

(* The head of a link is a request nobody else makes.                      *)
LEMMA HeadIsLone ==
  ASSUME NetTyped, NewCookies, NEW l \in Links, l # <<SS, LS>>,
         net[l] # << >>, Head(net[l]).kind = "M_ENTER_SHARD_REQUEST",
         NEW d, d = [k \in Links |-> IF k = l THEN 1 ELSE 0]
  PROVE  /\ Head(net[l]) \in Asks /\ Lone(d, Head(net[l]).ck) /\ ~Offered(Head(net[l]).ck)
         /\ Head(net[l]).ck \in Cookie /\ Head(net[l]).ck.key <= lastKey
         /\ \A o \in Cookie : Offered(o) => o # Head(net[l]).ck
<1> DEFINE q == net[l]
           m == Head(q)
<1>1. q \in Seq(Message) /\ q # << >>
  BY DEF NetTyped
<1>2. 1 \in DOMAIN q /\ m = q[1] /\ m \in Message
  <2> HIDE DEF q
  <2> QED
    BY <1>1, PositionsRead
<1>3. m \in Asks /\ m.ck \in Cookie
  BY <1>2, MessageIs DEF Asks
<1>4. Asked(l, 1)
  BY <1>2, <1>3 DEF Asked
<1>5. /\ m.ck.key <= lastKey
      /\ \A ck \in Cookie : Offered(ck) => m.ck # ck
  BY <1>2, <1>4 DEF NewCookies, NotOffered
<1>6. Lone(d, m.ck)
  <2> SUFFICES ASSUME NEW k \in Links, NEW i \in DOMAIN net[k], i > d[k], Asked(k, i),
                      net[k][i].ck = m.ck
               PROVE  FALSE
    BY DEF Lone
  <2>1. k = l /\ i = 1
    BY <1>2, <1>4 DEF NewCookies, OnceAsked
  <2>2. d[k] = 1
    BY <2>1
  <2>3. QED
    BY <2>1, <2>2
<1>7. QED
  BY <1>3, <1>5, <1>6

LEMMA WSChooseShardKeeps ==
  ASSUME WSTyped, NetTyped', NewCookies, lastKey \in Nat, lastKey' = lastKey, OffersKept,
         NEW s \in Shards, WSChooseShard(s)
  PROVE  NewCookies'
<1> DEFINE l == <<LS, s>>
           m == Head(net[l])
           d == [k \in Links |-> IF k = l THEN 1 ELSE 0]
<1>1. Pending(LS, s, "M_ENTER_SHARD_REQUEST") /\ \E f : Receive(LS, s, To(f, m))
  BY DEF WSChooseShard
<1>2. PICK f : Receive(LS, s, To(f, m))
  BY <1>1
<1>3. l \in Links /\ l # <<SS, LS>> /\ NetTyped /\ net[l] # << >>
      /\ m.kind = "M_ENTER_SHARD_REQUEST"
  BY <1>1, LinksAre, NodesDistinct DEF WSTyped, Pending
<1>4. /\ m \in Asks /\ Lone(d, m.ck) /\ ~Offered(m.ck)
      /\ m.ck \in Cookie /\ m.ck.key <= lastKey
  BY <1>3, HeadIsLone
<1> HIDE DEF m
<1>5. m \in Message /\ To(f, m) \in Outbox
  BY <1>4, ToTyped DEF Asks
<1>6. d \in [Links -> {0, 1}] /\ Passes(d, s, To(f, m))
  BY <1>2, <1>3, <1>5, ReceivePasses
<1> HIDE DEF d
<1>7. m.ck.key \in Nat
  BY <1>4 DEF Cookie
<1>8. lastKey' \in Nat /\ m.ck.key <= lastKey' /\ lastKey <= lastKey'
  BY <1>4
<1>9. QED
  BY <1>3, <1>4, <1>6, <1>7, <1>8, AskKeepsCookies

(* What a WS does otherwise with a message of a front end is calm.         *)
LEMMA WSFromFESCalm ==
  ASSUME WSTyped, Unchanging, NEW g \in Fess,
         WSShardAnswer(g) \/ WSLoginClient(g) \/ WSLogoffClient(g)
           \/ WSRemovedPendingCookie(g) \/ WSChangeShardReq(g)
  PROVE  \E me, outs : Calm(me, outs)
<1> DEFINE s == ShardOf[g]
           l == <<g, s>>
           m == Head(net[l])
<1>0. /\ NetTyped /\ s \in Shards /\ l \in Links /\ g \in FesOrNone
      /\ {"M_CLIENT_DISCONNECT", "M_CLIENT_CONNECT_STATUS", "M_LOGIN_SERVER_RPC"}
           \subseteq PlainKinds
  BY LinksAre, PlacesOK DEF WSTyped, FesOrNone, PlainKinds, Kinds, Answers
<1>1. ASSUME NEW kind, Pending(g, s, kind), NEW outs, Carries(outs, Plain), Receive(g, s, outs)
      PROVE  Calm(s, outs)
  BY <1>0, <1>1, PlainMild, ReceiveCalm
<1>2. CASE WSShardAnswer(g)
  <2>1. Pending(g, s, "M_ENTER_SHARD_ANSWER") /\ Receive(g, s, To(LS, m))
    BY <1>2 DEF WSShardAnswer
  <2>2. m \in Message /\ m.kind = "M_ENTER_SHARD_ANSWER" /\ (Opening(m) => Offered(m.ck))
    BY <1>0, <2>1, PendingTyped, OpenedOffers
  <2>3. m \in Mild(s)
    BY <2>2 DEF Mild, Asks
  <2> HIDE DEF m
  <2>4. Carries(To(LS, m), Mild(s))
    BY <2>2, <2>3, CarriesTo
  <2>5. QED
    BY <1>0, <2>1, <2>4, ReceiveCalm
<1>3. CASE WSLoginClient(g)
  <2> DEFINE no == Msg("M_CLIENT_DISCONNECT", m.u)
             yes == [m EXCEPT !.fsSid = g]
  <2>1. /\ Pending(g, s, "M_CLIENT_CONNECT_STATUS")
        /\ Receive(g, s, To(g, no)) \/ Receive(g, s, To(LS, yes))
    BY <1>3 DEF WSLoginClient
  <2>2. m \in Message /\ m.u \in Users /\ m.kind = "M_CLIENT_CONNECT_STATUS"
    BY <1>0, <2>1, PendingTyped, MessageIs
  <2>3. no \in Plain /\ yes \in Plain
    <3> HIDE DEF m
    <3>1. no \in Plain
      BY <1>0, <2>2, PlainMsg, NullsTyped
    <3>2. yes \in Plain
      BY <1>0, <2>2 DEF Message, Answers, Plain
    <3>3. QED
      BY <3>1, <3>2
  <2> HIDE DEF no, yes
  <2>4. Carries(To(g, no), Plain) /\ Carries(To(LS, yes), Plain)
    BY <2>3, CarriesTo DEF Plain
  <2>5. QED
    BY <1>1, <2>1, <2>4
<1>4. CASE WSLogoffClient(g)
  BY <1>1, <1>4, CarriesSilent DEF WSLogoffClient
<1>5. CASE WSRemovedPendingCookie(g)
  <2>1. /\ Pending(g, s, "M_LOGIN_SERVER_RPC") /\ Receive(g, s, To(LS, m))
    BY <1>5 DEF WSRemovedPendingCookie
  <2>2. m \in Plain
    BY <1>0, <2>1, PendingTyped DEF Plain
  <2> HIDE DEF m
  <2>3. Carries(To(LS, m), Plain)
    BY <2>2, CarriesTo DEF Plain
  <2>4. QED
    BY <1>1, <2>1, <2>3
<1>6. CASE WSChangeShardReq(g)
  <2>1. Pending(g, s, "M_CS_CHANGE_SHARD_REQ")
    BY <1>6 DEF WSChangeShardReq
  <2> DEFINE q == net[l]
  <2>2. q \in Seq(Message) /\ q # << >> /\ Head(q).kind = "M_CS_CHANGE_SHARD_REQ"
    BY <1>0, <2>1 DEF NetTyped, Pending
  <2>3. 1 \in DOMAIN q /\ Head(q) = q[1]
    <3> HIDE DEF q
    <3> QED
      BY <2>2, PositionsRead
  <2>4. QED
    BY <1>0, <2>2, <2>3 DEF Unchanging
<1>7. QED
  BY <1>2, <1>3, <1>4, <1>5, <1>6

(* ... and so is what it does for the LS, another WS or a finished query.  *)
LEMMA WSOtherCalm ==
  ASSUME WSTyped, NEW s \in Shards,
         \/ WSNoFrontend(s) \/ WSDisconnectClient(s) \/ WSForceLogoff(s)
         \/ WSRelayToFES(s) \/ WSMoveUserDataReq(s) \/ WSQueryDone(s)
         \/ \E from \in Shards \ {s} : WSSendUserData(from, s)
  PROVE  \E me, outs : Calm(me, outs)
<1> DEFINE l == <<LS, s>>
           m == Head(net[l])
<1>0. /\ NetTyped /\ l \in Links /\ Carries(Silent, Plain)
      /\ {"M_CLIENT_DISCONNECT", "M_CLIENT_CONNECT_STATUS", "M_LS_RELOGOFF",
          "M_NT_SEND_USER_DATA", "M_NT_MOVE_USER_DATA_END", "M_ENTER__SHARD"}
           \subseteq PlainKinds
  BY LinksAre, CarriesSilent DEF WSTyped, PlainKinds, Kinds, Answers
<1>1. ASSUME NEW kind, Pending(LS, s, kind), NEW outs, Carries(outs, Plain), Receive(LS, s, outs)
      PROVE  Calm(s, outs)
  BY <1>0, <1>1, PlainMild, ReceiveCalm
<1>2. CASE WSNoFrontend(s)
  <2> DEFINE ans == [m EXCEPT !.kind = "M_ENTER_SHARD_ANSWER", !.v = 1]
  <2>1. /\ Pending(LS, s, "M_ENTER_SHARD_REQUEST") /\ Receive(LS, s, To(LS, ans))
    BY <1>2 DEF WSNoFrontend
  <2>2. m \in Message
    BY <1>0, <2>1, PendingTyped
  <2>3. ans \in Message /\ ans.kind = "M_ENTER_SHARD_ANSWER" /\ ans.v = 1
    <3> HIDE DEF m
    <3>1. "M_ENTER_SHARD_ANSWER" \in Kinds /\ 1 \in Nat \ {0}
      BY DEF Kinds
    <3>2. ans \in Message
      BY <2>2, <3>1, RefusalTyped
    <3>3. QED
      BY <2>2, <3>2 DEF Message
  <2> HIDE DEF ans
  <2>4. ans \in Mild(s)
    BY <2>3 DEF Mild, Asks, Opening
  <2>5. Carries(To(LS, ans), Mild(s))
    BY <2>3, <2>4, CarriesTo
  <2>6. QED
    BY <1>0, <2>1, <2>5, ReceiveCalm
<1>3. CASE WSDisconnectClient(s) \/ WSForceLogoff(s)
  <2> DEFINE no == Msg("M_CLIENT_DISCONNECT", m.u)
  <2>1. /\ \/ Pending(LS, s, "M_CLIENT_DISCONNECT")
           \/ Pending(LS, s, "M_NT_REQ_FORCE_LOGOFF")
        /\ Receive(LS, s, DisconnectClient(s, m.u))
    BY <1>3 DEF WSDisconnectClient, WSForceLogoff
  <2>2. m.u \in Users
    BY <1>0, <2>1, PendingTyped, MessageIs
  <2>3. no \in Plain /\ no \in Message
    <3> HIDE DEF m
    <3> QED
      BY <1>0, <2>2, PlainMsg, NullsTyped DEF Plain
  <2>4. DisconnectClient(s, m.u) = IF wsAssoc[s][m.u] = NoFes THEN Silent
                                   ELSE To(wsAssoc[s][m.u], no)
    BY DEF DisconnectClient
  <2> HIDE DEF no, m
  <2>5. Carries(To(wsAssoc[s][m.u], no), Plain)
    BY <2>3, CarriesTo
  <2>6. Carries(DisconnectClient(s, m.u), Plain)
    BY <1>0, <2>4, <2>5
  <2>7. QED
    BY <1>1, <2>1, <2>6
<1>4. CASE WSRelayToFES(s)
  <2> DEFINE out == IF m.fsSid = NoFes THEN Silent ELSE To(m.fsSid, m)
  <2>1. /\ \/ Pending(LS, s, "M_ENTER__SHARD")
           \/ Pending(LS, s, "M_SC_CHANGE_SHARD_ANS")
        /\ Receive(LS, s, out)
    BY <1>4 DEF WSRelayToFES
  <2>2. /\ m \in Message /\ m.kind \in {"M_ENTER__SHARD", "M_SC_CHANGE_SHARD_ANS"}
        /\ Opening(m) => Offered(m.ck)
    BY <1>0, <2>1, PendingTyped, OpenedOffers
  <2>3. m \in Mild(s)
    BY <2>2 DEF Mild, Asks
  <2> HIDE DEF m
  <2>4. Carries(out, Mild(s))
    BY <2>2, <2>3, CarriesTo, CarriesSilent
  <2> HIDE DEF out
  <2>5. QED
    BY <1>0, <2>1, <2>4, ReceiveCalm
<1>5. CASE WSMoveUserDataReq(s)
  BY <1>0, <1>1, <1>5 DEF WSMoveUserDataReq
<1>6. CASE WSQueryDone(s)
  <2>1. PICK i \in DOMAIN jobs[s], fails \in BOOLEAN :
          Emit(s, IF fails THEN Silent ELSE JobOutbox(s, jobs[s][i]))
    BY <1>6 DEF WSQueryDone
  <2> DEFINE j == jobs[s][i]
             out == IF fails THEN Silent ELSE JobOutbox(s, j)
  <2>2. j \in Job
    BY LenProperties, ElementOfSeq DEF WSTyped, WSTypeOK
  <2>3. /\ j.u \in Users /\ data[s][j.u] \in Nat
        /\ j.job \in {"FamilyLogout", "ForcedLogout", "GetUserMoveData"}
    BY <2>2 DEF Job, WSTyped, WSTypeOK
  <2> HIDE DEF j
  <2>4. \E n : \E e \in Plain : JobOutbox(s, j) = To(n, e)
    <3>1. /\ Msg("M_CLIENT_CONNECT_STATUS", j.u) \in Plain /\ Msg("M_LS_RELOGOFF", j.u) \in Plain
          /\ [Msg("M_NT_SEND_USER_DATA", j.u) EXCEPT !.v = data[s][j.u]] \in Plain
      BY <1>0, <2>3, PlainMsg, NullsTyped
    <3>2. CASE j.job = "FamilyLogout"
      BY <3>1, <3>2 DEF JobOutbox
    <3>3. CASE j.job = "ForcedLogout"
      BY <3>1, <3>3 DEF JobOutbox
    <3>4. CASE j.job = "GetUserMoveData"
      BY <3>1, <3>4 DEF JobOutbox
    <3>5. QED
      BY <2>3, <3>2, <3>3, <3>4
  <2>5. Carries(JobOutbox(s, j), Plain)
    BY <2>4, CarriesTo DEF Plain
  <2>6. Carries(out, Plain) /\ Emit(s, out)
    BY <1>0, <2>1, <2>5 DEF j
  <2> HIDE DEF out
  <2>7. QED
    BY <1>0, <2>6, PlainMild, EmitCalm
<1>7. ASSUME NEW from \in Shards \ {s}, WSSendUserData(from, s)
      PROVE  \E me, outs : Calm(me, outs)
  <2> DEFINE u  == Head(net[<<from, s>>]).u
             out == Msg("M_NT_MOVE_USER_DATA_END", u)
  <2>1. /\ Pending(from, s, "M_NT_SEND_USER_DATA") /\ Receive(from, s, To(LS, out))
    BY <1>7 DEF WSSendUserData
  <2>2. u \in Users /\ <<from, s>> \in Links
    BY <1>0, <2>1, LinksAre, PendingTyped, MessageIs
  <2>3. out \in Plain
    BY <1>0, <2>2, PlainMsg, NullsTyped
  <2> HIDE DEF out
  <2>4. Carries(To(LS, out), Plain)
    BY <2>3, CarriesTo DEF Plain
  <2>5. QED
    BY <1>0, <2>1, <2>2, <2>4, PlainMild, ReceiveCalm
<1>8. QED
  BY <1>2, <1>3, <1>4, <1>5, <1>6, <1>7

(* Every step of a WS keeps the cookies new. *)
LEMMA WSKeepsCookies ==
  ASSUME WSTyped, NetTyped', NewCookies, lastKey \in Nat, lastKey' = lastKey, OffersKept, WSNext
  PROVE  NewCookies'
<1>0. NetTyped /\ Unchanging
  BY DEF WSTyped, NewCookies
<1>1. CASE \E s \in Shards : WSChooseShard(s)
  BY <1>1, WSChooseShardKeeps
<1>2. CASE \E g \in Fess :
             \/ WSShardAnswer(g) \/ WSLoginClient(g) \/ WSLogoffClient(g)
             \/ WSRemovedPendingCookie(g) \/ WSChangeShardReq(g)
  BY <1>0, <1>2, WSFromFESCalm, CalmKeepsCookies
<1>3. CASE \E s \in Shards :
             \/ WSNoFrontend(s) \/ WSDisconnectClient(s) \/ WSForceLogoff(s)
             \/ WSRelayToFES(s) \/ WSMoveUserDataReq(s) \/ WSQueryDone(s)
             \/ \E from \in Shards \ {s} : WSSendUserData(from, s)
  BY <1>0, <1>3, WSOtherCalm, CalmKeepsCookies
<1>4. QED
  BY <1>1, <1>2, <1>3 DEF WSNext

-----------------------------------------------------------------------------
(* The cookies in the receive queue of a front end.                        *)

Shows(q, ck) == \E i \in DOMAIN q : q[i].ev = "validation" /\ q[i].ck = ck

(* Reading the queue, or advertising a disconnection, shows no new cookie. *)
LEMMA TailShows ==
  ASSUME NEW q \in Seq(Event), q # << >>, NEW ck, Shows(Tail(q), ck)
  PROVE  Shows(q, ck)
<1> DEFINE t == Tail(q)
<1>1. \A i \in DOMAIN t : i + 1 \in DOMAIN q /\ t[i] = q[i + 1]
  BY PositionsRead
<1>2. PICK i \in DOMAIN t : t[i].ev = "validation" /\ t[i].ck = ck
  BY DEF Shows
<1> HIDE DEF t
<1>3. QED
  BY <1>1, <1>2 DEF Shows

LEMMA AdvertisedShows ==
  ASSUME FSTyped, NEW f \in Fess, NEW q \in Seq(Event), NEW k, NEW ck,
         Shows(Advertised(f, q, k), ck)
  PROVE  Shows(q, ck)
<1> DEFINE e == Disconnection(k)
           r == Append(q, e)
<1>1. CASE Advertised(f, q, k) = q
  BY <1>1
<1>2. CASE Advertised(f, q, k) = r /\ k \in Conns
  <2>1. e \in Event /\ e.ev = "disconnection"
    BY <1>2, FSNulls DEF Disconnection, Event
  <2> HIDE DEF e
  <2>2. /\ r = q \o <<e>> /\ DOMAIN q = 1..Len(q) /\ Len(q) \in Nat
        /\ DOMAIN (q \o <<e>>) = 1..(Len(q) + 1)
        /\ (q \o <<e>>)[Len(q) + 1] = e
        /\ \A i \in DOMAIN q : (q \o <<e>>)[i] = q[i]
    BY <2>1, PositionsSent
  <2>3. PICK i \in DOMAIN r : r[i].ev = "validation" /\ r[i].ck = ck
    BY <1>2 DEF Shows
  <2>4. i # Len(q) + 1
    BY <2>1, <2>2, <2>3
  <2>5. i \in DOMAIN q
    BY <2>2, <2>3, <2>4
  <2>6. q[i] = r[i]
    BY <2>2, <2>5
  <2>7. QED
    BY <2>3, <2>5, <2>6 DEF Shows
<1>3. QED
  BY <1>1, <1>2 DEF Advertised

(* A step of front end g that hands no address to a client leaves nothing  *)
(* new to show.                                                            *)
LEMMA FESOffersKept ==
  ASSUME FSTyped, NEW g \in Fess,
         \/ FSChooseShard(g) \/ FSDisconnectClient(g) \/ FSEnterShardOk(g)
         \/ FSShardValidation(g) \/ FSInvalidCookie(g)
         \/ FSDisconnected(g) \/ FSRefreshPending(g)
         \/ \E k \in Conns : ClientClose(g, k)
  PROVE  OffersKept
<1>0. events[g] \in Seq(Event) /\ events \in [Fess -> Seq(Event)]
  BY SocketsTyped
<1>1. offers' = offers
  BY DEF FSChooseShard, FSDisconnectClient, FSEnterShardOk, FSShardValidation,
         FSInvalidCookie, FSDisconnected, FSRefreshPending, ClientClose
<1>2. ASSUME NEW ck, Shows(events'[g], ck)
      PROVE  Shows(events[g], ck)
  <2>1. CASE FSChooseShard(g) \/ FSDisconnectClient(g)
    <3>1. PICK u : events' = [events EXCEPT ![g] = Advertised(g, @, assoc[g][u])]
      BY <2>1 DEF FSChooseShard, FSDisconnectClient, DisconnectAccount
    <3>2. events'[g] = Advertised(g, events[g], assoc[g][u])
      BY <1>0, <3>1
    <3>3. QED
      BY <1>0, <1>2, <3>2, AdvertisedShows
  <2>2. CASE FSEnterShardOk(g) \/ FSRefreshPending(g)
    BY <1>2, <2>2 DEF FSEnterShardOk, FSRefreshPending
  <2>3. CASE FSShardValidation(g)
    <3> DEFINE k == assoc[g][conn[g][Head(events[g]).k].u]
               t == Tail(events[g])
    <3>1. events' = [events EXCEPT ![g] = Advertised(g, t, k)] /\ events[g] # << >>
      BY <2>3 DEF FSShardValidation
    <3>2. t \in Seq(Event)
      BY <1>0, <3>1, HeadTailProperties
    <3> HIDE DEF k
    <3>3. Shows(t, ck)
      BY <1>0, <1>2, <3>1, <3>2, AdvertisedShows
    <3>4. QED
      BY <1>0, <3>1, <3>3, TailShows
  <2>4. CASE FSInvalidCookie(g)
    <3> DEFINE j == Head(events[g]).k
               k == assoc[g][conn[g][j].u]
               t == Tail(events[g])
               r == Advertised(g, t, k)
    <3>1. events' = [events EXCEPT ![g] = Advertised(g, r, j)] /\ events[g] # << >>
      BY <2>4 DEF FSInvalidCookie
    <3>2. t \in Seq(Event)
      BY <1>0, <3>1, HeadTailProperties
    <3> HIDE DEF k, j
    <3>3. r \in Seq(Event)
      BY <3>2, AdvertisedTyped
    <3>4. events'[g] = Advertised(g, r, j)
      BY <1>0, <3>1
    <3> HIDE DEF r
    <3>5. Shows(r, ck)
      BY <1>2, <3>3, <3>4, AdvertisedShows
    <3>6. Shows(t, ck)
      BY <3>2, <3>5, AdvertisedShows DEF r
    <3>7. QED
      BY <1>0, <3>1, <3>6, TailShows
  <2>5. CASE FSDisconnected(g)
    <3>1. events' = [events EXCEPT ![g] = Tail(@)] /\ events[g] # << >>
      BY <2>5 DEF FSDisconnected
    <3>2. events'[g] = Tail(events[g])
      BY <1>0, <3>1
    <3>3. QED
      BY <1>0, <1>2, <3>1, <3>2, TailShows
  <2>6. ASSUME NEW k \in Conns, ClientClose(g, k)
        PROVE  Shows(events[g], ck)
    <3>1. events'[g] = Advertised(g, events[g], k)
      BY <1>0, <2>6 DEF ClientClose
    <3>2. QED
      BY <1>0, <1>2, <3>1, AdvertisedShows
  <2>7. QED
    BY <2>1, <2>2, <2>3, <2>4, <2>5, <2>6
<1>3. \A f \in Fess \ {g} : events'[f] = events[f]
  BY OtherSockets
<1>4. ASSUME NEW f \in Fess, NEW i \in DOMAIN events'[f], events'[f][i].ev = "validation"
      PROVE  Offered(events'[f][i].ck)
  <2> DEFINE ck == events'[f][i].ck
  <2>1. Shows(events'[f], ck)
    BY <1>4 DEF Shows
  <2>2. Shows(events[f], ck)
    BY <1>2, <1>3, <2>1
  <2> HIDE DEF ck
  <2>3. Offered(ck)
    BY <2>2 DEF Shows, Offered
  <2>4. QED
    BY <2>3 DEF ck
<1>5. \A u \in Users : \A o \in offers'[u] : Offered(o.ck)
  BY <1>1 DEF Offered
<1>6. QED
  BY <1>4, <1>5 DEF OffersKept

(* A client shows a cookie it has been given.                              *)
LEMMA ClientConnectOffersKept ==
  ASSUME FSTyped, NEW u \in Users, ClientConnect(u)
  PROVE  OffersKept
<1>1. PICK o \in offers[u], k \in Conns :
        /\ offers' = [offers EXCEPT ![u] = @ \ {o}]
        /\ events' = [events EXCEPT ![o.f] =
             Append(@, [ev |-> "validation", k |-> k, ck |-> o.ck])]
  BY DEF ClientConnect
<1> DEFINE e == [ev |-> "validation", k |-> k, ck |-> o.ck]
<1>2. /\ o \in Offer /\ offers \in [Users -> SUBSET Offer] /\ events \in [Fess -> Seq(Event)]
  BY DEF FSTyped, FSTypeOK
<1>3. e \in Event /\ o.f \in Fess /\ e.ck = o.ck
  BY <1>2 DEF Event, Offer
<1>4. \A v \in Users : offers'[v] \subseteq offers[v]
  BY <1>1, <1>2
<1> HIDE DEF e
<1>5. events' = [events EXCEPT ![o.f] = Append(@, e)]
  BY <1>1 DEF e
<1>6. ASSUME NEW f \in Fess, NEW i \in DOMAIN events'[f], events'[f][i].ev = "validation"
      PROVE  Offered(events'[f][i].ck)
  <2> DEFINE q == events[f]
  <2>1. q \in Seq(Event)
    BY <1>2
  <2>2. CASE f # o.f
    <3>1. events'[f] = q
      BY <1>2, <1>5, <2>2
    <3>2. QED
      BY <1>6, <3>1 DEF Offered
  <2>3. CASE f = o.f
    <3>1. events'[f] = Append(q, e)
      BY <1>2, <1>5, <2>3
    <3> HIDE DEF q
    <3>2. /\ Append(q, e) = q \o <<e>> /\ DOMAIN q = 1..Len(q) /\ Len(q) \in Nat
          /\ DOMAIN (q \o <<e>>) = 1..(Len(q) + 1)
          /\ (q \o <<e>>)[Len(q) + 1] = e
          /\ \A j \in DOMAIN q : (q \o <<e>>)[j] = q[j]
      BY <1>3, <2>1, PositionsSent
    <3>3. CASE i = Len(q) + 1
      <4>1. events'[f][i].ck = o.ck
        BY <1>3, <3>1, <3>2, <3>3
      <4>2. QED
        BY <4>1 DEF Offered
    <3>4. CASE i # Len(q) + 1
      <4>1. i \in DOMAIN q
        BY <1>6, <3>1, <3>2, <3>4
      <4>2. events'[f][i] = q[i]
        BY <3>1, <3>2, <4>1
      <4>3. QED
        BY <1>6, <4>1, <4>2 DEF Offered, q
    <3>5. QED
      BY <3>3, <3>4
  <2>4. QED
    BY <2>2, <2>3
<1>7. \A v \in Users : \A p \in offers'[v] : Offered(p.ck)
  BY <1>4 DEF Offered
<1>8. QED
  BY <1>6, <1>7 DEF OffersKept

(* A client is given a cookie that an answer on a link offers.             *)
LEMMA AnswerOffersKept ==
  ASSUME FSTyped, events' = events, NEW m \in Message, Opening(m) => Offered(m.ck), NEW B,
         offers' = [offers EXCEPT ![m.u] =
                      IF B /\ Opening(m) THEN @ \cup {[ck |-> m.ck, f |-> m.f]} ELSE @]
  PROVE  OffersKept
<1>1. offers \in [Users -> SUBSET Offer] /\ m.u \in Users
  BY MessageIs DEF FSTyped, FSTypeOK
<1>2. ASSUME NEW u \in Users, NEW o \in offers'[u]
      PROVE  Offered(o.ck)
  <2>1. o \in offers[u] \/ (Opening(m) /\ o.ck = m.ck)
    BY <1>1, <1>2
  <2>2. QED
    BY <2>1 DEF Offered
<1>3. ASSUME NEW f \in Fess, NEW i \in DOMAIN events'[f], events'[f][i].ev = "validation"
      PROVE  Offered(events'[f][i].ck)
  BY <1>3 DEF Offered
<1>4. QED
  BY <1>2, <1>3 DEF OffersKept

(* A front end that is asked to await a client answers with its cookie.    *)
LEMMA FSChooseShardKeeps ==
  ASSUME FSTyped, NetTyped', NewCookies, lastKey' = lastKey,
         NEW g \in Fess, FSChooseShard(g)
  PROVE  NewCookies'
<1> DEFINE s == ShardOf[g]
           l == <<s, g>>
           m == Head(net[l])
           ans == [m EXCEPT !.kind = "M_ENTER_SHARD_ANSWER", !.f = g, !.v = 0]
           d == [k \in Links |-> IF k = l THEN 1 ELSE 0]
<1>1. /\ Pending(s, g, "M_ENTER_SHARD_REQUEST") /\ Receive(s, g, To(s, ans))
  BY DEF FSChooseShard
<1>2. l \in Links /\ l # <<SS, LS>> /\ NetTyped /\ net[l] # << >>
      /\ m.kind = "M_ENTER_SHARD_REQUEST"
  BY <1>1, LinksAre, NodesDistinct, PlacesOK DEF FSTyped, Pending
<1>3. m \in Asks /\ Lone(d, m.ck) /\ m.ck.key <= lastKey
  BY <1>2, HeadIsLone
<1>4. OffersKept
  BY FESOffersKept
<1> HIDE DEF m
<1>5. ans \in Message /\ Opening(ans) /\ ans.ck = m.ck
  <2>1. m \in Message
    BY <1>3 DEF Asks
  <2>2. ans \in Message
    BY <2>1, OfferTyped
  <2>3. ans.kind = "M_ENTER_SHARD_ANSWER" /\ ans.v = 0 /\ ans.ck = m.ck
    BY <2>1 DEF Message
  <2>4. QED
    BY <2>2, <2>3 DEF Opening, Answers
<1> HIDE DEF ans
<1>6. To(s, ans) \in Outbox
  BY <1>5, ToTyped
<1>7. d \in [Links -> {0, 1}] /\ Passes(d, g, To(s, ans))
  BY <1>1, <1>2, <1>6, ReceivePasses
<1> HIDE DEF d
<1>8. QED
  BY <1>2, <1>3, <1>4, <1>5, <1>7, OfferKeepsCookies

(* Every other step of a front end or of its clients is calm.              *)
LEMMA FESCalm ==
  ASSUME FSTyped, NEW g \in Fess,
         \/ FSDisconnectClient(g) \/ FSEnterShardOk(g) \/ FSChangeShardAns(g)
         \/ FSShardValidation(g) \/ FSInvalidCookie(g)
         \/ FSDisconnected(g) \/ FSRefreshPending(g)
         \/ \E k \in Conns : ClientClose(g, k)
  PROVE  OffersKept /\ \E me, outs : Calm(me, outs)
<1> DEFINE s == ShardOf[g]
           l == <<s, g>>
<1>0. /\ NetTyped /\ l \in Links /\ NoCookie \in Cookie /\ NoShard \in ShardOrNone
      /\ NoFes \in FesOrNone
      /\ {"M_CLIENT_CONNECT_STATUS", "M_LOGIN_SERVER_RPC"} \subseteq PlainKinds
  BY LinksAre, FSNulls DEF FSTyped, PlainKinds, Kinds, Answers
<1>1. ASSUME NEW kind, Pending(s, g, kind), Receive(s, g, Silent)
      PROVE  Calm(g, Silent)
  BY <1>0, <1>1, CarriesSilent, ReceiveCalm
<1>2. ASSUME NEW m \in Plain, Emit(g, To(s, m))
      PROVE  Calm(g, To(s, m))
  BY <1>0, <1>2, CarriesTo, PlainMild, EmitCalm DEF Plain
<1>3. ASSUME net' = net
      PROVE  Calm(g, Silent)
  BY <1>0, <1>3, StillCalm
<1>4. CASE FSDisconnectClient(g) \/ FSEnterShardOk(g)
  BY <1>1, <1>4, FESOffersKept DEF FSDisconnectClient, FSEnterShardOk
<1>5. CASE FSChangeShardAns(g)
  <2> DEFINE m == Head(net[l])
             K == {k \in Conns : /\ conn[g][k].u = m.u
                                 /\ conn[g][k].open /\ conn[g][k].entered}
             B == K # {}
  <2>1. /\ Pending(s, g, "M_SC_CHANGE_SHARD_ANS") /\ Receive(s, g, Silent) /\ events' = events
        /\ offers' = [offers EXCEPT ![m.u] =
             IF B /\ m.v = 0 THEN @ \cup {[ck |-> m.ck, f |-> m.f]} ELSE @]
    BY <1>5 DEF FSChangeShardAns
  <2>2. m \in Message /\ m.kind = "M_SC_CHANGE_SHARD_ANS" /\ (Opening(m) => Offered(m.ck))
    BY <1>0, <2>1, PendingTyped, OpenedOffers
  <2>3. m.v = 0 <=> Opening(m)
    BY <2>2 DEF Opening, Answers
  <2> HIDE DEF m, B
  <2>4. offers' = [offers EXCEPT ![m.u] =
             IF B /\ Opening(m) THEN @ \cup {[ck |-> m.ck, f |-> m.f]} ELSE @]
    BY <2>1, <2>3
  <2>5. OffersKept
    BY <2>1, <2>2, <2>4, AnswerOffersKept
  <2>6. QED
    BY <1>1, <2>1, <2>5
<1>6. CASE FSShardValidation(g)
  <2> DEFINE e == Head(events[g])
             v == conn[g][e.k].u
             out == [Msg("M_CLIENT_CONNECT_STATUS", v) EXCEPT !.v = 1, !.ck = e.ck]
  <2>1. Emit(g, To(s, out)) /\ events[g] # << >>
    BY <1>6 DEF FSShardValidation
  <2>2. v \in Users /\ e.ck \in Cookie
    BY <2>1, EventTyped
  <2> HIDE DEF e, v
  <2>3. out \in Plain
    BY <1>0, <2>2, PlainMsg
  <2> HIDE DEF out
  <2>4. QED
    BY <1>2, <1>6, <2>1, <2>3, FESOffersKept
<1>7. CASE FSInvalidCookie(g) \/ \E k \in Conns : ClientClose(g, k)
  <2>1. net' = net
    BY <1>7 DEF FSInvalidCookie, ClientClose, netVars
  <2>2. QED
    BY <1>3, <1>7, <2>1, FESOffersKept
<1>8. CASE FSDisconnected(g)
  <2> DEFINE k == Head(events[g]).k
             out == Msg("M_CLIENT_CONNECT_STATUS", conn[g][k].u)
  <2>1. events[g] # << >> /\ (net' = net \/ Emit(g, To(s, out)))
    BY <1>8 DEF FSDisconnected, Reported
  <2>2. conn[g][k].u \in Users
    BY <2>1, EventTyped
  <2> HIDE DEF k
  <2>3. out \in Plain
    BY <1>0, <2>2, PlainMsg
  <2> HIDE DEF out
  <2>4. QED
    BY <1>2, <1>3, <1>8, <2>1, <2>3, FESOffersKept
<1>9. CASE FSRefreshPending(g)
  <2>1. PICK p \in pending[g] :
          Emit(g, To(s, [Msg("M_LOGIN_SERVER_RPC", p.u) EXCEPT !.ck = p.ck]))
    BY <1>9 DEF FSRefreshPending
  <2>2. p.u \in Users /\ p.ck \in Cookie
    BY DEF FSTyped, FSTypeOK
  <2>3. [Msg("M_LOGIN_SERVER_RPC", p.u) EXCEPT !.ck = p.ck] \in Plain
    BY <1>0, <2>2, PlainMsg
  <2>4. QED
    BY <1>2, <1>9, <2>1, <2>3, FESOffersKept
<1>10. QED
  BY <1>4, <1>5, <1>6, <1>7, <1>8, <1>9

(* What SS does for a client or the LS is calm: it has no link to a front  *)
(* end.                                                                    *)
LEMMA SSCalm ==
  ASSUME NetTyped, SSNext
  PROVE  Calm(SS, Silent) \/ \E outs : Calm(SS, outs)
<1>0. /\ {"M_SC_SHARDS", "M_NT_REQ_FORCE_LOGOFF", "M_CLIENT_DISCONNECT"} \subseteq PlainKinds
      /\ NoCookie \in Cookie /\ NoShard \in ShardOrNone /\ NoFes \in FesOrNone
      /\ Shards \subseteq ShardOrNone /\ Logins \subseteq Nat /\ <<LS, SS>> \in Links
  BY NullsTyped, LinksAre DEF PlainKinds, Kinds, Answers, ShardOrNone, Logins
<1>1. ASSUME NEW kind \in {"M_SC_SHARDS", "M_CLIENT_DISCONNECT"}, NEW u \in Users,
             Emit(SS, ToLS(kind, u))
      PROVE  \E outs : Calm(SS, outs)
  <2>1. Msg(kind, u) \in Plain /\ Msg(kind, u) \in Message
    BY <1>0, PlainMsg DEF Plain
  <2>2. Carries(ToLS(kind, u), Plain)
    BY <2>1, CarriesTo DEF ToLS
  <2>3. QED
    BY <1>1, <2>2, PlainMild, EmitCalm
<1>2. ASSUME NEW u \in Users, SSUserAuth(u) \/ SSAlreadyOnline(u)
      PROVE  \E outs : Calm(SS, outs)
  BY <1>1, <1>2, StillCalm DEF SSUserAuth, SSAlreadyOnline, netVars
<1>3. ASSUME NEW u \in Users, NEW n \in Logins, SSForceLogin(u, n)
      PROVE  \E outs : Calm(SS, outs)
  <2> DEFINE out == [Msg("M_NT_REQ_FORCE_LOGOFF", u) EXCEPT !.v = n]
  <2>1. Emit(SS, ToLS("M_SC_SHARDS", u)) \/ Emit(SS, To(LS, out))
    BY <1>3 DEF SSForceLogin
  <2>2. out \in Plain
    BY <1>0, PlainMsg
  <2> HIDE DEF out
  <2>3. Carries(To(LS, out), Plain)
    BY <2>2, CarriesTo DEF Plain
  <2>4. QED
    BY <1>1, <2>1, <2>3, PlainMild, EmitCalm
<1>4. ASSUME NEW u \in Users, NEW n \in Logins, SSUserChooseShard(u, n)
      PROVE  \E outs : Calm(SS, outs)
  <2>1. PICK s \in Shards :
          Emit(SS, To(LS, [Msg("M_ENTER_SHARD_REQUEST", u) EXCEPT !.s = s, !.v = n]))
    BY <1>4 DEF SSUserChooseShard
  <2> DEFINE out == [Msg("M_ENTER_SHARD_REQUEST", u) EXCEPT !.s = s, !.v = n]
  <2>2. "M_ENTER_SHARD_REQUEST" \in Kinds \ Answers /\ s \in ShardOrNone /\ n \in Nat
    BY <1>0 DEF Kinds, Answers
  <2>3. out \in Message
    BY <1>0, <2>2, MsgTyped
  <2>4. out.kind = "M_ENTER_SHARD_REQUEST"
    BY DEF Msg
  <2> HIDE DEF out
  <2>5. out \in Mild(SS)
    BY <2>3, <2>4 DEF Mild, Opening, Answers
  <2>6. Carries(To(LS, out), Mild(SS)) /\ Emit(SS, To(LS, out))
    BY <2>1, <2>3, <2>5, CarriesTo DEF out
  <2>7. QED
    BY <2>6, EmitCalm
<1>5. ASSUME NEW u \in Users, NEW n \in Logins, SSUserDisconnection(u, n)
      PROVE  \E outs : Calm(SS, outs)
  <2>1. Emit(SS, ToLS("M_CLIENT_DISCONNECT", u)) \/ net' = net
    BY <1>5 DEF SSUserDisconnection
  <2>2. QED
    BY <1>1, <2>1, StillCalm
<1>6. ASSUME NEW kind, FromLS(kind)
      PROVE  Calm(SS, Silent)
  BY <1>0, <1>6, CarriesSilent, ReceiveCalm DEF FromLS
<1>7. CASE SSDisplayShardList \/ SSForceLogoff \/ SSClientConnected \/ SSFailed
  BY <1>6, <1>7 DEF SSDisplayShardList, SSForceLogoff, SSClientConnected, SSFailed
<1>8. QED
  BY <1>2, <1>3, <1>4, <1>5, <1>7 DEF SSNext

(* SS hands a client the cookie of an answer. *)
LEMMA SSShardAnswerCalm ==
  ASSUME FSTyped, SSShardAnswer
  PROVE  OffersKept /\ Calm(SS, Silent)
<1> DEFINE m == HeadFromLS
           B == player[m.u].con = m.ck.sock
<1>1. /\ Pending(LS, SS, "M_ENTER_SHARD_ANSWER") /\ Receive(LS, SS, Silent) /\ events' = events
      /\ offers' = [offers EXCEPT ![m.u] =
           IF B /\ m.v = 0 THEN @ \cup {[ck |-> m.ck, f |-> m.f]} ELSE @]
  BY DEF SSShardAnswer, FromLS
<1>2. NetTyped /\ <<LS, SS>> \in Links
  BY LinksAre DEF FSTyped
<1>3. m \in Message /\ m.kind = "M_ENTER_SHARD_ANSWER" /\ (Opening(m) => Offered(m.ck))
  BY <1>1, <1>2, PendingTyped, OpenedOffers DEF HeadFromLS
<1>4. m.v = 0 <=> Opening(m)
  BY <1>3 DEF Opening, Answers
<1> HIDE DEF m, B
<1>5. offers' = [offers EXCEPT ![m.u] =
           IF B /\ Opening(m) THEN @ \cup {[ck |-> m.ck, f |-> m.f]} ELSE @]
  BY <1>1, <1>4
<1>6. OffersKept
  BY <1>1, <1>3, <1>5, AnswerOffersKept
<1>7. Calm(SS, Silent)
  BY <1>1, <1>2, CarriesSilent, ReceiveCalm
<1>8. QED
  BY <1>6, <1>7

(* As long as nobody changes shard, a cookie is announced once and before  *)
(* any client has it.                                                      *)
LEMMA NewCookiesKept ==
  ASSUME MaxChanges = 0, TypeOK, TypeOK', NewCookies, [Next]_vars
  PROVE  NewCookies'
<1>0. /\ LSTyped /\ WSTyped /\ FSTyped /\ NetTyped /\ NetTyped' /\ lastKey \in Nat
      /\ Unchanging /\ changes \in Nat
  BY TypeOKIs DEF TypeOK, NetTypeOK, NetTyped, LSTypeOK, NewCookies
<1>1. ASSUME NEW me, NEW outs, Calm(me, outs), OffersKept, lastKey' = lastKey
      PROVE  NewCookies'
  BY <1>0, <1>1, CalmKeepsCookies
<1>2. CASE LSStep
  <2>1. LSNext /\ OffersKept
    BY <1>2, OffersUnchanged DEF LSStep, fsVars
  <2>2. CASE LSChooseShard
    BY <1>0, <2>1, <2>2, LSChooseShardKeeps
  <2>3. CASE ~LSChooseShard
    BY <1>0, <1>1, <2>1, <2>3, LSCalm
  <2>4. QED
    BY <2>2, <2>3
<1>3. CASE WSStep
  <2>1. WSNext /\ OffersKept /\ lastKey' = lastKey
    BY <1>3, OffersUnchanged DEF WSStep, fsVars, lsVars
  <2>2. QED
    BY <1>0, <2>1, WSKeepsCookies
<1>4. CASE FSStep
  <2>1. FSNext /\ lastKey' = lastKey
    BY <1>4 DEF FSStep, lsVars
  <2>2. QED
    BY <1>0, <1>1, <2>1, FSChooseShardKeeps, FESCalm DEF FSNext
<1>5. CASE SSStep
  <2>1. SSNext /\ OffersKept /\ lastKey' = lastKey
    BY <1>5, OffersUnchanged DEF SSStep, fsVars, lsVars
  <2>2. QED
    BY <1>0, <1>1, <2>1, SSCalm
<1>6. CASE SSShardAnswer
  <2>1. lastKey' = lastKey
    BY <1>6 DEF SSShardAnswer, lsVars
  <2>2. QED
    BY <1>0, <1>1, <1>6, <2>1, SSShardAnswerCalm
<1>7. CASE ClientStep
  <2>1. ~(changes < MaxChanges)
    BY <1>0
  <2>2. /\ \/ \E u \in Users : ClientConnect(u)
           \/ \E f \in Fess, k \in Conns : ClientClose(f, k)
        /\ lastKey' = lastKey
    BY <1>7, <2>1 DEF ClientStep, lsVars
  <2>3. CASE \E u \in Users : ClientConnect(u)
    <3>1. OffersKept /\ net' = net
      BY <1>0, <2>3, ClientConnectOffersKept DEF ClientConnect, netVars
    <3>2. Calm(SS, Silent)
      BY <1>0, <3>1, StillCalm
    <3>3. QED
      BY <1>1, <2>2, <3>1, <3>2
  <2>4. CASE \E f \in Fess, k \in Conns : ClientClose(f, k)
    BY <1>0, <1>1, <2>2, <2>4, FESCalm
  <2>5. QED
    BY <2>2, <2>3, <2>4
<1>8. CASE UNCHANGED vars \/ \E f \in Fess, k \in Conns : Play(f, k)
  <2>1. net' = net /\ lastKey' = lastKey /\ UNCHANGED <<offers, events>>
    BY <1>8 DEF vars, Play, netVars, fsVars, lsVars
  <2>2. Calm(SS, Silent) /\ OffersKept
    BY <1>0, <2>1, StillCalm, OffersUnchanged
  <2>3. QED
    BY <1>1, <2>1, <2>2
<1>9. QED
  BY <1>2, <1>3, <1>4, <1>5, <1>6, <1>7, <1>8 DEF Next

LEMMA NewCookiesInit ==
  ASSUME Init
  PROVE  NewCookies
<1>1. \A l \in Links : net[l] = << >>
  BY DEF Init, NetInit
<1>2. (\A u \in Users : offers[u] = {}) /\ (\A f \in Fess : events[f] = << >>)
  BY DEF Init, FSInit
<1>3. \A ck : ~Offered(ck)
  BY <1>1, <1>2 DEF Offered
<1>4. QED
  BY <1>1, <1>3 DEF NewCookies, OnceAsked, NotOffered, Issued, Unchanging

(* So a front end is never asked to await a client with a cookie that its  *)
(* queue shows ...                                                         *)
LEMMA NewCookiesUnseen ==
  ASSUME TypeOK, NewCookies, NEW f \in Fess
  PROVE  Unseen(f)
<1> DEFINE l == <<ShardOf[f], f>>
           m == Head(net[l])
           d == [k \in Links |-> IF k = l THEN 1 ELSE 0]
<1>0. FSTyped /\ NetTyped /\ l \in Links /\ l # <<SS, LS>> /\ events[f] \in Seq(Event)
  BY TypeOKIs, LinksAre, NodesDistinct, PlacesOK, SocketsTyped DEF FSTyped
<1>1. SUFFICES ASSUME Pending(ShardOf[f], f, "M_ENTER_SHARD_REQUEST"),
                      NEW i \in DOMAIN events[f], events[f][i].ev = "validation"
               PROVE  events[f][i].ck # m.ck
  BY DEF Unseen
<1>2. net[l] # << >> /\ m.kind = "M_ENTER_SHARD_REQUEST"
  BY <1>1 DEF Pending
<1>3. \A o \in Cookie : Offered(o) => o # m.ck
  <2> DEFINE e == d
  <2>1. e = [k \in Links |-> IF k = l THEN 1 ELSE 0]
    OBVIOUS
  <2> HIDE DEF d, e
  <2>2. QED
    BY <1>0, <1>2, <2>1, HeadIsLone
<1>4. Offered(events[f][i].ck)
  BY <1>1 DEF Offered
<1>5. events[f][i].ck \in Cookie
  <2>1. events[f][i] \in Event
    BY <1>0, <1>1, LenProperties, ElementOfSeq
  <2>2. QED
    BY <2>1 DEF Event
<1>6. QED
  BY <1>3, <1>4, <1>5

(* ... and no step gives a user a second session on it.                    *)
LEMMA OneSessionKept ==
  ASSUME TypeOK, CookieOrSession, NewCookies, NEW f \in Fess, Sockets(f), OneSession(f),
         [Next]_vars
  PROVE  OneSession(f)'
<1>0. FSTyped /\ Unseen(f)
  BY TypeOKIs, NewCookiesUnseen
<1>1. CASE FSStep
  BY <1>0, <1>1, FESKeepsOneSession DEF FSStep
<1>2. CASE ClientStep
  <2>1. \/ \E u \in Users : ClientConnect(u)
        \/ \E g \in Fess, k \in Conns : ClientClose(g, k) \/ FSChangeShardReq(g, k)
    BY <1>2 DEF ClientStep
  <2>2. QED
    BY <1>0, <2>1, FESKeepsOneSession
<1>3. CASE \/ LSStep \/ WSStep \/ SSStep \/ SSShardAnswer \/ UNCHANGED vars
           \/ \E g \in Fess, k \in Conns : Play(g, k)
  <2>1. UNCHANGED <<conn, events, assoc, pending>>
    BY <1>3 DEF LSStep, WSStep, SSStep, SSShardAnswer, Play, vars, fsVars
  <2>2. QED
    BY <2>1 DEF OneSession
<1>4. QED
  BY <1>1, <1>2, <1>3 DEF Next
(* What holds of the sessions of every front end together. *)
OneSessionInv ==
  /\ TypeOK
  /\ CookieOrSession
  /\ NewCookies
  /\ \A f \in Fess : Sockets(f) /\ OneSession(f)

(* As long as no user changes shard, the open validated sockets and the    *)
(* associations of every front end name each other: a user has at most one *)
(* open session on a front end, for any number of users, sockets, logins   *)
(* and handovers.  The invariant it needs is that a cookie announced to a  *)
(* front end is new there: it has been neither shown by a client nor       *)
(* announced before.  A change of shard announces the cookie of the login  *)
(* a second time.                                                          *)
THEOREM OneSessionPerUser ==
  ASSUME MaxChanges = 0
  PROVE  Spec => []SessionSockets
<1>1. Init => OneSessionInv
  <2> SUFFICES ASSUME Init PROVE OneSessionInv
    OBVIOUS
  <2>1. TypeOK /\ CookieOrSession /\ NewCookies
    BY InitTyped, CookieOrSessionInit, NewCookiesInit
  <2>2. FSInit
    BY DEF Init
  <2>3. \A f \in Fess : Sockets(f) /\ OneSession(f)
    BY <2>2, SocketsInit, OneSessionInit
  <2>4. QED
    BY <2>1, <2>3 DEF OneSessionInv
<1>2. OneSessionInv /\ [Next]_vars => OneSessionInv'
  <2> SUFFICES ASSUME OneSessionInv, [Next]_vars
               PROVE  OneSessionInv'
    OBVIOUS
  <2>1. TypeOK /\ CookieOrSession /\ NewCookies
    BY DEF OneSessionInv
  <2>2. TypeOK'
    BY <2>1, NextTyped
  <2>3. CookieOrSession'
    BY <2>1, CookieOrSessionKept
  <2>4. NewCookies'
    BY <2>1, <2>2, NewCookiesKept
  <2>5. ASSUME NEW f \in Fess
        PROVE  Sockets(f)' /\ OneSession(f)'
    <3>1. Sockets(f) /\ OneSession(f)
      BY DEF OneSessionInv
    <3>2. Sockets(f)'
      BY <2>1, <3>1, SocketsKept
    <3>3. OneSession(f)'
      BY <2>1, <3>1, OneSessionKept
    <3>4. QED
      BY <3>2, <3>3
  <2>6. QED
    BY <2>2, <2>3, <2>4, <2>5 DEF OneSessionInv
<1>3. OneSessionInv => SessionSockets
  <2> SUFFICES ASSUME OneSessionInv PROVE SessionSockets
    OBVIOUS
  <2>1. \A f \in Fess : Sockets(f) /\ OneSession(f)
    BY DEF OneSessionInv
  <2>2. AssociationsName
    BY <2>1, SocketsName
  <2>3. \A f \in Fess, k \in Conns :
          conn[f][k].open /\ conn[f][k].app => assoc[f][conn[f][k].u] = k
    BY <2>1 DEF OneSession, Alone
  <2>4. QED
    BY <2>2, <2>3 DEF SessionSockets
<1> HIDE DEF OneSessionInv
<1>4. QED
  BY <1>1, <1>2, <1>3, PTL DEF Spec
=============================================================================
