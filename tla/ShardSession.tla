---------------------------- MODULE ShardSession ----------------------------
(***************************************************************************)
(* A user's session across the whole family of services: login at the SS,  *)
(* admission by the LS, connection to a front end of the chosen shard,     *)
(* play, change of shard, logoff, second login.                            *)
(***************************************************************************)
EXTENDS LoginService, WelcomeService, FrontendServer, StartService, FiniteSets

CONSTANTS
  MaxChanges,   \* bound: requests to change shard in a behaviour
  MaxPlays,     \* bound: changes a user makes to its data
  InitDbCur     \* the shard the main database has for a user at the start

ASSUME BoundsOK == MaxChanges \in Nat /\ MaxPlays \in Nat
ASSUME InitDbCurOK == InitDbCur \in [Users -> ShardOrNone]

VARIABLES
  changes,      \* requests to change shard so far
  latest        \* history: the version of the last change to a user's data

vars == <<net, dbFaults, dbOnline, dbCur, lsVars, wsVars, fsVars, ssVars,
          changes, latest>>

Init ==
  /\ NetInit /\ LSInit /\ WSInit /\ FSInit /\ SSInit
  /\ dbOnline = [u \in Users |-> NoShard]
  /\ dbCur = InitDbCur
  /\ data = [s \in Shards |-> [u \in Users |->
       IF s = (IF InitDbCur[u] = NoShard THEN MainShard[u] ELSE InitDbCur[u])
       THEN 1 ELSE 0]]
  /\ latest = [u \in Users |-> 1]
  /\ changes = 0

(* cbLSShardChooseShard: the answer reaches the client if the login that   *)
(* asked is still the user's.                                              *)
SSShardAnswer ==
  /\ FromLS("M_ENTER_SHARD_ANSWER")
  /\ LET m == HeadFromLS
     IN  /\ offers' = [offers EXCEPT ![m.u] =
              IF player[m.u].con = m.ck.sock /\ m.v = 0
              THEN @ \cup {[ck |-> m.ck, f |-> m.f]} ELSE @]
         /\ sock' = IF player[m.u].con = m.ck.sock /\ m.v # 0
                    THEN Refused(m.u) ELSE sock
  /\ UNCHANGED <<dbVars, lsVars, wsVars, pending, assoc, conn, events,
                 cookieTimeouts, player, onlineStatus, tempPlayer, choices,
                 changes, latest, dbFaults>>

(* A user in a room changes its data; the room services write it to the    *)
(* shard's database.                                                       *)
Play(f, k) ==
  /\ conn[f][k].open /\ conn[f][k].entered
  /\ LET u == conn[f][k].u
     IN  /\ latest[u] <= MaxPlays
         /\ latest' = [latest EXCEPT ![u] = @ + 1]
         /\ data' = [data EXCEPT ![ShardOf[f]][u] = latest[u] + 1]
  /\ UNCHANGED <<netVars, dbVars, lsVars, nbUser, nbPending, wsAssoc, jobs,
                 fesList, fsVars, ssVars, changes>>

LSStep == LSNext /\ UNCHANGED <<wsVars, fsVars, ssVars, changes, latest>>
WSStep == WSNext /\ UNCHANGED <<dbVars, lsVars, fsVars, ssVars, changes, latest>>
FSStep == FSNext /\ UNCHANGED <<dbVars, lsVars, wsVars, ssVars, changes, latest>>
SSStep == SSNext /\ UNCHANGED <<dbVars, lsVars, wsVars, fsVars, changes, latest>>
ClientStep ==
  /\ \/ /\ UNCHANGED changes
        /\ \/ \E u \in Users : ClientConnect(u)
           \/ \E f \in Fess, k \in Conns : ClientClose(f, k)
     \/ /\ changes < MaxChanges
        /\ changes' = changes + 1
        /\ \E f \in Fess, k \in Conns : FSChangeShardReq(f, k)
  /\ UNCHANGED <<dbVars, lsVars, wsVars, ssVars, latest>>

Next ==
  \/ LSStep \/ WSStep \/ FSStep \/ SSStep \/ ClientStep \/ SSShardAnswer
  \/ \E f \in Fess, k \in Conns : Play(f, k)

Spec == Init /\ [][Next]_vars

(* Every service goes on handling what it has received and what its        *)
(* database threads report; nothing obliges a client to do anything.       *)
Fairness == /\ WF_vars(LSStep) /\ WF_vars(WSStep)
            /\ WF_vars(FSStep) /\ WF_vars(SSStep \/ SSShardAnswer)
FairSpec == Spec /\ Fairness

-----------------------------------------------------------------------------
(* Type correctness *)

TypeOK ==
  /\ NetTypeOK /\ LSTypeOK /\ WSTypeOK /\ FSTypeOK /\ SSTypeOK
  /\ changes \in Nat
  /\ latest \in [Users -> Nat]

-----------------------------------------------------------------------------
(* Where a user is *)

(* The sockets of u that are open and have been told M_ENTER__SHARD. *)
InRoom(u) == {c \in Fess \X Conns : LET k == conn[c[1]][c[2]]
                                   IN  k.u = u /\ k.open /\ k.entered}
(* The shards u plays on. *)
PlaysOn(u) == {ShardOf[c[1]] : c \in InRoom(u)}

(* A user "can't enter two shards at once" (doConnectUserToShard): the     *)
(* logoff from one shard and the entry to the next go through the LS, and  *)
(* no order of their messages lets the user play on both.                  *)
EnteredOnOneShard == \A u \in Users : \A s, t \in PlaysOn(u) : s = t

(* A user in the rooms of a shard finds its data there as it last left it: *)
(* the copy from the previous shard is complete before M_ENTER__SHARD, and *)
(* no copy on its way overwrites what the user has changed since.          *)
RoomHasLatestData ==
  \A u \in Users : \A s \in PlaysOn(u) : data[s][u] = latest[u]

(* Whatever happens, some shard's database holds the last version of the   *)
(* data: a move never copies an old version over the only new one.         *)
LatestDataKept == \A u \in Users : \E s \in Shards : data[s][u] = latest[u]

(* The LS and the main database know the shard a user plays on: no logoff  *)
(* of an earlier session, reported late, erases a later one.               *)
PlayIsRecorded ==
  \A u \in Users : \A s \in PlaysOn(u) : current[u] = s /\ dbOnline[u] = s

(* The LS lets a session in on a shard only when the user has left every   *)
(* other one: "must wait until the user has logged off".                   *)
EntryAwaitsLogoff ==
  \A u \in Users : \A s \in PlaysOn(u) : current[u] \in {s, NoShard}

-----------------------------------------------------------------------------
(* What the services remember of each other *)

(* A front end has at most one session of a user: every validated open     *)
(* socket is the user's association, and an association names a validated  *)
(* socket of that user that is open or whose disconnection is queued.      *)
SessionSockets ==
  /\ \A f \in Fess, k \in Conns :
       conn[f][k].open /\ conn[f][k].app => assoc[f][conn[f][k].u] = k
  /\ AssociationsName

(* NbPendingUsers of a front end is never less than the cookies that wait  *)
(* there: the WS would send it more clients than it believes.              *)
PendingCounted == \A f \in Fess : Cardinality(pending[f]) <= nbPending[f]

(* Nothing is in flight between the services or queued inside one.         *)
Settled ==
  /\ \A l \in Links : net[l] = << >>
  /\ \A s \in Shards : jobs[s] = << >>
  /\ \A f \in Fess : events[f] = << >>

(* Once everything sent has arrived, each WS knows exactly the sessions    *)
(* its front ends have: no connection or disconnection went unreported or  *)
(* was reported in the wrong order.                                        *)
WSKnowsItsSessions ==
  Settled => \A f \in Fess, u \in Users : wsAssoc[ShardOf[f]][u] = f <=> assoc[f][u] # 0
(* Of that, what needs no more than the order of the reports: a WS holds   *)
(* no session that its front end does not have.                            *)
SessionsAreReal ==
  Settled => \A f \in Fess, u \in Users : wsAssoc[ShardOf[f]][u] = f => assoc[f][u] # 0

(* ... no user is recorded online in the main database without a session   *)
(* on that shard (such a user could not log in any more) ...               *)
OnlineHasSession ==
  Settled => \A u \in Users : dbOnline[u] # NoShard =>
               \E f \in FesOf(dbOnline[u]) : assoc[f][u] # 0

(* ... and every client that was let in has been told M_ENTER__SHARD,      *)
(* unless it waits for its own session on another shard to end.            *)
NoClientStranded ==
  Settled => \A f \in Fess, k \in Conns :
               LET c == conn[f][k]
               IN  c.open /\ c.app => c.entered \/ waiting[c.u] = [s |-> ShardOf[f], f |-> f]

(* Every cookie counted by the WS waits on its front end: NbPendingUsers   *)
(* is the "number of not yet connected users (but routed to this           *)
(* frontend)".                                                             *)
PendingCountExact ==
  Settled => \A f \in Fess : nbPending[f] = Cardinality(pending[f])

(* OnlineStatus says that a user is logged in at the main server and has   *)
(* not entered a shard yet: the slave then has its connection.             *)
OnlineStatusHasLogin == \A u \in Users : onlineStatus[u] => player[u] # NoPlayer

-----------------------------------------------------------------------------
(* Progress, and the promise to the user *)

(* A session that waits for its user's old session is served once that     *)
(* one's client is gone: its disconnection reaches the LS through the FES, *)
(* the WS and the WS's database thread.                                    *)
WaitingIsServed ==
  \A u \in Users :
    (waiting[u] # Nowhere /\ \A f \in FesOf(current[u]), k \in Conns :
                               ~(conn[f][k].open /\ conn[f][k].u = u))
      ~> waiting[u] = Nowhere

(* A request to change shard is always answered: it does not stay in       *)
(* g_ChangeShardReqList, where it would block every later one.             *)
ChangeIsAnswered ==
  \A u \in Users : changeReq[u] # Nowhere ~> changeReq[u] = Nowhere

(* The services together implement ShardPlay. *)
Promise == INSTANCE ShardPlay WITH
  where <- [u \in Users |-> IF PlaysOn(u) = {} THEN NoShard
                            ELSE CHOOSE s \in PlaysOn(u) : TRUE],
  latest <- latest,
  seen <- [u \in Users |-> IF PlaysOn(u) = {} THEN latest[u]
                           ELSE data[CHOOSE s \in PlaysOn(u) : TRUE][u]]
PromiseKept == Promise!Spec
=============================================================================
