----------------------------- MODULE Activities -----------------------------
(***************************************************************************)
(* CSharedActChannelData: the rites of one channel of a room (openroom).   *)
(*                                                                         *)
(* Every place of the channel (ActPos) has desks and a waiting list.  A    *)
(* rite is one user's, or a host's with guests who are invited, accept,    *)
(* get ready, and each report that they have started.  Handlers run one at *)
(* a time; what they meet is the order in which users ask, answer, give up,*)
(* walk out of the room and lose their connection.                         *)
(***************************************************************************)
EXTENDS Naturals, Sequences, FiniteSets

CONSTANTS
  Users,        \* families
  NoUser,       \* NOFAMILYID
  Positions,    \* ActPos
  MultiAt,      \* the places where IsValidMultiActPos
  LuckAt,       \* the places whose waiting list is cancelled (ACTPOS_PUB_LUCK)
  DeskCount,    \* ActivityDeskCount of each place
  Guests,       \* MAX_MULTIACT_FAMILY_COUNT - 1, the guests of a rite
  MultiTypes,   \* "multi" and "pray": rites that stay or stop being rites of many
  Waits,        \* the room has waiting lists (Kongzi and Huangdi have none)
  LateInvites   \* clients invite guests after they have said GO

ASSUME UsersOK == NoUser \notin Users
ASSUME PlacesOK == Positions \subseteq Nat /\ MultiAt \subseteq Positions /\ LuckAt \subseteq Positions
ASSUME DesksOK == DeskCount \in [Positions -> Nat \ {0}]
ASSUME GuestsOK == Guests \in Nat
ASSUME TypesOK == MultiTypes \subseteq {"multi", "pray"}
ASSUME RoomOK == Waits \in BOOLEAN /\ LateInvites \in BOOLEAN

VARIABLES
  act,    \* m_Activitys: the desks and the waiting list of each place
  place   \* of each user: in the channel, elsewhere in the service, offline

vars == <<act, place>>

Desks(p) == 0 .. DeskCount[p] - 1
Seats    == 0 .. Guests      \* indexes of ActivityUsers; the host's is 0
Joins    == Seats \ {0}

Nobody      == [who |-> NoUser, status |-> "NONE"]
Asked(u)    == [who |-> u, status |-> "NONE"]
IsMulti(x)  == x.type \in {"multi", "pray"}
FreeDesk    == [host |-> NoUser, flag |-> "no", type |-> "visit",
                users |-> [i \in Seats |-> Nobody]]
First(S)    == CHOOSE n \in S : \A m \in S : n <= m

Here(u)   == place[u] = "here"
Online(u) == u \in Users /\ place[u] # "offline"
-----------------------------------------------------------------------------
(* Who takes part in what.  x is a desk or an entry of the waiting list.   *)
Host(x)      == x.users[0].who
Joined(x, u) == IsMulti(x) /\ \E i \in Joins : x.users[i].who = u
AtDesk(x, u) == x.host # NoUser /\ (x.host = u \/ Joined(x, u))
InLine(x, u) == Host(x) = u \/ Joined(x, u)
SeatOf(x, u) == First({i \in Joins : x.users[i].who = u})

DesksOf(a, u) == {d \in DOMAIN a.desk : AtDesk(a.desk[d], u)}
TurnsOf(a, u) == {i \in DOMAIN a.wait : InLine(a.wait[i], u)}
BusyAtDesk(a, u) == DesksOf(a, u) # {}
BusyAt(a, u)  == DesksOf(a, u) # {} \/ TurnsOf(a, u) # {}
Busy(u)       == \E p \in Positions : BusyAt(act[p], u)
Free(a)       == {d \in DOMAIN a.desk : a.desk[d].host = NoUser}

(* The desks of the rites of many that u hosts or takes part in.           *)
Hosted(a, u) == {d \in DOMAIN a.desk : a.desk[d].host = u /\ IsMulti(a.desk[d])}
Shared(a, u) == {d \in DesksOf(a, u) : IsMulti(a.desk[d])}

(* The rite of many with u among its users, a desk's before a waiting one, *)
(* after its change by F.                                                  *)
InGroup(x, u) == IsMulti(x) /\ \E i \in Seats : x.users[i].who = u
GroupDesks(a, u) == {d \in DOMAIN a.desk : InGroup(a.desk[d], u)}
GroupTurns(a, u) == {i \in DOMAIN a.wait : InGroup(a.wait[i], u)}
Group(a, u, F(_)) ==
  IF GroupDesks(a, u) # {} THEN [a EXCEPT !.desk[First(GroupDesks(a, u))] = F(@)]
  ELSE IF GroupTurns(a, u) # {} THEN [a EXCEPT !.wait[First(GroupTurns(a, u))] = F(@)]
  ELSE a
-----------------------------------------------------------------------------
(* What ends a user's part in the rites of a place.                        *)

AllStarted(x) == \A i \in Seats : x.users[i].who # NoUser => x.users[i].status = "START"
CheckBeforeGo(x) == IF x.host # NoUser /\ x.flag = "no" /\ AllStarted(x)
                    THEN [x EXCEPT !.flag = "started"] ELSE x
CheckMultiactAllStarted(x) ==
  IF x.host # NoUser /\ x.flag # "started" /\ AllStarted(x)
  THEN [x EXCEPT !.flag = "started"] ELSE x

(* A guest gives up his seat; who walks out of the room keeps an invitation*)
(* he has not answered.                                                    *)
GiveUp(x, u, unconditional) ==
  IF unconditional \/ x.users[SeatOf(x, u)].status # "NONE"
  THEN [x EXCEPT !.users[SeatOf(x, u)] = Nobody] ELSE x

(* The rest of a waiting list, without the entries of u and of users who   *)
(* are gone: what stands at the places S of w, in their order.             *)
Kept(w, S) ==
  [j \in 1 .. Cardinality(S) |-> w[CHOOSE i \in S : Cardinality({m \in S : m <= i}) = j]]
Rest(w, k, u) ==
  Kept(w, {i \in k + 1 .. Len(w) : Host(w[i]) # u /\ Online(Host(w[i]))})

(* A desk is given up: the first waiting host who is still there takes it. *)
Promote(x) == [host |-> Host(x), flag |-> "no", type |-> x.type, users |-> x.users]
PassOnNobody(a, d, u) == [a EXCEPT !.desk[d] = FreeDesk]
PassOnLast(a, d, u) ==
  IF a.wait = <<>> THEN [a EXCEPT !.desk[d] = FreeDesk]
  ELSE [desk |-> [a.desk EXCEPT ![d] = Promote(a.wait[Len(a.wait)])],
        wait |-> SubSeq(a.wait, 1, Len(a.wait) - 1)]
PassOnUnreset(a, d, u) ==
  IF a.wait = <<>> THEN [a EXCEPT !.desk[d].host = NoUser]
  ELSE [desk |-> [a.desk EXCEPT ![d] = Promote(a.wait[1])], wait |-> Rest(a.wait, 1, u)]
PassOn(a, d, u) ==
  LET there == {i \in DOMAIN a.wait : Online(Host(a.wait[i]))}
      k     == First(there)
  IN IF there = {} THEN [desk |-> [a.desk EXCEPT ![d] = FreeDesk], wait |-> <<>>]
     ELSE [desk |-> [a.desk EXCEPT ![d] = Promote(a.wait[k])], wait |-> Rest(a.wait, k, u)]

(* The waiting list after u gave up the turns it waits for as a host.      *)
Unqueue(w, u) ==
  LET own == {i \in DOMAIN w : Host(w[i]) = u}
  IN IF own = {} THEN w ELSE SubSeq(w, 1, First(own) - 1) \o Rest(w, First(own), u)

ActWaitCancel(a, u, unconditional) ==
  LET d == First(DesksOf(a, u))
      i == First(TurnsOf(a, u))
  IN IF DesksOf(a, u) # {}
     THEN IF a.desk[d].host = u THEN PassOn(a, d, u)
          ELSE [desk |-> [a.desk EXCEPT ![d] =
                            CheckMultiactAllStarted(GiveUp(@, u, unconditional))],
                wait |-> Unqueue(a.wait, u)]
     ELSE IF TurnsOf(a, u) # {}
     THEN IF Host(a.wait[i]) = u THEN [a EXCEPT !.wait = Unqueue(@, u)]
          ELSE [a EXCEPT !.wait =
                  Unqueue([a.wait EXCEPT ![i] = GiveUp(a.wait[i], u, unconditional)], u)]
     ELSE a

CancelFirst(acts, u, unconditional) ==
  [acts EXCEPT ![First(Positions)] = ActWaitCancel(@, u, unconditional)]
AllActCancel(acts, u, unconditional) ==
  [p \in Positions |-> ActWaitCancel(acts[p], u, unconditional)]
-----------------------------------------------------------------------------
Init ==
  /\ act = [p \in Positions |-> [desk |-> [d \in Desks(p) |-> FreeDesk], wait |-> <<>>]]
  /\ place = [u \in Users |-> "offline"]

(* M_NT_LOGIN, entering the room, leaving it (OutRoom), and RemoveFamily.  *)
LogIn(u) == place[u] = "offline" /\ place' = [place EXCEPT ![u] = "elsewhere"]
            /\ UNCHANGED act
EnterRoom(u) == place[u] = "elsewhere" /\ place' = [place EXCEPT ![u] = "here"]
                /\ UNCHANGED act
OutRoom(u) == /\ Here(u)
              /\ act' = AllActCancel(act, u, FALSE)
              /\ place' = [place EXCEPT ![u] = "elsewhere"]
RemoveFamily(u) ==
  /\ Online(u)
  /\ act' = AllActCancel(IF Here(u) THEN AllActCancel(act, u, FALSE) ELSE act, u, TRUE)
  /\ place' = [place EXCEPT ![u] = "offline"]

(* A rite of one user. *)
ACT_REQ(u, p) ==
  /\ Here(u) /\ ~Busy(u)
  /\ \/ /\ Free(act[p]) # {}
        /\ act' = [act EXCEPT ![p].desk[First(Free(act[p]))] =
                     [FreeDesk EXCEPT !.host = u, !.type = "single"]]
     \/ /\ Free(act[p]) = {} /\ Waits
        /\ act' = [act EXCEPT ![p].wait = Append(@,
                     [type |-> "single",
                      users |-> [i \in Seats |-> IF i = 0 THEN Asked(u) ELSE Nobody]])]
  /\ UNCHANGED place

(* GetActivityDesk: the user's first place, if he is at a desk of it.  A    *)
(* client sends this for a rite of one.                                    *)
FirstPlace(u) == First({p \in Positions : BusyAt(act[p], u)})
ACT_START(u) ==
  /\ Here(u) /\ Busy(u)
  /\ LET p == FirstPlace(u)
         d == First(DesksOf(act[p], u))
     IN /\ DesksOf(act[p], u) # {} /\ ~IsMulti(act[p].desk[d])
        /\ act' = [act EXCEPT ![p].desk[d].flag = "started"]
  /\ UNCHANGED place

ACT_WAIT_CANCEL(u, p) ==
  /\ Here(u)
  /\ act' = [act EXCEPT ![p] = ActWaitCancel(@, u, TRUE)]
  /\ UNCHANGED place

ACT_RELEASE(u) ==
  /\ Here(u) /\ Busy(u)
  /\ act' = [act EXCEPT ![FirstPlace(u)] = ActWaitCancel(@, u, TRUE)]
  /\ UNCHANGED place

(* RefreshLuck: the time of the place is up. *)
CancelActivityWaiting(p) ==
  /\ act' = [act EXCEPT ![p].wait = <<>>]
  /\ UNCHANGED place
-----------------------------------------------------------------------------
(* A rite of many.  The callback drops the request when a guest is gone,   *)
(* the handler the guests who are busy.                                    *)
Party(u, guests) ==
  [i \in Seats |-> IF i = 0 THEN [who |-> u, status |-> "READY"]
                   ELSE IF guests[i] = NoUser \/ Busy(guests[i]) THEN Nobody
                   ELSE Asked(guests[i])]
MULTIACT_REQ(u, p, type, guests) ==
  /\ Here(u) /\ ~Busy(u)
  /\ \A i \in Joins : guests[i] # NoUser => Online(guests[i])
  /\ \/ /\ Free(act[p]) # {}
        /\ act' = [act EXCEPT ![p].desk[First(Free(act[p]))] =
                     [host |-> u, flag |-> "no", type |-> type, users |-> Party(u, guests)]]
     \/ /\ Free(act[p]) = {} /\ Waits
        /\ act' = [act EXCEPT ![p].wait = Append(@, [type |-> type, users |-> Party(u, guests)])]
  /\ UNCHANGED place

(* The first empty seat goes to v (AddFamily; a full rite is left alone).  *)
EmptySeats(x, from) == {i \in from : x.users[i].who = NoUser}
AddFamily(x, v) == IF EmptySeats(x, Seats) = {} THEN x
                   ELSE [x EXCEPT !.users[First(EmptySeats(x, Seats))] = Asked(v)]
(* Users who are gone lose their seats. *)
OnlyOnline(x) == [x EXCEPT !.users = [i \in Seats |->
                    IF i # 0 /\ @[i].who # NoUser /\ ~Online(@[i].who)
                    THEN [@[i] EXCEPT !.who = NoUser] ELSE @[i]]]

(* A host invites one more: to the rite he has on the first desk (in a room*)
(* without waiting lists on any desk), or to the one he waits with.        *)
MULTIACT_REQADD(u, p, v) ==
  LET a    == act[p]
      desk == IF Waits THEN 0 ELSE First(Hosted(a, u))
      own  == {i \in DOMAIN a.wait : IsMulti(a.wait[i]) /\ Host(a.wait[i]) = u}
      With(x) == OnlyOnline(IF Online(v) /\ ~Busy(v) THEN AddFamily(x, v) ELSE x)
  IN /\ Here(u)
     /\ Waits \/ Hosted(a, u) # {}
     /\ \/ /\ a.desk[desk].host = u /\ IsMulti(a.desk[desk])
           /\ LateInvites \/ a.desk[desk].flag = "no"
           /\ act' = [act EXCEPT ![p].desk[desk] = With(@)]
        \/ /\ a.desk[desk].host # u /\ own # {}
           /\ act' = [act EXCEPT ![p].wait[First(own)] = With(@)]
     /\ UNCHANGED place

(* A user joins the rite of the first desk on his own.  He knows of the    *)
(* rites he hosts and has agreed to join, not of an invitation on its way. *)
Committed(u) ==
  \E p \in Positions :
    LET In(x) == \/ Host(x) = u
                 \/ \E i \in Joins : x.users[i].who = u /\ x.users[i].status # "NONE"
    IN \/ \E d \in Desks(p) : act[p].desk[d].host = u \/ In(act[p].desk[d])
       \/ \E i \in DOMAIN act[p].wait : In(act[p].wait[i])
MULTIACT2_JOIN(u, p) ==
  LET x == act[p].desk[0]
  IN /\ Here(u) /\ ~Committed(u)
     /\ x.host # NoUser /\ x.flag = "no" /\ EmptySeats(x, Joins) # {}
     /\ act' = [act EXCEPT ![p].desk[0].users[First(EmptySeats(x, Joins))] = Asked(u)]
     /\ UNCHANGED place

(* The answer to an invitation; a refusal empties the seat.                *)
MULTIACT_ANS(u, p, yes) ==
  LET Answered(x) ==
        IF ~Joined(x, u) \/ x.users[SeatOf(x, u)].status # "NONE" THEN x
        ELSE IF yes THEN [x EXCEPT !.users[SeatOf(x, u)].status = "ACCEPT"]
        ELSE [x EXCEPT !.users[SeatOf(x, u)].who = NoUser]
  IN /\ Online(u)
     /\ act' = [act EXCEPT ![p] = Group(@, u, Answered)]
     /\ UNCHANGED place

MULTIACT_READY(u, p) ==
  LET Prepared(x) ==
        IF ~Joined(x, u) \/ x.users[SeatOf(x, u)].status # "ACCEPT" THEN x
        ELSE [x EXCEPT !.users[SeatOf(x, u)].status = "READY"]
  IN /\ Here(u)
     /\ act' = [act EXCEPT ![p] = Group(@, u, Prepared)]
     /\ UNCHANGED place

(* The host begins with those who are ready; alone, a "pray" becomes a rite*)
(* of one.                                                                 *)
MULTIACT_GO(u, p) ==
  LET d     == First(Hosted(act[p], u))
      x     == act[p].desk[d]
      ready == {i \in Seats : x.users[i].who # NoUser /\ x.users[i].status = "READY"}
      stays(i) == i \in ready /\ Online(x.users[i].who)
  IN /\ Here(u) /\ Hosted(act[p], u) # {}
     /\ x.flag = "no"
     /\ act' = [act EXCEPT ![p].desk[d] =
          [x EXCEPT !.flag = "go",
                    !.type = IF Cardinality(ready) = 1 /\ @ = "pray" THEN "single" ELSE @,
                    !.users = [i \in Seats |-> IF stays(i) THEN @[i]
                                               ELSE [@[i] EXCEPT !.who = NoUser]]]]
     /\ UNCHANGED place

(* A client reports that it has started, after the host's GO.              *)
MULTIACT_START(u, p) ==
  LET d == First(Shared(act[p], u))
      x == act[p].desk[d]
  IN /\ Here(u) /\ Shared(act[p], u) # {}
     /\ x.flag = "go"
     /\ act' = [act EXCEPT ![p].desk[d] = CheckMultiactAllStarted(
          [x EXCEPT !.users = [i \in Seats |-> IF @[i].who = u
                                               THEN [@[i] EXCEPT !.status = "START"] ELSE @[i]]])]
     /\ UNCHANGED place

(* The rite is over: the host's desk goes to the next.                     *)
MULTIACT_RELEASE(u, p) ==
  /\ Here(u) /\ Hosted(act[p], u) # {}
  /\ act' = [act EXCEPT ![p] = ActWaitCancel(@, u, TRUE)]
  /\ UNCHANGED place

(* A guest or the host calls off; this needs no presence in the room.      *)
MULTIACT_CANCEL(u, p) ==
  LET a == act[p]
      x == IF GroupDesks(a, u) # {} THEN a.desk[First(GroupDesks(a, u))]
           ELSE a.wait[First(GroupTurns(a, u))]
      Left(y) == [y EXCEPT !.users[SeatOf(y, u)] = Nobody]
      LeftDesk(y) == CheckMultiactAllStarted(Left(y))
  IN /\ Online(u)
     /\ GroupDesks(a, u) # {} \/ GroupTurns(a, u) # {}
     /\ act' = [act EXCEPT ![p] =
          IF Host(x) = u THEN ActWaitCancel(@, u, TRUE)
          ELSE IF GroupDesks(a, u) # {} THEN Group(@, u, LeftDesk)
          ELSE Group(@, u, Left)]
     /\ UNCHANGED place
-----------------------------------------------------------------------------
Multi(u, p) ==
  \/ \E type \in MultiTypes, guests \in [Joins -> (Users \ {u}) \cup {NoUser}] :
       /\ \A i, j \in Joins : guests[i] = guests[j] => i = j \/ guests[i] = NoUser
       /\ MULTIACT_REQ(u, p, type, guests)
  \/ \E v \in Users \ {u} : MULTIACT_REQADD(u, p, v)
  \/ MULTIACT2_JOIN(u, p)
  \/ \E yes \in BOOLEAN : MULTIACT_ANS(u, p, yes)
  \/ MULTIACT_READY(u, p)
  \/ MULTIACT_GO(u, p)
  \/ MULTIACT_START(u, p)
  \/ MULTIACT_RELEASE(u, p)
  \/ MULTIACT_CANCEL(u, p)

Next ==
  \/ \E u \in Users :
       \/ LogIn(u) \/ EnterRoom(u) \/ OutRoom(u) \/ RemoveFamily(u)
       \/ ACT_START(u) \/ ACT_RELEASE(u)
       \/ \E p \in Positions : ACT_REQ(u, p) \/ ACT_WAIT_CANCEL(u, p)
       \/ \E p \in MultiAt : Multi(u, p)
  \/ \E p \in LuckAt : CancelActivityWaiting(p)

Spec == Init /\ [][Next]_vars

(* A rite ends some time: whoever holds a desk ends it, walks out or loses *)
(* the connection.                                                         *)
Ends(u) == /\ \E p \in Positions : \E d \in Desks(p) : act[p].desk[d].host = u
           /\ ACT_RELEASE(u) \/ OutRoom(u) \/ RemoveFamily(u)
FairSpec == Spec /\ \A u \in Users : WF_vars(Ends(u))
-----------------------------------------------------------------------------
(* The type invariant; a desk that was given up is as init leaves it.      *)
Statuses  == {"NONE", "ACCEPT", "READY", "START"}
SeatTypes == [who : Users \cup {NoUser}, status : Statuses]
Entries   == [type : {"single"} \cup MultiTypes, users : [Seats -> SeatTypes]]
DeskTypes == [host : Users \cup {NoUser}, flag : {"no", "go", "started"},
              type : {"visit", "single"} \cup MultiTypes, users : [Seats -> SeatTypes]]
TypeOK ==
  /\ place \in [Users -> {"here", "elsewhere", "offline"}]
  /\ DOMAIN act = Positions
  /\ \A p \in Positions : /\ act[p].desk \in [Desks(p) -> DeskTypes]
                          /\ act[p].wait \in Seq(Entries)
                          /\ \A d \in Free(act[p]) : act[p].desk[d] = FreeDesk

(* Nobody waits for a place with a free desk: whatever ends a rite hands   *)
(* its desk on (ActWaitCancel), and who asks gets a free desk first.       *)
NoIdleDesk == \A p \in Positions : act[p].wait # <<>> => Free(act[p]) = {}

(* Desks and turns belong to users who are in the channel: leaving the     *)
(* room or the service gives them up wherever they are (AllActCancel).     *)
HostsPresent ==
  \A p \in Positions :
    /\ \A d \in Desks(p) : act[p].desk[d].host # NoUser => Here(act[p].desk[d].host)
    /\ \A i \in DOMAIN act[p].wait : Here(Host(act[p].wait[i]))

(* When the last guest who had not started gives up, the others are told   *)
(* that the rite has begun: a rite everyone has started is marked started. *)
StartNotMissed ==
  \A p \in Positions : \A d \in Desks(p) :
    LET x == act[p].desk[d]
    IN x.host # NoUser /\ IsMulti(x) /\ AllStarted(x) => x.flag = "started"

(* The desks and the line are those of RiteQueue: first come, first served,*)
(* a desk is never taken from its host, nobody has two turns.              *)
Queue == INSTANCE RiteQueue WITH
  holder <- [p \in Positions |-> [d \in Desks(p) |-> act[p].desk[d].host]],
  line   <- [p \in Positions |-> [i \in DOMAIN act[p].wait |-> Host(act[p].wait[i])]]
QueueKept == Queue!Spec

(* Who waits is served, or gives up, if rites end: no host is overtaken for*)
(* ever by others who come back for the desk.                              *)
Waiting(u, p) == \E i \in DOMAIN act[p].wait : Host(act[p].wait[i]) = u
WaiterIsServed == \A u \in Users, p \in Positions : Waiting(u, p) ~> ~Waiting(u, p)
=============================================================================
